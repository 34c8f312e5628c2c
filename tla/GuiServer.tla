------------------------------ MODULE GuiServer ------------------------------
(***************************************************************************)
(* KernelGUI of titoos/gui/server.py: the life of its server under start(),*)
(* serve_forever() and stop(), called from several threads, and the        *)
(* requests its handlers carry out on the kernel under the GUI's lock.     *)
(*                                                                         *)
(* A section under _lifecycle_lock waits for nothing, so it is one action. *)
(* ThreadingHTTPServer is external: it is modelled by what socketserver    *)
(* does in serve_forever() and shutdown().  The kernel is its tick number  *)
(* and whether a tick is going on.                                         *)
(***************************************************************************)
EXTENDS Naturals, Sequences, FiniteSets

CONSTANTS
  None,
  Gui,         \* the thread that start() starts
  Server,      \* threads that call serve_forever() and end when it returns
  Owner,       \* threads inside `with KernelGUI(...) as gui: gui.serve_forever()`
  Caller,      \* threads that call start(), and stop() once
  Request,     \* the requests that clients may send
  CtrlC,       \* the thread that Ctrl-C may interrupt while it serves: the main
               \* thread, or None
  RunTicks,    \* the values of max_ticks that requests ask for
  History,     \* how many reports are kept
  MaxTicks     \* bound

Thread == {Gui} \cup Server \cup Owner \cup Caller

ASSUME GuiAssumption ==
  /\ None \notin Thread \cup Request /\ Gui \notin Server \cup Owner \cup Caller
  /\ Server \cap Owner = {} /\ Caller \cap (Server \cup Owner) = {}
  /\ CtrlC \in (Thread \ {Gui}) \cup {None} /\ RunTicks \subseteq Nat
  /\ History \in Nat \ {0} /\ MaxTicks \in Nat

VARIABLES
  thread, serveThread, serving, stopped,   \* the attributes of those names
  stopLock,    \* who holds _stop_lock
  joins,       \* the thread that each stop() is to join
  cutShort,    \* history: Ctrl-C caught the last thread that was to serve on its
               \* way into the server's loop, or on its way out
  asked,       \* server: shutdown() was called
  loopOver,    \* server: the event that shutdown() waits for
  open,        \* server: the socket
  pc,          \* where each thread is in serve_forever() or stop()
  lock,        \* the request that holds _lock
  rpc,         \* where each request's handler is
  op,          \* what it was asked for
  todo,        \* the ticks left of a run
  ran,         \* the reports a step or run has collected
  view,        \* what state() has read
  tick, inTick, reports,
  unreported   \* history: the ticks of requests that raised

lifeVars  == << thread, serveThread, serving, stopped, stopLock, joins, cutShort >>
srvVars   == << asked, loopOver, open >>
reqVars   == << op, todo, ran, view >>
tickVars  == << tick, inTick, reports, unreported >>
vars == << lifeVars, srvVars, pc, lock, rpc, reqVars, tickVars >>

\* What do_GET() and do_POST() tell apart; "bad" is what they refuse.
Kinds == {"bad", "read", "send", "step", "run"}

Serving == {"announced", "loop", "ready", "left"}
Place   == Serving \cup {"idle", "starting", "ended", "want", "asking", "awaiting",
                         "joining", "closing"}

TypeOK ==
  /\ thread \in {Gui, None} /\ serveThread \in Thread \cup {None}
  /\ serving \in BOOLEAN /\ stopped \in BOOLEAN /\ stopLock \in Thread \cup {None}
  /\ joins \in [Thread -> Thread \cup {None}] /\ cutShort \in BOOLEAN
  /\ asked \in BOOLEAN /\ loopOver \in BOOLEAN /\ open \in BOOLEAN
  /\ pc \in [Thread -> Place]
  /\ lock \in Request \cup {None}
  /\ rpc \in [Request -> {"none", "handling", "in", "half", "tick", "answered", "dropped"}]
  /\ op \in [Request -> {"none"} \cup Kinds]
  /\ todo \in [Request -> Nat] /\ ran \in [Request -> Seq(1..MaxTicks)]
  /\ view \in [Request -> [tick : 0..MaxTicks, reports : Seq(1..MaxTicks)]]
  /\ tick \in 0..MaxTicks /\ inTick \in BOOLEAN
  /\ reports \in Seq(1..MaxTicks) /\ unreported \subseteq 1..MaxTicks

NoView == [tick |-> 0, reports |-> << >>]

Init ==
  /\ thread = None /\ serveThread = None /\ serving = FALSE /\ stopped = FALSE
  /\ stopLock = None /\ joins = [t \in Thread |-> None] /\ cutShort = FALSE
  /\ asked = FALSE /\ loopOver = FALSE /\ open = TRUE
  /\ pc = [t \in Thread |-> IF t = Gui THEN "ended" ELSE "idle"]
  /\ lock = None /\ rpc = [r \in Request |-> "none"]
  /\ op = [r \in Request |-> "none"] /\ todo = [r \in Request |-> 0]
  /\ ran = [r \in Request |-> << >>]
  /\ view = [r \in Request |-> NoView]
  /\ tick = 0 /\ inTick = FALSE /\ reports = << >> /\ unreported = {}

Goto(t, place) == pc' = [pc EXCEPT ![t] = place]
NoRequest == UNCHANGED << lock, rpc, reqVars, tickVars >>

-----------------------------------------------------------------------------
(* start() and serve_forever()                                             *)

\* start() raises, and changes nothing, when started before or stopped.
Start(t) ==
  /\ t \in Caller /\ pc[t] = "idle"
  /\ thread = None /\ ~stopped
  /\ thread' = Gui /\ Goto(Gui, "starting")
  /\ UNCHANGED << serveThread, serving, stopped, stopLock, joins, cutShort, srvVars >>
  /\ NoRequest

\* What a thread does once serve_forever() has returned or raised.
After(t) == IF t \in Owner THEN "want" ELSE "ended"

\* Faults: serve_forever() after stop(); two threads serving.
Refused_Stopped == serving
Refused_Serving == stopped

Refused == stopped \/ serving

MayServe(t) ==
  \/ t = Gui /\ pc[t] = "starting"
  \/ t \in Server \cup Owner /\ pc[t] = "idle"

Serve(t) ==
  /\ MayServe(t)
  /\ IF Refused
     THEN Goto(t, After(t)) /\ UNCHANGED << serveThread, serving, cutShort >>
     ELSE /\ serveThread' = t /\ serving' = TRUE /\ Goto(t, "announced")
          /\ cutShort' = FALSE
  /\ UNCHANGED << thread, stopped, stopLock, joins, srvVars >> /\ NoRequest

\* The server's serve_forever(): the event is cleared, then the flag is looked
\* at before each request.
Listen(t) ==
  /\ pc[t] = "announced"
  /\ loopOver' = FALSE /\ Goto(t, "loop")
  /\ UNCHANGED << lifeVars, asked, open >> /\ NoRequest

Poll(t) ==
  /\ pc[t] = "loop" /\ ~asked /\ \E r \in Request : rpc[r] = "none"
  /\ Goto(t, "ready")
  /\ UNCHANGED << lifeVars, srvVars >> /\ NoRequest

\* Each request has a handler thread of its own.
Accept(t, r) ==
  /\ pc[t] = "ready" /\ rpc[r] = "none"
  /\ \E kind \in Kinds, n \in RunTicks :
       /\ kind # "run" => n = CHOOSE m \in RunTicks : TRUE
       /\ op' = [op EXCEPT ![r] = kind]
       /\ todo' = [todo EXCEPT ![r] = IF kind = "run" THEN n
                                      ELSE IF kind = "step" THEN 1 ELSE 0]
  /\ rpc' = [rpc EXCEPT ![r] = "handling"] /\ Goto(t, "loop")
  /\ UNCHANGED << lifeVars, srvVars, lock, ran, view, tickVars >>

LoopEnds(t) ==
  /\ \/ pc[t] = "loop" /\ asked
     \/ pc[t] \in {"loop", "ready"} /\ t = CtrlC
  /\ asked' = FALSE /\ loopOver' = TRUE /\ Goto(t, "left")
  /\ UNCHANGED << lifeVars, open >> /\ NoRequest

\* The finally clause of KernelGUI.serve_forever().
EndServing(t) ==
  /\ pc[t] = "left"
  /\ serving' = FALSE /\ serveThread' = None /\ Goto(t, After(t))
  /\ UNCHANGED << thread, stopped, stopLock, joins, cutShort, srvVars >> /\ NoRequest

\* KeyboardInterrupt where neither KernelGUI nor socketserver has its guard up: the
\* attributes are left half set or half cleared, or the event is never set.
CutShort(t) ==
  /\ t = CtrlC /\ cutShort' = TRUE
  /\ \/ /\ MayServe(t) /\ ~Refused  \* the thread noted, and _serving not yet set
        /\ serveThread' = t /\ Goto(t, After(t)) /\ UNCHANGED << serving, loopOver >>
     \/ /\ pc[t] \in {"announced", "left"}  \* before the try, or in its finally
        /\ Goto(t, After(t)) /\ UNCHANGED << serveThread, serving, loopOver >>
     \/ /\ pc[t] = "left"  \* _serving cleared, and the thread still noted
        /\ serving' = FALSE /\ Goto(t, After(t)) /\ UNCHANGED << serveThread, loopOver >>
     \/ /\ pc[t] = "announced"  \* in the try, before that of socketserver
        /\ loopOver' \in {loopOver, FALSE} /\ Goto(t, "left")
        /\ UNCHANGED << serveThread, serving >>
  /\ UNCHANGED << thread, stopped, stopLock, joins, asked, open >> /\ NoRequest

-----------------------------------------------------------------------------
(* stop()                                                                  *)

Stop(t) ==
  /\ t \in Caller /\ pc[t] = "idle" /\ Goto(t, "want")
  /\ UNCHANGED << lifeVars, srvVars >> /\ NoRequest

\* Fault: the server's shutdown() is called whether or not it is serving.
MustAsk_Always == TRUE

MustAsk == serving

\* The thread that stop() joins, or None.
JoinedBy(t) ==
  IF serveThread \notin {None, t} THEN serveThread
  ELSE IF thread \notin {None, t} THEN thread ELSE None

\* It has the stop lock until it returns, the lifecycle lock to read.
BeginStop(t) ==
  /\ pc[t] = "want" /\ stopLock = None
  /\ stopLock' = t /\ stopped' = TRUE
  /\ joins' = [joins EXCEPT ![t] = JoinedBy(t)]
  /\ Goto(t, IF MustAsk THEN "asking" ELSE "joining")
  /\ UNCHANGED << thread, serveThread, serving, cutShort, srvVars >> /\ NoRequest

\* server.shutdown() sets the flag and waits for the event.
AskShutdown(t) ==
  /\ pc[t] = "asking"
  /\ asked' = TRUE /\ Goto(t, "awaiting")
  /\ UNCHANGED << lifeVars, loopOver, open >> /\ NoRequest

AwaitShutdown(t) ==
  /\ pc[t] = "awaiting" /\ loopOver
  /\ Goto(t, "joining")
  /\ UNCHANGED << lifeVars, srvVars >> /\ NoRequest

Join(t) ==
  /\ pc[t] = "joining" /\ (joins[t] # None => pc[joins[t]] = "ended")
  /\ joins' = [joins EXCEPT ![t] = None] /\ Goto(t, "closing")
  /\ UNCHANGED << thread, serveThread, serving, stopped, stopLock, cutShort, srvVars >>
  /\ NoRequest

\* server_close(), and the return.
EndStop(t) ==
  /\ pc[t] = "closing"
  /\ open' = FALSE /\ thread' = None /\ stopLock' = None
  /\ Goto(t, "ended")
  /\ UNCHANGED << serveThread, serving, stopped, joins, cutShort, asked, loopOver >>
  /\ NoRequest

-----------------------------------------------------------------------------
(* Requests                                                                *)

NoThread == UNCHANGED << lifeVars, srvVars, pc >>
Forget(r) == /\ todo' = [todo EXCEPT ![r] = 0] /\ ran' = [ran EXCEPT ![r] = << >>]
             /\ UNCHANGED << op, view >>
Answer(r) == rpc' = [rpc EXCEPT ![r] = "answered"]

\* What is raised is answered, by 500 or 409, or ends the handler without a word.
AnswerOrDrop(r) == \E how \in {"answered", "dropped"} : rpc' = [rpc EXCEPT ![r] = how]

\* Fault: a full deque keeps what came first.
Recent_Oldest(s) == SubSeq(s, 1, IF Len(s) > History THEN History ELSE Len(s))

\* deque(maxlen=History)
Recent(s) ==
  IF Len(s) > History THEN SubSeq(s, Len(s) - History + 1, Len(s)) ELSE s

\* 400, 403, 404, 413 or 415: refused by _guard(), _body() or the checks of
\* run() and send(), before the lock is asked for.
Refuse(r) ==
  /\ rpc[r] = "handling" /\ op[r] = "bad" /\ Answer(r) /\ Forget(r)
  /\ NoThread /\ UNCHANGED << lock, tickVars >>

\* Fault: what only reads does not take the lock.
MayEnter_Reads(r) == lock = None \/ op[r] = "read"

MayEnter(r) == lock = None

Enter(r) ==
  /\ rpc[r] = "handling" /\ op[r] # "bad" /\ MayEnter(r)
  /\ lock' = r /\ rpc' = [rpc EXCEPT ![r] = "in"]
  /\ NoThread /\ UNCHANGED << reqVars, tickVars >>

\* send(): the bus takes the message or raises KeyError, answered by 400.
Post(r) ==
  /\ rpc[r] = "in" /\ op[r] = "send"
  /\ lock' = None /\ Answer(r)
  /\ NoThread /\ UNCHANGED << reqVars, tickVars >>

\* state() reads the kernel first and the reports last.
ReadKernel(r) ==
  /\ rpc[r] = "in" /\ op[r] = "read"
  /\ view' = [view EXCEPT ![r].tick = tick]
  /\ rpc' = [rpc EXCEPT ![r] = "half"]
  /\ NoThread /\ UNCHANGED << lock, op, todo, ran, tickVars >>

ReadReports(r) ==
  /\ rpc[r] = "half"
  /\ view' = [view EXCEPT ![r].reports = reports]
  /\ lock' = None /\ Answer(r)
  /\ NoThread /\ UNCHANGED << op, todo, ran, tickVars >>

\* Fault: the lock is kept when what has it raises.
Release_Keeps == lock

Release == None

\* state() or snapshot() raises.  do_GET() answers three errors of snapshot(), and
\* nothing else.
ReadRaises(r) ==
  /\ rpc[r] \in {"in", "half"} /\ op[r] = "read"
  /\ view' = [view EXCEPT ![r] = NoView]
  /\ lock' = Release /\ AnswerOrDrop(r)
  /\ NoThread /\ UNCHANGED << op, todo, ran, tickVars >>

\* Fault: one tick more than asked for.
More_OffByOne(r) == op[r] # "read" /\ todo[r] >= 0

More(r) == todo[r] > 0

\* kernel.step(), called by step() or by the kernel's run().
BeginTick(r) ==
  /\ rpc[r] = "in" /\ More(r) /\ tick < MaxTicks
  /\ inTick' = TRUE /\ tick' = tick + 1
  /\ todo' = [todo EXCEPT ![r] = @ - 1]
  /\ rpc' = [rpc EXCEPT ![r] = "tick"]
  /\ NoThread /\ UNCHANGED << lock, op, ran, view, reports, unreported >>

EndTick(r) ==
  /\ rpc[r] = "tick"
  /\ inTick' = FALSE /\ ran' = [ran EXCEPT ![r] = Append(@, tick)]
  /\ rpc' = [rpc EXCEPT ![r] = "in"]
  /\ NoThread /\ UNCHANGED << lock, op, todo, view, tick, reports, unreported >>

\* The tick raises, and the reports of the run are lost.  do_POST() answers an
\* Exception, and not the SystemExit or KeyboardInterrupt of a step.
TickRaises(r) ==
  /\ rpc[r] = "tick"
  /\ inTick' = FALSE
  /\ unreported' = unreported \cup {tick} \cup {ran[r][i] : i \in 1..Len(ran[r])}
  /\ lock' = Release /\ AnswerOrDrop(r) /\ Forget(r)
  /\ NoThread /\ UNCHANGED << tick, reports >>

\* A step ran its tick; a run ran as many as it was asked for, or found its
\* kernel finished or quiescent before.
Record(r) ==
  /\ rpc[r] = "in" /\ op[r] \in {"step", "run"}
  /\ op[r] = "step" => todo[r] = 0 \/ tick = MaxTicks
  /\ reports' = Recent(reports \o ran[r])
  /\ lock' = None /\ Answer(r) /\ Forget(r)
  /\ NoThread /\ UNCHANGED << tick, inTick, unreported >>

-----------------------------------------------------------------------------
Life(t) ==
  \/ pc[t] = "starting" /\ Serve(t)
  \/ Listen(t) \/ (\E r \in Request : Accept(t, r)) \/ EndServing(t)
  \/ pc[t] = "loop" /\ asked /\ LoopEnds(t)
  \/ BeginStop(t) \/ AskShutdown(t) \/ AwaitShutdown(t) \/ Join(t) \/ EndStop(t)

Handle(r) ==
  \/ Refuse(r) \/ Enter(r) \/ Post(r) \/ ReadKernel(r) \/ ReadReports(r) \/ ReadRaises(r)
  \/ BeginTick(r) \/ EndTick(r) \/ TickRaises(r) \/ Record(r)

Next ==
  \/ \E t \in Thread :
       Start(t) \/ Serve(t) \/ Poll(t) \/ LoopEnds(t) \/ CutShort(t) \/ Stop(t) \/ Life(t)
  \/ \E r \in Request : Handle(r)

Spec == Init /\ [][Next]_vars

\* Nobody has to start or stop, and no client to send; what a thread has begun
\* goes on.
FairSpec ==
  /\ Spec
  /\ \A t \in Thread : WF_vars(Life(t))
  /\ \A r \in Request : WF_vars(Handle(r))

-----------------------------------------------------------------------------
\* No two threads serve, whoever called start() and serve_forever() when.
OneServer == Cardinality({t \in Thread : pc[t] \in Serving}) <= 1

\* Once the port is released nobody serves, nor comes to: not the thread that
\* start() left behind, nor one that had only announced itself.
ClosedNotServing == ~open => \A t \in Thread : pc[t] \notin Serving

\* stop() returns (its docstring: "Stop serving and release the port"), unless
\* Ctrl-C caught the last thread that was to serve outside the loop, so that the
\* event which stop() waits for is never set.
StopEnds ==
  \/ <>[](cutShort /\ ~loopOver)
  \/ \A t \in Owner \cup Caller :
       pc[t] \in {"want", "asking", "awaiting", "joining", "closing"}
         ~> pc[t] = "ended"

\* s has, in order, the latest of the ticks up to n, but for those lost.
AreLatest(s, n, lost) ==
  /\ Len(s) <= History
  /\ \A i \in DOMAIN s : s[i] \in (1..n) \ lost
  /\ \A i, j \in DOMAIN s : i < j => s[i] < s[j]
  /\ \A k \in (1..n) \ lost :
       (\E i \in DOMAIN s : s[i] = k) \/ (Len(s) = History /\ k < s[1])

\* With the lock free, the dashboard's reports are those of the latest ticks,
\* in order, but for the ticks of requests that raised.
ReportsTell == lock = None => AreLatest(reports, tick, unreported)

\* "state is only ever read at a tick boundary": the reports of an answer are
\* those of the ticks before the one it gives, whatever ran meanwhile.
AnswerConsistent ==
  \A r \in Request : op[r] = "read" /\ rpc[r] = "answered" =>
    AreLatest(view[r].reports, view[r].tick, unreported)

\* Every request that was accepted is over some time, whatever those before it ran
\* or raised while they had the lock, and whether the GUI is stopped meanwhile or
\* not.  It is answered but for what do_GET() and do_POST() do not catch.
RequestsEnd ==
  \A r \in Request : rpc[r] = "handling" ~> rpc[r] \in {"answered", "dropped"}
=============================================================================
