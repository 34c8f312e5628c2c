--------------------------- MODULE GuiServer_proofs ---------------------------
(***************************************************************************)
(* What holds of the GUI's server for any threads and requests: the types, *)
(* that one thread serves at a time and none once the port is released,    *)
(* and that reports and answers are true of a tick boundary.               *)
(***************************************************************************)
EXTENDS GuiServer, FiniteSetTheorems, SequenceTheorems, TLAPS

\* A request that is in a tick has begun one.
TickBegun == \A r \in Request : rpc[r] = "tick" => tick # 0

TypeInv == TypeOK /\ TickBegun

LEMMA TypeInit == Init => TypeInv
<1> SUFFICES ASSUME Init PROVE TypeInv
  OBVIOUS
<1>1. << >> \in Seq(1..MaxTicks) /\ 0 \in 0..MaxTicks /\ Gui \in Thread
  BY GuiAssumption DEF Thread
<1>2. view \in [Request -> [tick : 0..MaxTicks, reports : Seq(1..MaxTicks)]]
  BY <1>1 DEF Init, NoView
<1>3. /\ rpc \in [Request -> {"none", "handling", "in", "half", "tick", "answered", "dropped"}]
      /\ op \in [Request -> {"none"} \cup Kinds]
      /\ todo \in [Request -> Nat] /\ ran \in [Request -> Seq(1..MaxTicks)]
      /\ joins \in [Thread -> Thread \cup {None}] /\ pc \in [Thread -> Place]
  BY <1>1 DEF Init, Place, Serving
<1> QED
  BY <1>1, <1>2, <1>3 DEF Init, TypeInv, TypeOK, TickBegun

\* The threads change where they are and the attributes of the server.
LEMMA LifeTypes ==
  ASSUME TypeInv, NEW t \in Thread,
         Start(t) \/ Serve(t) \/ Poll(t) \/ LoopEnds(t) \/ CutShort(t) \/ Stop(t) \/ Listen(t)
           \/ EndServing(t) \/ BeginStop(t) \/ AskShutdown(t) \/ AwaitShutdown(t)
           \/ Join(t) \/ EndStop(t)
  PROVE  TypeInv'
<1> USE DEF TypeInv, TypeOK, TickBegun, NoRequest, reqVars, tickVars, lifeVars, srvVars,
            Goto, Place, Serving
<1>1. Gui \in Thread
  BY DEF Thread
<1>2. CASE Start(t)
  BY <1>1, <1>2 DEF Start
<1>3. CASE Serve(t)
  BY <1>3, ZenonT(60) DEF Serve, After
<1>4. CASE Poll(t)
  BY <1>4 DEF Poll
<1>5. CASE LoopEnds(t)
  BY <1>5 DEF LoopEnds
<1>6. CASE Stop(t)
  BY <1>6 DEF Stop
<1>7. CASE Listen(t)
  BY <1>7 DEF Listen
<1>8. CASE EndServing(t)
  BY <1>8 DEF EndServing, After
<1>9. CASE BeginStop(t)
  <2>1. JoinedBy(t) \in Thread \cup {None}
    BY <1>1 DEF JoinedBy
  <2> QED
    BY <1>9, <2>1 DEF BeginStop
<1>10. CASE AskShutdown(t)
  BY <1>10 DEF AskShutdown
<1>11. CASE AwaitShutdown(t)
  BY <1>11 DEF AwaitShutdown
<1>12. CASE Join(t)
  BY <1>12 DEF Join
<1>13. CASE EndStop(t)
  BY <1>13 DEF EndStop
<1>14. CASE CutShort(t)
  <2>1. /\ pc' \in [Thread -> Place] /\ serveThread' \in Thread \cup {None}
        /\ serving' \in BOOLEAN /\ loopOver' \in BOOLEAN /\ cutShort' = TRUE
    BY <1>14 DEF CutShort, After
  <2> QED
    BY <1>14, <2>1 DEF CutShort
<1> QED
  BY <1>2, <1>3, <1>4, <1>5, <1>6, <1>7, <1>8, <1>9, <1>10, <1>11, <1>12, <1>13, <1>14

LEMMA AcceptTypes ==
  ASSUME TypeInv, NEW t \in Thread, NEW r \in Request, Accept(t, r)
  PROVE  TypeInv'
<1>1. PICK kind \in Kinds, n \in RunTicks :
        /\ op' = [op EXCEPT ![r] = kind]
        /\ todo' = [todo EXCEPT ![r] = IF kind = "run" THEN n
                                       ELSE IF kind = "step" THEN 1 ELSE 0]
  BY DEF Accept
<1>2. /\ op' \in [Request -> {"none"} \cup Kinds]
      /\ todo' \in [Request -> Nat]
  BY <1>1, GuiAssumption DEF TypeInv, TypeOK
<1> QED
  BY <1>2 DEF Accept, Goto, TypeInv, TypeOK, TickBegun, lifeVars, srvVars, tickVars, Place,
              Serving

\* The deque keeps a piece of what it is given.
LEMMA RecentType ==
  ASSUME NEW S, NEW s \in Seq(S), History \in Nat \ {0}
  PROVE  Recent(s) \in Seq(S) /\ Len(Recent(s)) <= History
<1>1. CASE Len(s) > History
  <2>1. Len(s) - History + 1 \in 1..Len(s)
    BY <1>1
  <2> QED
    BY <1>1, <2>1, SubSeqProperties DEF Recent
<1>2. CASE ~(Len(s) > History)
  BY <1>2 DEF Recent
<1> QED
  BY <1>1, <1>2

\* The handlers carry out their requests.
LEMMA RequestTypes ==
  ASSUME TypeInv, NEW r \in Request, Handle(r)
  PROVE  TypeInv'
<1> USE DEF TypeInv, TypeOK, TickBegun, NoThread, reqVars, tickVars, lifeVars, srvVars,
            Answer, Forget
<1>1. << >> \in Seq(1..MaxTicks) /\ MaxTicks \in Nat /\ History \in Nat \ {0}
  BY GuiAssumption
<1>2. CASE Refuse(r)
  BY <1>1, <1>2, SMTT(30) DEF Refuse
<1>3. CASE Enter(r)
  BY <1>3 DEF Enter, MayEnter
<1>4. CASE Post(r)
  BY <1>4 DEF Post
<1>5. CASE ReadKernel(r)
  BY <1>5, ZenonT(60) DEF ReadKernel
<1>6. CASE ReadReports(r)
  BY <1>6 DEF ReadReports
<1>7. CASE BeginTick(r)
  <2>1. tick + 1 \in 1..MaxTicks /\ todo[r] - 1 \in Nat
    BY <1>1, <1>7 DEF BeginTick, More
  <2>2. todo' \in [Request -> Nat] /\ tick' \in 0..MaxTicks /\ tick' # 0
    BY <2>1, <1>7 DEF BeginTick
  <2> QED
    BY <1>7, <2>2 DEF BeginTick
<1>8. CASE EndTick(r)
  <2>1. tick \in 1..MaxTicks
    BY <1>1, <1>8 DEF EndTick
  <2>2. Append(ran[r], tick) \in Seq(1..MaxTicks)
    BY <2>1
  <2>3. ran' \in [Request -> Seq(1..MaxTicks)]
    BY <2>2, <1>8 DEF EndTick
  <2> QED
    BY <1>8, <2>3 DEF EndTick
<1>9. CASE TickRaises(r)
  <2>1. tick \in 1..MaxTicks
    BY <1>1, <1>9 DEF TickRaises
  <2>2. \A i \in 1..Len(ran[r]) : ran[r][i] \in 1..MaxTicks
    <3>1. ran[r] \in Seq(1..MaxTicks)
      OBVIOUS
    <3> QED
      BY <3>1, ElementOfSeq
  <2>3. unreported' \subseteq 1..MaxTicks
    BY <2>1, <2>2, <1>9 DEF TickRaises
  <2> QED
    BY <1>1, <1>9, <2>3 DEF TickRaises, Release, AnswerOrDrop
<1>10. CASE Record(r)
  <2>1. reports \o ran[r] \in Seq(1..MaxTicks)
    OBVIOUS
  <2>2. reports' \in Seq(1..MaxTicks)
    BY <1>1, <2>1, RecentType, <1>10 DEF Record
  <2> QED
    BY <1>1, <1>10, <2>2 DEF Record
<1>11. CASE ReadRaises(r)
  <2>1. NoView \in [tick : 0..MaxTicks, reports : Seq(1..MaxTicks)]
    BY <1>1 DEF NoView
  <2>2. view' \in [Request -> [tick : 0..MaxTicks, reports : Seq(1..MaxTicks)]]
    BY <1>11, <2>1 DEF ReadRaises
  <2> QED
    BY <1>11, <2>2 DEF ReadRaises, Release, AnswerOrDrop
<1> QED
  BY <1>2, <1>3, <1>4, <1>5, <1>6, <1>7, <1>8, <1>9, <1>10, <1>11 DEF Handle

\* The types, with what TickBegun adds so that they are kept.
THEOREM TypeInvariant == Spec => []TypeInv
<1>1. TypeInv /\ [Next]_vars => TypeInv'
  <2>1. TypeInv /\ UNCHANGED vars => TypeInv'
    BY DEF vars, lifeVars, srvVars, reqVars, tickVars, TypeInv, TypeOK, TickBegun
  <2>2. ASSUME TypeInv, NEW t \in Thread, NEW r \in Request, Accept(t, r) PROVE TypeInv'
    BY <2>2, AcceptTypes
  <2> QED
    BY <2>1, <2>2, LifeTypes, RequestTypes DEF Next, Life
<1> QED
  BY <1>1, TypeInit, PTL DEF Spec

\* Every variable of the GUI's server keeps its type.
THEOREM TypeCorrect == Spec => []TypeOK
<1>1. TypeInv => TypeOK
  BY DEF TypeInv
<1> QED
  BY <1>1, TypeInvariant, PTL

-----------------------------------------------------------------------------
(* One thread serves                                                       *)

\* The thread that serves is the one that the GUI has noted; a thread is noted that
\* does not serve, or _serving set without one, only where Ctrl-C left it so.
NotedServes ==
  /\ \A t \in Thread : pc[t] \in Serving => serveThread = t /\ serving
  /\ ~cutShort /\ serveThread # None => pc[serveThread] \in Serving
  /\ ~cutShort /\ serving => serveThread # None

NobodyServes == \A t \in Thread : pc[t] \notin Serving

\* The thread that start() starts is not there before.
NotStarted == thread = None /\ ~stopped => pc[Gui] = "ended"

Stopping == {"asking", "awaiting", "joining", "closing"}

\* From its first step on, a stop() has the stop lock and the GUI is stopped;
\* it is to join whoever still serves, and nobody serves when it is to close.
StopTaken ==
  \A t \in Thread : pc[t] \in Stopping =>
    /\ stopLock = t /\ stopped
    /\ pc[t] \in {"asking", "awaiting", "joining"} =>
         \A u \in Thread : pc[u] \in Serving => joins[t] = u
    /\ pc[t] = "closing" => NobodyServes

\* A closed port was closed by a stop(), when nobody served.
ClosedStopped == ~open => stopped /\ NobodyServes

LifeInv == TypeOK /\ NotedServes /\ NotStarted /\ StopTaken /\ ClosedStopped

LEMMA LifeInit == Init => LifeInv
<1>1. Init => TypeOK
  BY TypeInit DEF TypeInv
<1>2. Gui \in Thread /\ None \notin Thread
  BY GuiAssumption DEF Thread
<1> QED
  BY <1>1, <1>2 DEF Init, LifeInv, NotedServes, NotStarted, StopTaken, ClosedStopped,
                    NobodyServes, Serving, Stopping

\* A step that only moves a thread about, and not into or out of serving or
\* into closing, and leaves the attributes as they are.
LEMMA LifeMoves ==
  ASSUME LifeInv, TypeOK', NEW t \in Thread, NEW place \in Place, Goto(t, place),
         UNCHANGED << thread, serveThread, serving, stopped, stopLock, joins, cutShort, open >>,
         place \in Serving <=> pc[t] \in Serving,
         place \in Stopping => pc[t] \in Stopping /\ place # "closing"
                               /\ (pc[t] # "closing"),
         t = Gui => pc[t] # "ended"
  PROVE  LifeInv'
<1>1. \A u \in Thread : pc'[u] = IF u = t THEN place ELSE pc[u]
  BY DEF Goto, LifeInv, TypeOK
<1>2. NotedServes'
  BY <1>1 DEF LifeInv, NotedServes, TypeOK
<1>3. NotStarted'
  <2>1. Gui \in Thread
    BY DEF Thread
  <2> QED
    BY <1>1, <2>1 DEF LifeInv, NotStarted
<1>4. StopTaken'
  BY <1>1 DEF LifeInv, StopTaken, Stopping, NobodyServes
<1>5. ClosedStopped'
  BY <1>1 DEF LifeInv, ClosedStopped, NobodyServes
<1> QED
  BY <1>2, <1>3, <1>4, <1>5 DEF LifeInv

LEMMA LifeStep ==
  ASSUME LifeInv, TypeOK', NEW t \in Thread,
         Start(t) \/ Serve(t) \/ Poll(t) \/ LoopEnds(t) \/ CutShort(t) \/ Stop(t) \/ Listen(t)
           \/ EndServing(t) \/ BeginStop(t) \/ AskShutdown(t) \/ AwaitShutdown(t)
           \/ Join(t) \/ EndStop(t) \/ \E r \in Request : Accept(t, r)
  PROVE  LifeInv'
<1> USE DEF LifeInv
<1>1. Gui \in Thread /\ None \notin Thread /\ Gui \notin Owner \cup Server \cup Caller
  BY GuiAssumption DEF Thread
<1>2. CASE Start(t)
  <2>1. NotedServes'
    BY <1>1, <1>2 DEF Start, Goto, TypeOK, NotedServes, NotStarted, StopTaken, Serving, Stopping
  <2>2. NotStarted'
    BY <1>1, <1>2 DEF Start, Goto, TypeOK, NotStarted, StopTaken, Stopping
  <2>3. StopTaken'
    BY <1>1, <1>2 DEF Start, Goto, TypeOK, NotedServes, StopTaken, ClosedStopped, NobodyServes, Serving, Stopping
  <2>4. ClosedStopped'
    BY <1>1, <1>2 DEF Start, Goto, TypeOK, StopTaken, ClosedStopped, NobodyServes, Serving, Stopping, srvVars
  <2> QED
    BY <2>1, <2>2, <2>3, <2>4
<1>3. CASE Serve(t)
  <2>1. pc[t] \in {"starting", "idle"} /\ pc[t] \notin Serving /\ pc[t] \notin Stopping
    BY <1>3 DEF Serve, MayServe, Serving, Stopping
  <2>2. CASE Refused
    <3>1. After(t) \in {"want", "ended"}
      BY DEF After
    <3>2. Goto(t, After(t)) /\ UNCHANGED << lifeVars, srvVars >>
      BY <1>3, <2>2 DEF Serve, lifeVars, srvVars
    <3>3. LifeInv' \/ pc[t] = "ended"
      BY <2>1, <3>1, <3>2, LifeMoves DEF lifeVars, srvVars, Place, Serving, Stopping
    <3> QED
      BY <2>1, <3>3
  <2>3. CASE ~Refused
    <3>1. /\ serveThread' = t /\ serving' = TRUE /\ Goto(t, "announced")
          /\ ~serving /\ ~stopped /\ NobodyServes
          /\ UNCHANGED << thread, stopped, stopLock, joins, open >>
      BY <1>3, <2>3 DEF Serve, Refused, NotedServes, NobodyServes, srvVars, TypeOK
    <3>2. \A u \in Thread : pc'[u] = IF u = t THEN "announced" ELSE pc[u]
      BY <3>1 DEF Goto, TypeOK
    <3>3. NotedServes'
      BY <1>1, <3>1, <3>2 DEF NotedServes, NobodyServes, Serving
    <3>4. NotStarted'
      BY <1>1, <2>1, <3>1, <3>2, <1>3 DEF NotStarted, Serve, MayServe
    <3>5. StopTaken'
      BY <3>1, <3>2 DEF StopTaken, Stopping
    <3>6. ClosedStopped'
      BY <3>1 DEF ClosedStopped
    <3> QED
      BY <3>3, <3>4, <3>5, <3>6
  <2> QED
    BY <2>2, <2>3
<1>4. CASE EndServing(t)
  <2>1. NotedServes'
    BY <1>1, <1>4 DEF EndServing, After, Goto, TypeOK, NotedServes, NotStarted, StopTaken, Serving, Stopping
  <2>2. NotStarted'
    BY <1>1, <1>4 DEF EndServing, After, Goto, TypeOK, NotStarted, StopTaken, Stopping
  <2>3. StopTaken'
    BY <1>1, <1>4 DEF EndServing, After, Goto, TypeOK, NotedServes, StopTaken, ClosedStopped, NobodyServes, Serving, Stopping
  <2>4. ClosedStopped'
    BY <1>1, <1>4 DEF EndServing, After, Goto, TypeOK, StopTaken, ClosedStopped, NobodyServes, Serving, Stopping, srvVars
  <2> QED
    BY <2>1, <2>2, <2>3, <2>4
<1>5. CASE BeginStop(t)
  <2>1. NotedServes'
    BY <1>1, <1>5 DEF BeginStop, JoinedBy, MustAsk, Goto, TypeOK, NotedServes, NotStarted, StopTaken, Serving, Stopping
  <2>2. NotStarted'
    BY <1>1, <1>5 DEF BeginStop, JoinedBy, MustAsk, Goto, TypeOK, NotStarted, StopTaken, Stopping
  <2>3. StopTaken'
    BY <1>1, <1>5, ZenonT(60) DEF BeginStop, JoinedBy, MustAsk, Goto, TypeOK, NotedServes, StopTaken, ClosedStopped, NobodyServes, Serving, Stopping
  <2>4. ClosedStopped'
    BY <1>1, <1>5 DEF BeginStop, JoinedBy, MustAsk, Goto, TypeOK, StopTaken, ClosedStopped, NobodyServes, Serving, Stopping, srvVars
  <2> QED
    BY <2>1, <2>2, <2>3, <2>4
<1>6. CASE Join(t)
  <2>1. NotedServes'
    BY <1>1, <1>6 DEF Join, Goto, TypeOK, NotedServes, NotStarted, StopTaken, Serving, Stopping
  <2>2. NotStarted'
    BY <1>1, <1>6 DEF Join, Goto, TypeOK, NotStarted, StopTaken, Stopping
  <2>3. StopTaken'
    BY <1>1, <1>6, ZenonT(60) DEF Join, Goto, TypeOK, NotedServes, StopTaken, ClosedStopped, NobodyServes, Serving, Stopping
  <2>4. ClosedStopped'
    BY <1>1, <1>6 DEF Join, Goto, TypeOK, StopTaken, ClosedStopped, NobodyServes, Serving, Stopping, srvVars
  <2> QED
    BY <2>1, <2>2, <2>3, <2>4
<1>7. CASE EndStop(t)
  <2>1. NotedServes'
    BY <1>1, <1>7 DEF EndStop, Goto, TypeOK, NotedServes, NotStarted, StopTaken, Serving, Stopping
  <2>2. NotStarted'
    BY <1>1, <1>7 DEF EndStop, Goto, TypeOK, NotStarted, StopTaken, Stopping
  <2>3. StopTaken'
    BY <1>1, <1>7 DEF EndStop, Goto, TypeOK, NotedServes, StopTaken, ClosedStopped, NobodyServes, Serving, Stopping
  <2>4. ClosedStopped'
    BY <1>1, <1>7 DEF EndStop, Goto, TypeOK, StopTaken, ClosedStopped, NobodyServes, Serving, Stopping, srvVars
  <2> QED
    BY <2>1, <2>2, <2>3, <2>4
<1>8. CASE Stop(t)
  BY <1>1, <1>8, LifeMoves DEF Stop, lifeVars, srvVars, Place, Serving, Stopping
<1>9. CASE Listen(t) \/ Poll(t) \/ LoopEnds(t) \/ \E r \in Request : Accept(t, r)
  BY <1>9, LifeMoves DEF Listen, Poll, LoopEnds, Accept, lifeVars, srvVars, Place, Serving,
                         Stopping
<1>10. CASE AskShutdown(t) \/ AwaitShutdown(t)
  BY <1>10, LifeMoves DEF AskShutdown, AwaitShutdown, lifeVars, srvVars, Place, Serving,
                          Stopping
\* A thread that Ctrl-C cuts short serves no more, whatever it leaves set.
<1>11. CASE CutShort(t)
  <2>1. CASE pc'[t] = "left"
    <3>1. /\ pc[t] = "announced" /\ Goto(t, "left") /\ cutShort'
          /\ UNCHANGED << thread, serveThread, serving, stopped, stopLock, joins, open >>
      <4>1. ~Goto(t, After(t))
        BY <2>1 DEF After, Goto, TypeOK
      <4>. QED  BY <1>11, <4>1 DEF CutShort
    <3>2. \A u \in Thread : pc'[u] = IF u = t THEN "left" ELSE pc[u]
      BY <3>1 DEF Goto, TypeOK
    <3>3. \A u \in Thread : pc'[u] \in Serving <=> pc[u] \in Serving
      BY <3>1, <3>2 DEF Serving
    <3> QED
      BY <1>1, <3>1, <3>2, <3>3
      DEF NotedServes, NotStarted, StopTaken, ClosedStopped, NobodyServes, Stopping
  <2>2. CASE pc'[t] # "left"
    <3>1. /\ pc[t] \in {"idle", "announced", "left"} \/ pc[t] = "starting"
          /\ Goto(t, After(t)) /\ After(t) \in {"want", "ended"}
          /\ serving' = serving \/ pc[t] = "left"
          /\ serveThread' = serveThread \/ (~Refused /\ pc[t] \in {"idle", "starting"})
          /\ cutShort' /\ UNCHANGED << thread, stopped, stopLock, joins, open >>
      BY <1>11, <2>2 DEF CutShort, MayServe, After, Goto, TypeOK
    <3>2. \A u \in Thread : pc'[u] = IF u = t THEN After(t) ELSE pc[u]
      BY <3>1 DEF Goto, TypeOK
    <3>3. \A u \in Thread : pc'[u] \in Serving => pc[u] \in Serving /\ u # t
      BY <3>1, <3>2 DEF Serving
    <3>4. NotedServes'
      BY <3>1, <3>3 DEF NotedServes, Refused, Serving
    <3>5. NotStarted'
      BY <1>1, <1>11, <3>1, <3>2 DEF NotStarted, CutShort
    <3> QED
      BY <3>1, <3>2, <3>3, <3>4, <3>5 DEF StopTaken, ClosedStopped, NobodyServes, Stopping
  <2> QED
    BY <2>1, <2>2
<1> QED
  BY <1>2, <1>3, <1>4, <1>5, <1>6, <1>7, <1>8, <1>9, <1>10, <1>11

LEMMA LifeUntouched ==
  ASSUME LifeInv, TypeOK', UNCHANGED << lifeVars, srvVars, pc >>
  PROVE  LifeInv'
BY DEF LifeInv, NotedServes, NotStarted, StopTaken, ClosedStopped, NobodyServes, lifeVars, srvVars

\* The attributes and locks of the GUI tell where its threads are, for any
\* threads, but for what Ctrl-C left set or unset behind a thread that it caught
\* between two of them: what the two theorems below follow from.
THEOREM LifeInvariant == Spec => []LifeInv
<1>1. LifeInv /\ TypeOK' /\ [Next]_vars => LifeInv'
  <2>1. ASSUME NEW r \in Request, Handle(r) PROVE UNCHANGED << lifeVars, srvVars, pc >>
    BY <2>1 DEF Handle, Refuse, Enter, Post, ReadKernel, ReadReports, ReadRaises, BeginTick,
                EndTick, TickRaises, Record, NoThread
  <2> QED
    BY <2>1, LifeStep, LifeUntouched DEF Next, Life, vars
<1> QED
  BY <1>1, LifeInit, TypeCorrect, PTL DEF Spec

\* No two threads ever serve, whoever calls start(), serve_forever() and stop()
\* from wherever.
THEOREM ServesAlone == Spec => []OneServer
<1>1. LifeInv => OneServer
  <2> SUFFICES ASSUME LifeInv PROVE OneServer
    OBVIOUS
  <2> DEFINE S == {t \in Thread : pc[t] \in Serving}
  <2>1. S \subseteq {serveThread}
    BY DEF LifeInv, NotedServes
  <2>2. IsFiniteSet({serveThread}) /\ Cardinality({serveThread}) = 1
    BY FS_Singleton
  <2>3. Cardinality(S) <= Cardinality({serveThread})
    BY <2>1, <2>2, FS_Subset
  <2> QED
    BY <2>2, <2>3 DEF OneServer
<1> QED
  BY <1>1, LifeInvariant, PTL

\* Once the port is released nobody serves or comes to serve.
THEOREM ClosedForGood == Spec => []ClosedNotServing
<1>1. None \notin Thread
  BY GuiAssumption
<1>2. LifeInv => ClosedNotServing
  BY <1>1 DEF LifeInv, ClosedStopped, NobodyServes, ClosedNotServing
<1> QED
  BY <1>2, LifeInvariant, PTL

-----------------------------------------------------------------------------
(* The reports                                                             *)

\* The ticks before those of the request that has the lock.
Base ==
  IF lock = None THEN tick
  ELSE tick - Len(ran[lock]) - (IF rpc[lock] = "tick" THEN 1 ELSE 0)

\* One request at a time has the lock, and only a step or run has ticks.
LockInv ==
  /\ \A r \in Request : rpc[r] \in {"in", "half", "tick"} <=> lock = r
  /\ \A r \in Request : lock # r => ran[r] = << >>
  /\ \A r \in Request : op[r] \notin {"step", "run"} =>
       todo[r] = 0 /\ ran[r] = << >> /\ rpc[r] # "tick"
  /\ \A r \in Request : rpc[r] = "half" => op[r] = "read" /\ view[r].tick = tick

\* What it has run are the ticks since then, of which none is lost yet; what the
\* GUI shows and what was answered is of the ticks before.
ReportInv ==
  /\ Base \in Nat /\ unreported \subseteq 1..Base
  /\ lock # None => \A i \in DOMAIN ran[lock] : ran[lock][i] = Base + i
  /\ AreLatest(reports, Base, unreported)
  /\ \A r \in Request : op[r] = "read" /\ rpc[r] = "answered" =>
       view[r].tick <= Base /\ AreLatest(view[r].reports, view[r].tick, unreported)

TellInv == TypeInv /\ LockInv /\ ReportInv

\* The deque keeps the latest, when what is added to it came after the rest.
LEMMA RecentLatest ==
  ASSUME NEW s \in Seq(Nat), NEW t \in Seq(Nat), NEW n \in Nat, NEW lost,
         lost \subseteq 1..n, AreLatest(s, n, lost), \A i \in DOMAIN t : t[i] = n + i,
         History \in Nat \ {0}
  PROVE  AreLatest(Recent(s \o t), n + Len(t), lost)
<1>. DEFINE c == s \o t
            a == Len(s)
            b == Len(t)
<1>1. a \in Nat /\ b \in Nat /\ DOMAIN s = 1..a /\ DOMAIN t = 1..b /\ a <= History
  BY LenProperties DEF AreLatest
<1>2. c \in Seq(Nat) /\ Len(c) = a + b /\ DOMAIN c = 1..(a + b)
  BY <1>1
<1>3. /\ \A i \in 1..a : c[i] = s[i] /\ s[i] \in (1..n) \ lost
      /\ \A i \in (a + 1)..(a + b) : c[i] = n + (i - a)
  <2>1. \A i \in 1..(a + b) : c[i] = IF i <= a THEN s[i] ELSE t[i - a]
    BY <1>1
  <2>0. \A i \in DOMAIN s : s[i] \in (1..n) \ lost
    BY DEF AreLatest
  <2>. HIDE DEF c, a, b
  <2>2. ASSUME NEW i \in 1..a PROVE c[i] = s[i] /\ s[i] \in (1..n) \ lost
    <3>1. i \in DOMAIN s /\ i \in 1..(a + b) /\ i <= a
      BY <1>1
    <3>2. c[i] = s[i]
      BY <2>1, <3>1
    <3>. QED  BY <2>0, <3>1, <3>2
  <2>3. ASSUME NEW i \in (a + 1)..(a + b) PROVE c[i] = n + (i - a)
    <3>1. i - a \in DOMAIN t /\ c[i] = t[i - a]
      BY <1>1, <2>1
    <3>. QED  BY <3>1
  <2>. QED  BY <2>2, <2>3
<1>. HIDE DEF c, a, b
<1>4. \A i \in 1..(a + b) : c[i] \in (1..(n + b)) \ lost
  BY <1>1, <1>3
<1>5. ASSUME NEW i \in 1..(a + b), NEW j \in 1..(a + b), i < j PROVE c[i] < c[j]
  <2>1. CASE j <= a
    <3>0. \A x, y \in DOMAIN s : x < y => s[x] < s[y]
      BY DEF AreLatest
    <3>1. s[i] < s[j]
      <4>1. i \in DOMAIN s /\ j \in DOMAIN s
        BY <1>1, <1>5, <2>1
      <4>. QED  BY <1>5, <3>0, <4>1
    <3>. QED  BY <1>1, <1>3, <1>5, <2>1, <3>1
  <2>2. CASE i <= a /\ a < j
    BY <1>1, <1>3, <1>5, <2>2
  <2>3. CASE a < i
    BY <1>1, <1>3, <1>5, <2>3
  <2>. QED  BY <1>1, <1>5, <2>1, <2>2, <2>3
<1>6. ASSUME NEW k \in (1..(n + b)) \ lost
      PROVE  (\E i \in 1..(a + b) : c[i] = k) \/ (a = History /\ k < s[1] /\ c[1] = s[1])
  <2>1. CASE k > n
    <3>1. a + (k - n) \in (a + 1)..(a + b)
      BY <1>1, <1>6, <2>1
    <3>2. c[a + (k - n)] = n + ((a + (k - n)) - a)
      BY <1>3, <3>1
    <3>3. c[a + (k - n)] = k /\ a + (k - n) \in 1..(a + b)
      BY <1>1, <1>6, <3>1, <3>2
    <3>. QED  BY <3>3
  <2>2. CASE ~(k > n)
    <3>1. k \in (1..n) \ lost
      BY <1>1, <1>6, <2>2
    <3>2. (\E i \in 1..a : s[i] = k) \/ (a = History /\ k < s[1])
      BY <1>1, <3>1 DEF AreLatest, a
    <3>3. CASE \E i \in 1..a : s[i] = k
      <4>1. PICK i \in 1..a : s[i] = k
        BY <3>3
      <4>2. c[i] = k /\ i \in 1..(a + b)
        BY <1>1, <1>3, <4>1
      <4>. QED  BY <4>2
    <3>4. CASE a = History /\ k < s[1]
      <4>1. 1 \in 1..a
        BY <1>1, <3>4
      <4>. QED  BY <1>3, <3>4, <4>1
    <3>. QED  BY <3>2, <3>3, <3>4
  <2>. QED  BY <2>1, <2>2
<1>7. CASE a + b > History
  <2>. DEFINE l == a + b - History
              r == Recent(c)
  <2>1. l \in Nat /\ l + 1 \in 1..(a + b) /\ l + History = a + b
    BY <1>1, <1>7
  <2>2. r = SubSeq(c, l + 1, a + b)
    BY <1>1, <1>2, <1>7 DEF Recent
  <2>. HIDE DEF l, r
  <2>3. Len(r) = History /\ DOMAIN r = 1..History /\ \A i \in 1..History : r[i] = c[l + i]
    <3>1. \A i \in (l + 1)..(a + b) : c[i] \in Nat
      BY <1>1, <1>4, <2>1
    <3>2. /\ Len(r) = (a + b) - (l + 1) + 1
          /\ r \in Seq(Nat) /\ \A i \in 1..((a + b) - (l + 1) + 1) : r[i] = c[(l + 1) + i - 1]
      BY <1>1, <2>1, <2>2, <3>1, SubSeqProperties
    <3>3. (a + b) - (l + 1) + 1 = History /\ \A i \in 1..History : (l + 1) + i - 1 = l + i
      BY <1>1, <2>1
    <3>. QED  BY <3>2, <3>3, LenProperties
  <2>4. \A i \in 1..History : l + i \in 1..(a + b)
    BY <1>1, <2>1
  <2>5. \A i \in DOMAIN r : r[i] \in (1..(n + b)) \ lost
    BY <1>4, <2>3, <2>4
  <2>6. \A i, j \in DOMAIN r : i < j => r[i] < r[j]
    <3>. SUFFICES ASSUME NEW i \in 1..History, NEW j \in 1..History, i < j PROVE r[i] < r[j]
      BY <2>3
    <3>1. l + i \in 1..(a + b) /\ l + j \in 1..(a + b) /\ l + i < l + j
      BY <2>1, <2>4
    <3>2. c[l + i] < c[l + j]
      BY <1>5, <3>1
    <3>. QED  BY <2>3, <3>2
  <2>7. ASSUME NEW k \in (1..(n + b)) \ lost
        PROVE  (\E i \in DOMAIN r : r[i] = k) \/ k < r[1]
    <3>0. r[1] = c[l + 1]
      BY <2>3
    <3>1. CASE \E i \in 1..(a + b) : c[i] = k
      <4>1. PICK i \in 1..(a + b) : c[i] = k
        BY <3>1
      <4>2. CASE i <= l
        BY <1>5, <2>1, <3>0, <4>1, <4>2
      <4>3. CASE i > l
        <5>1. i - l \in 1..History /\ l + (i - l) = i
          BY <1>1, <2>1, <4>3
        <5>2. r[i - l] = c[l + (i - l)]
          BY <2>3, <5>1
        <5>. QED  BY <2>3, <4>1, <5>1, <5>2
      <4>. QED  BY <2>1, <4>2, <4>3
    <3>2. CASE a = History /\ k < s[1] /\ c[1] = s[1]
      <4>1. c[1] < c[l + 1]
        BY <1>1, <1>5, <1>7, <2>1, <3>2
      <4>2. c[1] \in Nat /\ c[l + 1] \in Nat
        BY <1>1, <1>4, <2>1
      <4>. QED  BY <2>7, <3>0, <3>2, <4>1, <4>2
    <3>. QED  BY <1>6, <3>1, <3>2
  <2>8. AreLatest(r, n + b, lost)
    BY <2>3, <2>5, <2>6, <2>7 DEF AreLatest
  <2>. QED  BY <2>8 DEF r, c, b
<1>8. CASE ~(a + b > History)
  <2>1. Recent(c) = c
    BY <1>2, <1>8 DEF Recent
  <2>2. a = History => b = 0
    BY <1>1, <1>8
  <2>3. ASSUME NEW k \in (1..(n + b)) \ lost
        PROVE  (\E i \in DOMAIN c : c[i] = k) \/ (Len(c) = History /\ k < c[1])
    <3>1. CASE \E i \in 1..(a + b) : c[i] = k
      BY <1>2, <3>1
    <3>2. CASE a = History /\ k < s[1] /\ c[1] = s[1]
      <4>1. Len(c) = History
        BY <1>1, <1>2, <2>2, <3>2
      <4>. QED  BY <3>2, <4>1
    <3>. QED  BY <1>6, <3>1, <3>2
  <2>4. AreLatest(c, n + b, lost)
    BY <1>1, <1>2, <1>4, <1>5, <1>8, <2>3 DEF AreLatest
  <2>. QED  BY <2>1, <2>4 DEF c, b
<1>. QED  BY <1>7, <1>8

\* What is lost later takes nothing from what was the latest.
LEMMA LoseLater ==
  ASSUME NEW s \in Seq(Nat), NEW n \in Nat, NEW m \in Nat, NEW lost, NEW more,
         AreLatest(s, n, lost), lost \subseteq more, more \cap (1..n) \subseteq lost,
         \A k \in (n + 1)..m : k \in more, n <= m
  PROVE  AreLatest(s, m, more)
<1>1. DOMAIN s \subseteq Nat
  BY LenProperties
<1>2. \A i \in DOMAIN s : s[i] \in (1..m) \ more
  BY DEF AreLatest
<1>3. ASSUME NEW k \in (1..m) \ more PROVE k \in (1..n) \ lost
  OBVIOUS
<1>. QED  BY <1>2, <1>3 DEF AreLatest

LEMMA TellInit == Init => TellInv
<1>1. Init => LockInv
  BY GuiAssumption DEF Init, LockInv
<1>2. ASSUME Init PROVE ReportInv
  <2>1. Base = 0
    BY <1>2 DEF Init, Base
  <2>2. AreLatest(<< >>, 0, {})
    BY GuiAssumption DEF AreLatest
  <2>. QED  BY <1>2, <2>1, <2>2 DEF Init, ReportInv
<1>. QED  BY <1>1, <1>2, TypeInit DEF TellInv

\* The threads come and go without a word.
LEMMA TellUntouched ==
  ASSUME LockInv, ReportInv, UNCHANGED << lock, rpc, op, todo, ran, view, tickVars >>
  PROVE  LockInv' /\ ReportInv'
<1>1. LockInv'
  BY DEF LockInv, tickVars
<1>2. Base' = Base
  BY DEF Base, tickVars
<1>. QED  BY <1>1, <1>2 DEF ReportInv, tickVars

LEMMA TellAccept ==
  ASSUME TypeInv, LockInv, ReportInv, NEW t \in Thread, NEW r \in Request, Accept(t, r)
  PROVE  LockInv' /\ ReportInv'
<1>1. PICK kind \in Kinds, n \in RunTicks :
        /\ op' = [op EXCEPT ![r] = kind]
        /\ todo' = [todo EXCEPT ![r] = IF kind = "run" THEN n
                                       ELSE IF kind = "step" THEN 1 ELSE 0]
  BY DEF Accept
<1>2. /\ rpc[r] = "none" /\ rpc' = [rpc EXCEPT ![r] = "handling"]
      /\ UNCHANGED << lock, ran, view, tick, inTick, reports, unreported >>
  BY DEF Accept, tickVars
<1>3. /\ DOMAIN op = Request /\ DOMAIN todo = Request /\ DOMAIN rpc = Request
      /\ lock \in Request \cup {None} /\ None \notin Request
  BY GuiAssumption DEF TypeInv, TypeOK
<1>4. lock # r
  BY <1>2 DEF LockInv
<1>5. LockInv'
  BY <1>1, <1>2, <1>3, <1>4 DEF LockInv
<1>6. Base' = Base
  BY <1>2, <1>3, <1>4 DEF Base
<1>. QED  BY <1>1, <1>2, <1>3, <1>5, <1>6 DEF ReportInv

LEMMA TellTypes ==
  ASSUME TypeInv
  PROVE  /\ DOMAIN op = Request /\ DOMAIN todo = Request /\ DOMAIN rpc = Request
         /\ DOMAIN ran = Request /\ DOMAIN view = Request /\ tick \in Nat
         /\ lock \in Request \cup {None} /\ None \notin Request /\ reports \in Seq(Nat)
         /\ \A r \in Request : /\ ran[r] \in Seq(Nat) /\ todo[r] \in Nat
                               /\ view[r].tick \in Nat /\ view[r].reports \in Seq(Nat)
                               /\ DOMAIN view[r] = {"tick", "reports"}
<1>1. reports \in Seq(1..MaxTicks) /\ MaxTicks \in Nat /\ ran \in [Request -> Seq(1..MaxTicks)]
  BY GuiAssumption DEF TypeInv, TypeOK
<1>2. Seq(1..MaxTicks) \subseteq Seq(Nat)
  BY <1>1
<1>3. view \in [Request -> [tick : 0..MaxTicks, reports : Seq(1..MaxTicks)]]
  BY DEF TypeInv, TypeOK
<1>4. ASSUME NEW r \in Request
      PROVE  /\ view[r].tick \in Nat /\ view[r].reports \in Seq(Nat)
             /\ DOMAIN view[r] = {"tick", "reports"}
  BY <1>1, <1>2, <1>3
<1>. QED  BY <1>1, <1>2, <1>3, <1>4, GuiAssumption DEF TypeInv, TypeOK

\* The lock goes from hand to hand.
LEMMA LockStep ==
  ASSUME TypeInv, LockInv, NEW r \in Request, Handle(r)
  PROVE  LockInv'
<1>. USE TellTypes DEF LockInv, NoThread, reqVars, tickVars, Answer, Forget
<1>1. CASE Refuse(r)
  BY <1>1 DEF Refuse
<1>2. CASE Enter(r)
  BY <1>2 DEF Enter, MayEnter
<1>3. CASE Post(r)
  BY <1>3 DEF Post
<1>4. CASE ReadKernel(r)
  BY <1>4 DEF ReadKernel
<1>5. CASE ReadReports(r)
  BY <1>5 DEF ReadReports
<1>6. CASE BeginTick(r)
  BY <1>6 DEF BeginTick, More
<1>7. CASE EndTick(r)
  BY <1>7 DEF EndTick
<1>8. CASE TickRaises(r)
  BY <1>8 DEF TickRaises, Release, AnswerOrDrop
<1>9. CASE Record(r)
  BY <1>9 DEF Record
<1>10. CASE ReadRaises(r)
  BY <1>10 DEF ReadRaises, Release, AnswerOrDrop
<1>. QED
  BY <1>1, <1>2, <1>3, <1>4, <1>5, <1>6, <1>7, <1>8, <1>9, <1>10 DEF Handle

\* What tells nothing new, and takes nothing back.
LEMMA TellSame ==
  ASSUME ReportInv, LockInv', Base' = Base, UNCHANGED << reports, unreported, op >>,
         lock' # None => \A i \in DOMAIN ran'[lock'] : ran'[lock'][i] = Base + i,
         \A r \in Request : op[r] = "read" /\ rpc'[r] = "answered" =>
            rpc[r] = "answered" /\ view'[r] = view[r]
  PROVE  ReportInv'
BY DEF ReportInv

LEMMA TellQuiet ==
  ASSUME TypeInv, LockInv, ReportInv, LockInv', NEW r \in Request,
         Refuse(r) \/ Enter(r) \/ Post(r) \/ ReadKernel(r)
  PROVE  ReportInv'
<1>1. CASE Refuse(r)
  <2>1. /\ UNCHANGED << lock, reports, unreported, op, view, tick >> /\ op[r] = "bad"
        /\ ran' = [ran EXCEPT ![r] = << >>] /\ rpc' = [rpc EXCEPT ![r] = "answered"]
        /\ rpc[r] = "handling"
    BY <1>1 DEF Refuse, Forget, Answer, tickVars
  <2>2. lock # r
    BY <2>1 DEF LockInv
  <2>3. lock # None => ran'[lock] = ran[lock] /\ rpc'[lock] = rpc[lock]
    BY <2>1, <2>2, TellTypes
  <2>4. Base' = Base
    BY <2>1, <2>3 DEF Base
  <2>. QED  BY <2>1, <2>3, <2>4, TellSame, TellTypes DEF ReportInv
<1>2. CASE Enter(r)
  <2>1. /\ UNCHANGED << reports, unreported, op, view, tick, ran >> /\ lock = None /\ lock' = r
        /\ rpc' = [rpc EXCEPT ![r] = "in"]
    BY <1>2 DEF Enter, MayEnter, tickVars, reqVars
  <2>2. ran[r] = << >> /\ rpc'[r] = "in" /\ r # None
    BY <2>1, TellTypes DEF LockInv
  <2>3. Base = tick /\ Base' = tick
    BY <2>1, <2>2, TellTypes DEF Base
  <2>. QED  BY <2>1, <2>2, <2>3, TellSame, TellTypes DEF ReportInv
<1>3. CASE Post(r)
  <2>1. /\ UNCHANGED << reports, unreported, op, view, tick, ran >> /\ lock' = None
        /\ rpc' = [rpc EXCEPT ![r] = "answered"] /\ rpc[r] = "in" /\ op[r] = "send"
    BY <1>3 DEF Post, Answer, tickVars, reqVars
  <2>2. ran[r] = << >> /\ lock = r /\ r # None
    BY <2>1, TellTypes DEF LockInv
  <2>3. Base = tick /\ Base' = tick
    BY <2>1, <2>2, TellTypes DEF Base
  <2>. QED  BY <2>1, <2>2, <2>3, TellSame, TellTypes DEF ReportInv
<1>4. CASE ReadKernel(r)
  <2>1. /\ UNCHANGED << reports, unreported, op, tick, ran, lock >>
        /\ \A q \in Request \ {r} : view'[q] = view[q]
        /\ rpc' = [rpc EXCEPT ![r] = "half"] /\ rpc[r] = "in" /\ op[r] = "read"
    BY <1>4, TellTypes DEF ReadKernel, tickVars
  <2>2. lock = r /\ rpc'[r] = "half"
    BY <2>1, TellTypes DEF LockInv
  <2>3. Base' = Base
    BY <2>1, <2>2, TellTypes DEF Base
  <2>. QED  BY <2>1, <2>2, <2>3, TellSame, TellTypes DEF ReportInv
<1>. QED  BY <1>1, <1>2, <1>3, <1>4

LEMMA TellTick ==
  ASSUME TypeInv, LockInv, ReportInv, LockInv', NEW r \in Request, BeginTick(r) \/ EndTick(r)
  PROVE  ReportInv'
<1>1. CASE BeginTick(r)
  <2>1. /\ UNCHANGED << reports, unreported, op, view, ran, lock >> /\ tick' = tick + 1
        /\ rpc' = [rpc EXCEPT ![r] = "tick"] /\ rpc[r] = "in"
    BY <1>1 DEF BeginTick
  <2>2. lock = r /\ r # None /\ rpc'[r] = "tick" /\ Len(ran[r]) \in Nat
    BY <2>1, TellTypes, LenProperties DEF LockInv
  <2>3. Base = tick - Len(ran[r]) - 0 /\ Base' = (tick + 1) - Len(ran[r]) - 1
    BY <2>1, <2>2 DEF Base
  <2>4. Base' = Base
    BY <2>2, <2>3, TellTypes
  <2>. QED  BY <2>1, <2>2, <2>4, TellSame, TellTypes DEF ReportInv
<1>2. CASE EndTick(r)
  <2>1. /\ UNCHANGED << reports, unreported, op, view, lock, tick >>
        /\ ran' = [ran EXCEPT ![r] = Append(@, tick)]
        /\ rpc' = [rpc EXCEPT ![r] = "in"] /\ rpc[r] = "tick"
    BY <1>2 DEF EndTick
  <2>2. /\ lock = r /\ r # None /\ rpc'[r] = "in" /\ Len(ran[r]) \in Nat
        /\ DOMAIN ran[r] = 1..Len(ran[r]) /\ ran'[r] = Append(ran[r], tick)
    BY <2>1, TellTypes, LenProperties DEF LockInv
  <2>3. /\ Len(ran'[r]) = Len(ran[r]) + 1 /\ DOMAIN ran'[r] = 1..(Len(ran[r]) + 1)
        /\ \A i \in DOMAIN ran[r] : ran'[r][i] = ran[r][i]
        /\ ran'[r][Len(ran[r]) + 1] = tick
    <3>1. ran[r] \in Seq(Nat) /\ tick \in Nat
      BY TellTypes
    <3>. QED  BY <2>2, <3>1, AppendProperties, LenProperties
  <2>4. Base = tick - Len(ran[r]) - 1 /\ Base' = tick - (Len(ran[r]) + 1) - 0
    BY <2>1, <2>2, <2>3 DEF Base
  <2>5. Base' = Base /\ tick = Base + (Len(ran[r]) + 1)
    <3>1. \A n, l \in Nat : n - (l + 1) - 0 = n - l - 1 /\ n = (n - l - 1) + (l + 1)
      OBVIOUS
    <3>2. tick \in Nat /\ Len(ran[r]) \in Nat
      BY <2>2, TellTypes
    <3>. QED  BY <2>4, <3>1, <3>2
  <2>6. \A i \in DOMAIN ran[r] : ran[r][i] = Base + i
    BY <2>2 DEF ReportInv
  <2>7. \A i \in DOMAIN ran'[r] : ran'[r][i] = Base + i
    BY <2>2, <2>3, <2>5, <2>6
  <2>. QED  BY <2>1, <2>2, <2>5, <2>7, TellSame, TellTypes DEF ReportInv
<1>. QED  BY <1>1, <1>2

LEMMA TellAnswer ==
  ASSUME TypeInv, LockInv, ReportInv, LockInv', NEW r \in Request,
         ReadReports(r) \/ ReadRaises(r) \/ TickRaises(r) \/ Record(r)
  PROVE  ReportInv'
<1>0. lock' = None /\ Base' = tick' /\ UNCHANGED << tick, op >> /\ tick \in Nat
  BY TellTypes
  DEF ReadReports, ReadRaises, TickRaises, Record, Release, Base, Forget, tickVars
<1>1. lock = r /\ r # None /\ ran[r] \in Seq(Nat) /\ Len(ran[r]) \in Nat
      /\ DOMAIN ran[r] = 1..Len(ran[r])
  BY TellTypes, LenProperties DEF LockInv, ReadReports, ReadRaises, TickRaises, Record
<1>2. \A i \in 1..Len(ran[r]) : ran[r][i] = Base + i
  BY <1>1 DEF ReportInv
<1>3. Base \in Nat /\ unreported \subseteq 1..Base /\ reports \in Seq(Nat)
  BY TellTypes DEF ReportInv
<1>4. CASE ReadReports(r)
  <2>1. /\ rpc[r] = "half" /\ UNCHANGED << reports, unreported >>
        /\ view' = [view EXCEPT ![r].reports = reports] /\ rpc' = [rpc EXCEPT ![r] = "answered"]
    BY <1>4 DEF ReadReports, Answer, tickVars
  <2>2. ran[r] = << >> /\ view[r].tick = tick
    BY <2>1 DEF LockInv
  <2>3. Base = tick
    BY <1>0, <1>1, <2>1, <2>2 DEF Base
  <2>4. /\ view'[r].reports = reports /\ view'[r].tick = tick
        /\ \A q \in Request \ {r} : view'[q] = view[q] /\ rpc'[q] = rpc[q]
    BY <2>1, <2>2, TellTypes
  <2>. QED  BY <1>0, <2>1, <2>3, <2>4 DEF ReportInv
<1>5. CASE TickRaises(r)
  <2>1. /\ rpc[r] = "tick" /\ UNCHANGED << reports, view >> /\ op[r] # "read"
        /\ unreported' = unreported \cup {tick} \cup {ran[r][i] : i \in 1..Len(ran[r])}
        /\ \A q \in Request \ {r} : rpc'[q] = rpc[q]
    BY <1>5, TellTypes DEF TickRaises, Forget, AnswerOrDrop, LockInv
  <2>2. Base = tick - Len(ran[r]) - 1
    BY <1>1, <2>1 DEF Base
  <2>3. tick = Base + (Len(ran[r]) + 1)
    <3>1. \A n, l \in Nat : n = (n - l - 1) + (l + 1)
      OBVIOUS
    <3>. QED  BY <1>0, <1>1, <2>2, <3>1
  <2>4. unreported' = unreported \cup ((Base + 1)..tick)
    <3>1. ASSUME NEW k \in (Base + 1)..tick PROVE k \in unreported'
      <4>1. CASE k = tick
        BY <2>1, <4>1
      <4>2. CASE k # tick
        <5>1. k - Base \in 1..Len(ran[r]) /\ Base + (k - Base) = k
          BY <1>0, <1>1, <1>3, <2>3, <4>2
        <5>2. ran[r][k - Base] = k
          BY <1>2, <5>1
        <5>. QED  BY <2>1, <5>1, <5>2
      <4>. QED  BY <4>1, <4>2
    <3>2. tick \in (Base + 1)..tick /\ \A i \in 1..Len(ran[r]) : ran[r][i] \in (Base + 1)..tick
      BY <1>0, <1>1, <1>2, <1>3, <2>3, SMTT(30)
    <3>. QED  BY <2>1, <3>1, <3>2
  <2>5. unreported' \subseteq 1..tick /\ unreported \subseteq unreported'
    <3>1. 1..Base \subseteq 1..tick /\ (Base + 1)..tick \subseteq 1..tick
      BY <1>0, <1>1, <1>3, <2>3
    <3>. QED  BY <1>3, <2>4, <3>1
  <2>6. AreLatest(reports, tick, unreported')
    <3>1. AreLatest(reports, Base, unreported)
      BY DEF ReportInv
    <3>2. unreported' \cap (1..Base) \subseteq unreported /\ Base <= tick
      BY <1>0, <1>1, <1>3, <2>3, <2>4
    <3>3. \A k \in (Base + 1)..tick : k \in unreported'
      BY <2>4
    <3>. QED  BY <1>0, <1>3, <2>5, <3>1, <3>2, <3>3, LoseLater
  <2>7. ASSUME NEW q \in Request, op[q] = "read", rpc'[q] = "answered"
        PROVE  view[q].tick <= tick /\ AreLatest(view[q].reports, view[q].tick, unreported')
    <3>1. /\ q # r /\ view[q].tick <= Base /\ AreLatest(view[q].reports, view[q].tick, unreported)
          /\ view[q].tick \in Nat /\ view[q].reports \in Seq(Nat)
      BY <2>1, <2>7, TellTypes DEF ReportInv
    <3>. DEFINE n == view[q].tick
    <3>2. unreported' \cap (1..n) \subseteq unreported
      BY <1>0, <1>3, <2>4, <3>1
    <3>3. n \in Nat /\ AreLatest(view[q].reports, n, unreported)
      BY <3>1
    <3>. HIDE DEF n
    <3>4. AreLatest(view[q].reports, n, unreported')
      <4>1. n <= n /\ \A k \in (n + 1)..n : k \in unreported'
        BY <3>3
      <4>. QED  BY <2>5, <3>1, <3>2, <3>3, <4>1, LoseLater
    <3>. USE DEF n
    <3>. QED  BY <1>0, <1>1, <1>3, <2>3, <3>1, <3>4
  <2>. QED  BY <1>0, <2>1, <2>5, <2>6, <2>7 DEF ReportInv
<1>6. CASE Record(r)
  <2>1. /\ rpc[r] = "in" /\ reports' = Recent(reports \o ran[r]) /\ op[r] # "read"
        /\ UNCHANGED << unreported, view >> /\ \A q \in Request \ {r} : rpc'[q] = rpc[q]
    BY <1>6, TellTypes DEF Record, Forget, Answer
  <2>2. Base = tick - Len(ran[r]) - 0
    BY <1>1, <2>1 DEF Base
  <2>3. tick = Base + Len(ran[r])
    BY <1>0, <1>1, <1>3, <2>2
  <2>4. AreLatest(reports, Base, unreported) /\ History \in Nat \ {0}
    BY GuiAssumption DEF ReportInv
  <2>5. AreLatest(reports', tick, unreported)
    BY <1>1, <1>2, <1>3, <2>1, <2>3, <2>4, RecentLatest
  <2>6. unreported \subseteq 1..tick /\ Base <= tick
    BY <1>0, <1>1, <1>3, <2>3
  <2>7. \A q \in Request : op[q] = "read" /\ rpc'[q] = "answered" =>
           view[q].tick <= tick /\ AreLatest(view[q].reports, view[q].tick, unreported)
    <3>1. \A q \in Request : op[q] = "read" /\ rpc'[q] = "answered" =>
             /\ view[q].tick <= Base /\ view[q].tick \in Nat
             /\ AreLatest(view[q].reports, view[q].tick, unreported)
      BY <2>1, TellTypes DEF ReportInv
    <3>. QED  BY <1>0, <1>3, <2>6, <3>1
  <2>. QED  BY <1>0, <2>1, <2>5, <2>6, <2>7 DEF ReportInv
<1>7. CASE ReadRaises(r)
  <2>1. /\ rpc[r] \in {"in", "half"} /\ op[r] = "read" /\ UNCHANGED << reports, unreported >>
        /\ view' = [view EXCEPT ![r] = NoView]
        /\ \A q \in Request \ {r} : rpc'[q] = rpc[q]
    BY <1>7, TellTypes DEF ReadRaises, AnswerOrDrop, tickVars
  <2>2. ran[r] = << >>
    BY <2>1 DEF LockInv
  <2>3. Base = tick
    BY <1>0, <1>1, <2>1, <2>2 DEF Base
  <2>4. view'[r] = NoView /\ \A q \in Request \ {r} : view'[q] = view[q]
    BY <2>1, TellTypes
  <2>5. NoView.tick = 0 /\ AreLatest(NoView.reports, 0, unreported)
    BY GuiAssumption DEF NoView, AreLatest
  <2>. QED  BY <1>0, <2>1, <2>3, <2>4, <2>5 DEF ReportInv
<1>. QED  BY <1>4, <1>5, <1>6, <1>7

\* What a request that has the lock has run, and what all others know, are of
\* the ticks after and before it took the lock.
THEOREM TellInvariant == Spec => []TellInv
<1>1. TypeInv /\ LockInv /\ ReportInv /\ [Next]_vars => LockInv' /\ ReportInv'
  <2>. SUFFICES ASSUME TypeInv, LockInv, ReportInv, [Next]_vars PROVE LockInv' /\ ReportInv'
    OBVIOUS
  <2>1. ASSUME NEW r \in Request, Handle(r) PROVE LockInv' /\ ReportInv'
    BY <2>1, LockStep, TellQuiet, TellTick, TellAnswer DEF Handle
  <2>2. ASSUME NEW t \in Thread, NEW r \in Request, Accept(t, r) PROVE LockInv' /\ ReportInv'
    BY <2>2, TellAccept
  <2>3. ASSUME NEW t \in Thread,
               Start(t) \/ Serve(t) \/ Poll(t) \/ LoopEnds(t) \/ CutShort(t) \/ Stop(t)
                 \/ Listen(t)
                 \/ EndServing(t) \/ BeginStop(t) \/ AskShutdown(t) \/ AwaitShutdown(t)
                 \/ Join(t) \/ EndStop(t)
        PROVE  LockInv' /\ ReportInv'
    <3>1. NoRequest
      BY <2>3 DEF Start, Serve, Poll, LoopEnds, CutShort, Stop, Listen, EndServing, BeginStop,
                  AskShutdown, AwaitShutdown, Join, EndStop
    <3>. QED  BY <3>1, TellUntouched DEF NoRequest, reqVars
  <2>4. CASE UNCHANGED vars
    BY <2>4, TellUntouched DEF vars, reqVars
  <2>. QED  BY <2>1, <2>2, <2>3, <2>4 DEF Next, Life
<1>2. Init => LockInv /\ ReportInv
  BY TellInit DEF TellInv
<1>3. TypeInv /\ LockInv /\ ReportInv => TellInv
  BY DEF TellInv
<1>. QED  BY <1>1, <1>2, <1>3, TypeInvariant, PTL DEF Spec

\* With the lock free, the dashboard's reports are those of the latest ticks, for
\* any requests, lengths of runs and of the history.
THEOREM ReportsAreTrue == Spec => []ReportsTell
<1>1. TellInv => ReportsTell
  BY DEF TellInv, ReportInv, ReportsTell, Base
<1>. QED  BY <1>1, TellInvariant, PTL

\* Every answer is of a tick boundary, whatever ran before it was sent or since.
THEOREM AnswersAreConsistent == Spec => []AnswerConsistent
<1>1. TellInv => AnswerConsistent
  BY DEF TellInv, ReportInv, AnswerConsistent
<1>. QED  BY <1>1, TellInvariant, PTL
=============================================================================
