------------------------------ MODULE Shutdown ------------------------------
(***************************************************************************)
(* Kernel.shutdown() of titoos/kernel.py against the ThreadBackend of      *)
(* titoos/backends.py and the drivers its workers are calling.             *)
(*                                                                         *)
(* The threads are the kernel's, which runs ticks; the workers, one for    *)
(* each agent of a tick; the callers of shutdown(); and the threads that   *)
(* shutdown(wait=False) starts.  A pool is a number, in order of creation. *)
(* What an agent sends or returns has no part here: a step is a worker     *)
(* that goes in and out of calls on resources.                             *)
(***************************************************************************)
EXTENDS Naturals, FiniteSets

CONSTANTS
  None,
  Caller,      \* the threads that call shutdown()
  Deferred,    \* the threads that shutdown(wait=False) may start, each once
  Agent,
  Driver,      \* the installed integrations
  Adapter,     \* the distinct platform adapters of the registered agents
  Failing,     \* those of them whose close() raises
  Programs,    \* the programs that use the kernel: see Program
  MaxTicks     \* bound on the ticks

Resource == Driver \cup Adapter
Thread   == Caller \cup Deferred
Job      == Agent \X (1..MaxTicks)

\* A program is how careful it is: when it calls shutdown() (see MayShutDown),
\* whether Ctrl-C may reach a caller of shutdown(), whether a step may raise what
\* is no Exception, how many agents its ticks may have, and a
\* bounds on its calls of shutdown() and on its ticks.
Program ==
  [when : {"between ticks", "in a tick", "any time"}, interrupts : BOOLEAN,
   aborts : BOOLEAN, sizes : SUBSET (0..Cardinality(Agent)), calls : Nat,
   ticks : 0..MaxTicks]

ASSUME ShutdownAssumption ==
  /\ Caller \cap Deferred = {} /\ None \notin Thread \cup Nat
  /\ IsFiniteSet(Agent) /\ Driver \cap Adapter = {} /\ Failing \subseteq Resource
  /\ Resource \cap {"none", "queued", "step"} = {}
  /\ Programs \subseteq Program /\ MaxTicks \in Nat

VARIABLES
  program,
  pool,      \* backend._pool
  pools,     \* how many pools were created
  stopped,   \* the pools whose shutdown() was called
  kpc,       \* where the kernel's thread is in run_tick()
  executor,  \* what _executor() returned to it
  batch,     \* the agents of the tick
  unsent,    \* those not yet submitted
  ticks,
  job,       \* per agent and tick: no step, queued, in its step, or in a call
             \* on a resource
  home,      \* the pool the step was submitted to; 0: the kernel's thread
  pc,        \* where each thread is in shutdown()
  seen,      \* the pool it read from the backend
  handle,    \* kernel.shutdown_thread
  mine,      \* the handle that a shutdown(wait=True) took
  todo,      \* the resources a thread has still to close
  broken,    \* whether a close() it made raised
  calls,
  forsaken,  \* history: the deferred threads whose join was interrupted
  attempted  \* history: the resources closed since the last tick began

tickVars  == << kpc, executor, batch, unsent, ticks >>
poolVars  == << pool, pools, stopped >>
workVars  == << job, home >>
closeVars == << todo, broken, attempted >>
callVars  == << handle, mine, calls, forsaken >>
vars == << tickVars, poolVars, workVars, closeVars, callVars, pc, seen, program >>

TypeOK ==
  /\ pools \in Nat /\ pool \in (1..pools) \cup {None} /\ stopped \subseteq 1..pools
  /\ kpc \in {"idle", "check", "fetch", "submit", "collect"}
  /\ executor \in (1..pools) \cup {None}
  /\ unsent \subseteq batch /\ batch \subseteq Agent
  /\ job \in [Job -> {"none", "queued", "step"} \cup Resource]
  /\ home \in [Job -> 0..pools]
  /\ pc \in [Thread -> {"idle", "took", "joining", "entered", "read", "stored",
                        "waiting", "closing", "ended"}]
  /\ seen \in [Thread -> (1..pools) \cup {None}]
  /\ handle \in Deferred \cup {None} /\ mine \in [Caller -> Deferred \cup {None}]
  /\ forsaken \subseteq Deferred
  /\ todo \in [Thread -> SUBSET Resource] /\ broken \in [Thread -> BOOLEAN]
  /\ attempted \subseteq Resource /\ ticks \in 0..MaxTicks
  /\ program \in Programs /\ calls \in 0..program.calls

Init ==
  /\ pool = None /\ pools = 0 /\ stopped = {}
  /\ kpc = "idle" /\ executor = None /\ batch = {} /\ unsent = {} /\ ticks = 0
  /\ job = [j \in Job |-> "none"] /\ home = [j \in Job |-> 0]
  /\ pc = [t \in Thread |-> "idle"] /\ seen = [t \in Thread |-> None]
  /\ handle = None /\ mine = [t \in Caller |-> None] /\ forsaken = {}
  /\ todo = [t \in Thread |-> {}] /\ broken = [t \in Thread |-> FALSE]
  /\ calls = 0 /\ attempted = {} /\ program \in Programs

Goto(t, place) == pc' = [pc EXCEPT ![t] = place]

\* How careful the program is.  "between ticks": shutdown() and ticks exclude
\* each other; "in a tick": shutdown() may find the steps of a tick running,
\* but no tick starts during it; "any time": no care is taken.
MayShutDown ==
  \/ program.when = "any time"
  \/ program.when = "in a tick" /\ kpc \in {"idle", "collect"}
  \/ program.when = "between ticks" /\ kpc = "idle"
MayTick == program.when = "any time" \/ \A t \in Thread : pc[t] \in {"idle", "ended"}

-----------------------------------------------------------------------------
(* run_tick()                                                              *)

\* The steps of this tick by a set of agents.
Now(S) == {<<a, ticks'>> : a \in S}

\* A tick of one agent runs on the kernel's own thread.
StartTick(S) ==
  /\ kpc = "idle" /\ MayTick /\ ticks < program.ticks /\ Cardinality(S) \in program.sizes
  /\ ticks' = ticks + 1 /\ batch' = S /\ attempted' = {}
  /\ IF Cardinality(S) < 2
     THEN /\ job' = [j \in Job |-> IF j \in Now(S) THEN "step" ELSE job[j]]
          /\ kpc' = "collect" /\ unsent' = {}
     ELSE kpc' = "check" /\ unsent' = S /\ UNCHANGED job
  /\ UNCHANGED << home, executor, poolVars, todo, broken, callVars, pc, seen >>

\* _executor(): the pool is created when there is none ...
CheckPool ==
  /\ kpc = "check"
  /\ IF pool = None THEN pools' = pools + 1 /\ pool' = pools + 1
                    ELSE UNCHANGED << pools, pool >>
  /\ kpc' = "fetch"
  /\ UNCHANGED << stopped, executor, batch, unsent, ticks, workVars, closeVars,
                  callVars, pc, seen >>

\* ... and the attribute is read again for the return.
FetchPool ==
  /\ kpc = "fetch"
  /\ executor' = pool /\ kpc' = "submit"
  /\ UNCHANGED << poolVars, batch, unsent, ticks, workVars, closeVars, callVars, pc, seen >>

Submit(a) ==
  /\ kpc = "submit" /\ a \in unsent
  /\ executor # None /\ executor \notin stopped
  /\ job' = [job EXCEPT ![<<a, ticks>>] = "queued"]
  /\ home' = [home EXCEPT ![<<a, ticks>>] = executor]
  /\ unsent' = unsent \ {a} /\ executor' = None
  /\ kpc' = IF unsent = {a} THEN "collect" ELSE "check"
  /\ UNCHANGED << poolVars, batch, ticks, closeVars, callVars, pc, seen >>

\* No pool to submit to, or one that was shut down: the error leaves step().
SubmitRaises ==
  /\ kpc = "submit" /\ (executor = None \/ executor \in stopped)
  /\ kpc' = "idle" /\ executor' = None /\ batch' = {} /\ unsent' = {}
  /\ UNCHANGED << poolVars, ticks, workVars, closeVars, callVars, pc, seen >>

EndTick ==
  /\ kpc = "collect" /\ \A a \in batch : job[<<a, ticks>>] = "none"
  /\ kpc' = "idle" /\ batch' = {}
  /\ UNCHANGED << executor, unsent, ticks, poolVars, workVars, closeVars, callVars, pc, seen >>

\* A result() that is a KeyboardInterrupt or SystemExit leaves run_tick(), and
\* the other steps of the tick run on.
AbortTick(a) ==
  /\ program.aborts /\ kpc = "collect" /\ a \in batch
  /\ job[<<a, ticks>>] = "none" /\ home[<<a, ticks>>] # 0
  /\ kpc' = "idle" /\ batch' = {}
  /\ UNCHANGED << executor, unsent, ticks, poolVars, workVars, closeVars, callVars, pc, seen >>

SetJob(j, s) ==
  /\ job' = [job EXCEPT ![j] = s]
  /\ UNCHANGED << tickVars, poolVars, home, closeVars, callVars, pc, seen >>

StartStep(j)   == job[j] = "queued" /\ SetJob(j, "step")
Call(j, r)     == job[j] = "step" /\ SetJob(j, r)
CallReturns(j) == job[j] \in Resource /\ SetJob(j, "step")
EndStep(j)     == job[j] = "step" /\ SetJob(j, "none")

-----------------------------------------------------------------------------
(* shutdown()                                                              *)

Running(d) == pc[d] \notin {"idle", "ended"}

\* Fault: a thread that was started is not asked whether it is alive.
InProgress_Unasked(h) == FALSE

\* pending is not None and pending.is_alive()
InProgress(h) == h # None /\ Running(h)

\* wait=True takes the handle of a deferred shutdown under the kernel's lock ...
ShutdownWait(t) ==
  /\ pc[t] = "idle" /\ MayShutDown /\ calls < program.calls
  /\ calls' = calls + 1
  /\ mine' = [mine EXCEPT ![t] = handle] /\ handle' = None
  /\ Goto(t, "took")
  /\ UNCHANGED << tickVars, poolVars, workVars, closeVars, seen, forsaken >>

\* ... and joins it when it is still running, or does the work itself.
JoinOrDo(t) ==
  /\ pc[t] = "took"
  /\ Goto(t, IF InProgress(mine[t]) THEN "joining" ELSE "entered")
  /\ UNCHANGED << tickVars, poolVars, workVars, closeVars, callVars, seen >>

Joined(t) ==
  /\ pc[t] = "joining" /\ ~Running(mine[t])
  /\ Goto(t, "idle")
  /\ UNCHANGED << tickVars, poolVars, workVars, closeVars, callVars, seen >>

\* KeyboardInterrupt before or in join(): the handle is gone and nothing is done
\* in its place; the deferred thread runs on.
JoinInterrupted(t) ==
  /\ program.interrupts /\ t \in Caller /\ pc[t] \in {"took", "joining"}
  /\ forsaken' = forsaken \cup ({mine[t]} \ {None})
  /\ Goto(t, "idle")
  /\ UNCHANGED << tickVars, poolVars, workVars, closeVars, handle, mine, calls, seen >>

\* wait=False starts a thread, unless one it started is still running.
ShutdownNoWait(t) ==
  /\ pc[t] = "idle" /\ MayShutDown /\ calls < program.calls
  /\ calls' = calls + 1
  /\ IF InProgress(handle)
     THEN UNCHANGED << handle, pc >>
     ELSE \E d \in Deferred : pc[d] = "idle" /\ handle' = d /\ Goto(d, "entered")
  /\ UNCHANGED << tickVars, poolVars, workVars, closeVars, mine, seen, forsaken >>

\* backend.shutdown(): `pool, self._pool = self._pool, None` is a read ...
ReadPool(t) ==
  /\ pc[t] = "entered"
  /\ seen' = [seen EXCEPT ![t] = pool]
  /\ Goto(t, "read")
  /\ UNCHANGED << tickVars, poolVars, workVars, closeVars, callVars >>

StartClosing(t) ==
  /\ Goto(t, "closing")
  /\ todo' = [todo EXCEPT ![t] = Resource] /\ broken' = [broken EXCEPT ![t] = FALSE]
  /\ UNCHANGED attempted

\* ... and then a store; with no pool there is nothing to wait for.
StorePool(t) ==
  /\ pc[t] = "read"
  /\ pool' = None
  /\ IF seen[t] = None THEN StartClosing(t) ELSE Goto(t, "stored") /\ UNCHANGED closeVars
  /\ UNCHANGED << tickVars, pools, stopped, workVars, callVars, seen >>

\* Fault: the attribute used again after the store.
Held_Rereads(t) == pool

\* The pool that backend.shutdown() shuts down is its local variable.
Held(t) == seen[t]

\* pool.shutdown(): no more work is taken, what was submitted is done.
StopPool(t) ==
  /\ pc[t] = "stored"
  /\ stopped' = stopped \cup {Held(t)}
  /\ Goto(t, "waiting")
  /\ UNCHANGED << tickVars, pool, pools, workVars, closeVars, callVars, seen >>

\* Fault: pool.shutdown(wait=False).
WorkersDone_Unawaited(p) == TRUE

WorkersDone(p) == \A j \in Job : home[j] = p => job[j] = "none"

Await(t) ==
  /\ pc[t] = "waiting" /\ WorkersDone(Held(t))
  /\ StartClosing(t)
  /\ UNCHANGED << tickVars, poolVars, workVars, callVars, seen >>

\* KeyboardInterrupt in backend.shutdown(), whose wait is most of it: the `except
\* BaseException` closes all the same, whoever still works.
Interrupted(t) ==
  /\ program.interrupts /\ t \in Caller
  /\ pc[t] \in {"entered", "read", "stored", "waiting"}
  /\ StartClosing(t)
  /\ UNCHANGED << tickVars, poolVars, workVars, callVars, seen >>

\* Faults: the first close() that raises is the last; it is tried again.
LeftAfter_StopsAtError(t, r) == IF r \in Failing THEN {} ELSE todo[t] \ {r}
LeftAfter_Retries(t, r)      == IF r \in Failing THEN todo[t] ELSE todo[t] \ {r}

LeftAfter(t, r) == todo[t] \ {r}

\* The integrations and then the adapters, each attempted whatever the others do.
CloseOne(t, r) ==
  /\ pc[t] = "closing" /\ r \in todo[t]
  /\ r \in Adapter => todo[t] \cap Driver = {}
  /\ todo' = [todo EXCEPT ![t] = LeftAfter(t, r)]
  /\ broken' = [broken EXCEPT ![t] = @ \/ r \in Failing]
  /\ attempted' = attempted \cup {r}
  /\ UNCHANGED << tickVars, poolVars, workVars, callVars, pc, seen >>

\* KeyboardInterrupt in a close(): no other driver, or no other adapter, is closed.
ClosingInterrupted(t) ==
  /\ program.interrupts /\ t \in Caller /\ pc[t] = "closing"
  /\ todo' = [todo EXCEPT ![t] = IF @ \cap Driver # {} THEN @ \cap Adapter ELSE {}]
  /\ UNCHANGED << tickVars, poolVars, workVars, broken, attempted, callVars, pc, seen >>

\* Returns, or raises if broken; a deferred thread ends either way.
Finish(t) ==
  /\ pc[t] = "closing" /\ todo[t] = {}
  /\ Goto(t, IF t \in Caller THEN "idle" ELSE "ended")
  /\ UNCHANGED << tickVars, poolVars, workVars, closeVars, callVars, seen >>

-----------------------------------------------------------------------------
KernelThread ==
  \/ CheckPool \/ FetchPool \/ SubmitRaises \/ EndTick
  \/ \E a \in Agent : Submit(a)
Worker(j) ==
  \/ StartStep(j) \/ CallReturns(j) \/ EndStep(j)
  \/ \E r \in Resource : Call(j, r)
Progress(t) ==
  \/ t \in Caller /\ (JoinOrDo(t) \/ Joined(t))
  \/ ReadPool(t) \/ StorePool(t) \/ StopPool(t) \/ Await(t) \/ Finish(t)
  \/ \E r \in Resource : CloseOne(t, r)

CtrlC(t) == JoinInterrupted(t) \/ Interrupted(t) \/ ClosingInterrupted(t)

\* The program may be done with the kernel, which then rests.
Rest == kpc = "idle" /\ (\A t \in Thread : ~Running(t)) /\ UNCHANGED vars

Next ==
  \/ /\ \/ \E S \in SUBSET Agent : StartTick(S)
        \/ KernelThread
        \/ \E a \in Agent : AbortTick(a)
        \/ \E j \in Job : Worker(j)
        \/ \E t \in Caller : ShutdownWait(t) \/ ShutdownNoWait(t)
        \/ \E t \in Thread : Progress(t) \/ CtrlC(t)
     /\ UNCHANGED program
  \/ Rest

Spec == Init /\ [][Next]_vars

\* A step is assumed to end: its calls return, and it makes no call for ever.
FairSpec ==
  /\ Spec /\ WF_vars(KernelThread /\ UNCHANGED program)
  /\ \A j \in Job : /\ WF_vars((StartStep(j) \/ CallReturns(j)) /\ UNCHANGED program)
                    /\ SF_vars(EndStep(j) /\ UNCHANGED program)
  /\ \A t \in Thread : WF_vars(Progress(t) /\ UNCHANGED program)

-----------------------------------------------------------------------------
\* A program of one thread that is not interrupted and calls shutdown() while
\* no tick is handed out.  A step of it may abort its tick.
Careful == program.when # "any time" /\ ~program.interrupts

\* A step that is inside a call on a resource does not have it closed under it
\* (README "a step still inside a call never meets a closed driver"), not even
\* a step that an aborted tick left behind.
NeverMeetsClosed ==
  [][Careful => \A t \in Thread, r \in Resource :
       r \in todo[t] \ todo'[t] => \A j \in Job : job[j] # r]_vars

\* In a careful program the resources are closed by one thread at a time, not by
\* a caller of shutdown(wait=True) and a deferred thread, nor by two of these.
OneCloser ==
  Careful => Cardinality({t \in Thread : pc[t] = "closing"}) <= 1

\* One thread that calls shutdown(), whenever it likes and whatever interrupts it,
\* has one background thread at a time but for those whose join() Ctrl-C cut
\* short: of these the kernel knows nothing any more, and the no-op that
\* shutdown()'s docstring promises while such a thread runs is not kept.
OneDeferred ==
  Cardinality({d \in Deferred \ forsaken : Running(d)}) <= 1

\* When shutdown(wait=True) is over, joined or done, no step is running and
\* close() was attempted on every resource, whichever of them failed; a call
\* that did the closing itself raises what failed.
WaitMeansClosed ==
  [][Careful => \A t \in Caller : pc[t] \in {"joining", "closing"} /\ pc'[t] = "idle" =>
       /\ attempted = Resource
       /\ \A j \in Job : job[j] = "none"
       /\ pc[t] = "closing" => broken[t] = (Failing # {})]_vars

\* shutdown() returns, and so does the thread it leaves behind.
ShutdownEnds == \A t \in Thread : Running(t) ~> ~Running(t)
=============================================================================
