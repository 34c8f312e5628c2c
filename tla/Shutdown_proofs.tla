-------------------------- MODULE Shutdown_proofs --------------------------
(***************************************************************************)
(* Theorems about shutdown(), for any agents, drivers, adapters, programs  *)
(* and numbers of ticks.                                                   *)
(***************************************************************************)
EXTENDS Shutdown, FiniteSetTheorems, TLAPS

-----------------------------------------------------------------------------
(* Type correctness.                                                       *)

\* A thread shuts down a pool that it found, and the agents of a tick are all
\* handed out before their results are collected.
SeenInv ==
  /\ \A t \in Thread : pc[t] \in {"stored", "waiting"} => seen[t] \in 1..pools
  /\ kpc \in {"idle", "collect"} => unsent = {}

\* What the program's bounds are.
LEMMA ProgramBounds ==
  ASSUME program \in Programs
  PROVE  /\ program.ticks \in 0..MaxTicks /\ program.calls \in Nat /\ MaxTicks \in Nat
         /\ program.when \in {"between ticks", "in a tick", "any time"}
BY ShutdownAssumption DEF Program

LEMMA InitType == Init => TypeOK /\ SeenInv
<1>. SUFFICES ASSUME Init PROVE TypeOK /\ SeenInv
  OBVIOUS
<1>1. calls \in 0..program.calls /\ ticks \in 0..MaxTicks
  <2>1. program \in Programs /\ calls = 0 /\ ticks = 0
    BY DEF Init
  <2>2. program.calls \in Nat /\ MaxTicks \in Nat
    BY <2>1, ProgramBounds
  <2>. QED  BY <2>1, <2>2
<1>2. /\ pools \in Nat /\ pool \in (1..pools) \cup {None} /\ stopped \subseteq 1..pools
      /\ executor \in (1..pools) \cup {None} /\ home \in [Job -> 0..pools]
      /\ seen \in [Thread -> (1..pools) \cup {None}]
  BY DEF Init
<1>. QED  BY <1>1, <1>2 DEF Init, TypeOK, SeenInv

LEMMA TickType ==
  ASSUME TypeOK, SeenInv, program' = program,
         \/ \E S \in SUBSET Agent : StartTick(S)
         \/ KernelThread \/ \E a \in Agent : AbortTick(a)
  PROVE  TypeOK' /\ SeenInv'
<1>. USE DEF TypeOK, SeenInv, poolVars, workVars, closeVars, callVars
<1>0. /\ program.ticks \in 0..MaxTicks /\ program.calls \in Nat /\ MaxTicks \in Nat
  BY ProgramBounds
<1>1. ASSUME NEW S \in SUBSET Agent, StartTick(S) PROVE TypeOK' /\ SeenInv'
  <2>1. ticks' \in 0..MaxTicks
    BY <1>0, <1>1 DEF StartTick
  <2>2. /\ job' \in [Job -> {"none", "queued", "step"} \cup Resource] /\ unsent' \subseteq batch'
        /\ kpc' \in {"check", "collect"} /\ batch' \subseteq Agent /\ attempted' = {}
    BY <1>1 DEF StartTick
  <2>. QED  BY <1>1, <2>1, <2>2 DEF StartTick
<1>2. CASE CheckPool
  <2>1. /\ pools' \in Nat /\ pools <= pools' /\ pool' \in (1..pools') \cup {None}
        /\ kpc' = "fetch"
    BY <1>2 DEF CheckPool
  <2>2. /\ stopped \subseteq 1..pools' /\ executor \in (1..pools') \cup {None}
        /\ home \in [Job -> 0..pools'] /\ seen \in [Thread -> (1..pools') \cup {None}]
        /\ \A t \in Thread : pc[t] \in {"stored", "waiting"} => seen[t] \in 1..pools'
    <3>1. 1..pools \subseteq 1..pools' /\ 0..pools \subseteq 0..pools'
      BY <2>1
    <3>. QED  BY <3>1
  <2>3. UNCHANGED << stopped, executor, batch, unsent, ticks, workVars, closeVars, callVars,
                     pc, seen, program >>
    BY <1>2 DEF CheckPool
  <2>. QED  BY <2>1, <2>2, <2>3
<1>3. CASE FetchPool
  BY <1>3 DEF FetchPool
<1>4. ASSUME NEW a \in Agent, Submit(a) PROVE TypeOK' /\ SeenInv'
  <2>1. /\ job' \in [Job -> {"none", "queued", "step"} \cup Resource]
        /\ executor # None /\ home' = [home EXCEPT ![<<a, ticks>>] = executor]
        /\ kpc' = (IF unsent = {a} THEN "collect" ELSE "check")
        /\ unsent' = unsent \ {a} /\ batch' = batch /\ executor' = None
    BY <1>4 DEF Submit
  <2>2. executor \in 0..pools
    BY <2>1
  <2>3. home' \in [Job -> 0..pools]
    BY <2>1, <2>2
  <2>. QED  BY <1>4, <2>1, <2>3 DEF Submit
<1>5. CASE SubmitRaises \/ EndTick \/ \E a \in Agent : AbortTick(a)
  <2>1. /\ kpc' = "idle" /\ batch' = {} /\ executor' \in {executor, None}
        /\ unsent' = {}
        /\ UNCHANGED << poolVars, ticks, workVars, closeVars, callVars, pc, seen >>
    BY <1>5 DEF SubmitRaises, EndTick, AbortTick
  <2>. QED  BY <2>1
<1>. QED  BY <1>1, <1>2, <1>3, <1>4, <1>5 DEF KernelThread

LEMMA WorkerType ==
  ASSUME TypeOK, SeenInv, program' = program, NEW j \in Job, Worker(j)
  PROVE  TypeOK' /\ SeenInv'
BY ZenonT(60) DEF Worker, StartStep, Call, CallReturns, EndStep, SetJob, TypeOK, SeenInv, tickVars,
       poolVars, closeVars, callVars

LEMMA ThreadType ==
  ASSUME TypeOK, SeenInv, program' = program, NEW t \in Thread,
         \/ t \in Caller /\ (ShutdownWait(t) \/ ShutdownNoWait(t))
         \/ Progress(t) \/ CtrlC(t)
  PROVE  TypeOK' /\ SeenInv'
<1>. USE ShutdownAssumption DEF SeenInv, Goto, tickVars, poolVars, workVars, closeVars, callVars
<1>0. /\ TypeOK /\ program.calls \in Nat
      /\ Caller \subseteq Thread /\ Deferred \subseteq Thread /\ None \notin Thread
  BY ProgramBounds DEF TypeOK, Thread
<1>1. CASE t \in Caller /\ ShutdownWait(t)
  <2>1. /\ calls' \in 0..program.calls /\ mine' \in [Caller -> Deferred \cup {None}]
        /\ handle' = None /\ pc' = [pc EXCEPT ![t] = "took"]
    BY <1>0, <1>1 DEF ShutdownWait, TypeOK
  <2>. QED  BY <1>0, <1>1, <2>1 DEF ShutdownWait, TypeOK
<1>2. CASE t \in Caller /\ ShutdownNoWait(t)
  <2>1. calls' \in 0..program.calls
    BY <1>0, <1>2 DEF ShutdownNoWait, TypeOK
  <2>2. \/ UNCHANGED << handle, pc >>
        \/ \E d \in Deferred : handle' = d /\ pc' = [pc EXCEPT ![d] = "entered"]
    BY <1>2 DEF ShutdownNoWait
  <2>. QED  BY <1>0, <1>2, <2>1, <2>2 DEF ShutdownNoWait, TypeOK
<1>. USE DEF TypeOK
<1>3. CASE t \in Caller /\ (JoinOrDo(t) \/ Joined(t))
  BY <1>3, ZenonT(60) DEF JoinOrDo, Joined
<1>4. CASE ReadPool(t)
  BY <1>4 DEF ReadPool
\* From here on a thread has found its pool, or is done with it.
<1>5a. ASSUME StartClosing(t),
               UNCHANGED << tickVars, pools, stopped, workVars, callVars, seen, program >>,
               pool' \in {pool, None}
        PROVE  TypeOK' /\ SeenInv'
  <2>1. /\ pc' = [pc EXCEPT ![t] = "closing"] /\ todo' = [todo EXCEPT ![t] = Resource]
        /\ broken' = [broken EXCEPT ![t] = FALSE] /\ attempted' = attempted
    BY <1>5a DEF StartClosing
  <2>2. /\ pc' \in [Thread -> {"idle", "took", "joining", "entered", "read", "stored",
                                "waiting", "closing", "ended"}]
        /\ todo' \in [Thread -> SUBSET Resource] /\ broken' \in [Thread -> BOOLEAN]
        /\ \A s \in Thread : pc'[s] \in {"stored", "waiting"} => pc'[s] = pc[s]
    BY <2>1
  <2>. QED  BY <1>5a, <2>1, <2>2
<1>5. CASE StorePool(t)
  <2>1. CASE seen[t] = None
    BY <1>5, <1>5a, <2>1 DEF StorePool
  <2>2. CASE seen[t] # None
    <3>1. pc' = [pc EXCEPT ![t] = "stored"] /\ UNCHANGED closeVars /\ pool' = None
      BY <1>5, <2>2 DEF StorePool
    <3>. QED  BY <1>5, <2>2, <3>1 DEF StorePool
  <2>. QED  BY <2>1, <2>2
<1>6. CASE StopPool(t)
  BY <1>6 DEF StopPool, Held
<1>7. CASE Await(t) \/ Interrupted(t)
  BY <1>7, <1>5a DEF Await, Interrupted
<1>8. ASSUME NEW r \in Resource, CloseOne(t, r) PROVE TypeOK' /\ SeenInv'
  BY <1>8 DEF CloseOne, LeftAfter
<1>9. CASE Finish(t)
  BY <1>9 DEF Finish
<1>10. CASE JoinInterrupted(t)
  <2>1. forsaken' \subseteq Deferred /\ pc' = [pc EXCEPT ![t] = "idle"]
    BY <1>10 DEF JoinInterrupted
  <2>. QED  BY <1>10, <2>1 DEF JoinInterrupted
<1>11. CASE ClosingInterrupted(t)
  <2>1. todo' \in [Thread -> SUBSET Resource]
    BY <1>11 DEF ClosingInterrupted
  <2>. QED  BY <1>11, <2>1 DEF ClosingInterrupted
<1>. QED
  BY <1>1, <1>2, <1>3, <1>4, <1>5, <1>6, <1>7, <1>8, <1>9, <1>10, <1>11 DEF Progress, CtrlC

\* Every variable keeps its type, and no pool is shut down that was not found,
\* whatever the program and however many threads call shutdown().
THEOREM TypeCorrect == Spec => [](TypeOK /\ SeenInv)
<1>1. ASSUME TypeOK, SeenInv, [Next]_vars PROVE TypeOK' /\ SeenInv'
  <2>1. CASE UNCHANGED vars
    BY <1>1, <2>1
    DEF vars, TypeOK, SeenInv, tickVars, poolVars, workVars, closeVars, callVars
  <2>. QED
    BY <1>1, <2>1, TickType, WorkerType, ThreadType DEF Next, Rest, Thread
<1>. QED  BY InitType, <1>1, PTL DEF Spec

-----------------------------------------------------------------------------
(* One thread at a time shuts down.                                        *)

\* The program calls shutdown() from one thread.  From two, one may find the
\* pool taken by the other, and close under the steps that the other awaits.
OneCaller == \A s, t \in Caller : s = t

Working(t) == pc[t] \in {"entered", "read", "stored", "waiting", "closing"}

\* A deferred thread at work that is not forsaken is known to the kernel, or to the
\* caller that took the handle to join it; a caller that has taken the handle
\* leaves none behind, and one that does the work itself has nobody to join.
\* Without Ctrl-C none is forsaken.
SoloInv ==
  /\ ~program.interrupts => forsaken = {}
  /\ \A d \in Deferred : pc[d] \notin {"took", "joining"}
  /\ \A d \in Deferred \ forsaken : Running(d) =>
       handle = d \/ \E t \in Caller : mine[t] = d /\ pc[t] \in {"took", "joining"}
  /\ \A t \in Caller : pc[t] # "idle" => handle = None /\ pc[t] # "ended"
  /\ \A t \in Caller, d \in Deferred \ forsaken : Working(t) => ~Running(d)

LEMMA SoloInit == Init => SoloInv
BY DEF Init, SoloInv, Running, Working, Thread

\* A thread that works on, or ends, meets none that starts.
LEMMA SoloKeeps ==
  ASSUME TypeOK, SoloInv, UNCHANGED << handle, mine, forsaken, program >>, NEW t \in Thread,
         pc' = [pc EXCEPT ![t] = pc'[t]], Working(t),
         \/ pc'[t] \in {"read", "stored", "waiting", "closing"}
         \/ pc'[t] = (IF t \in Caller THEN "idle" ELSE "ended")
  PROVE  SoloInv'
<1>1. Caller \subseteq Thread /\ Deferred \subseteq Thread /\ Caller \cap Deferred = {}
      /\ pc \in [Thread -> {"idle", "took", "joining", "entered", "read", "stored",
                            "waiting", "closing", "ended"}]
  BY ShutdownAssumption DEF Thread, TypeOK
<1>2. \A s \in Thread : s # t => pc'[s] = pc[s]
  BY <1>1
<1>3. \A d \in Deferred : Running(d)' => Running(d)
  BY <1>1, <1>2 DEF Running, Working
<1>4. \A s \in Caller : Working(s)' => Working(s)
  BY <1>1, <1>2 DEF Working
<1>5. \A s \in Caller : /\ pc[s] \in {"took", "joining"} => pc'[s] = pc[s]
                        /\ pc[s] = "idle" => pc'[s] = "idle"
                        /\ pc'[s] = "ended" => pc[s] = "ended"
  BY <1>1, <1>2 DEF Working
<1>6. \A d \in Deferred : pc'[d] \notin {"took", "joining"}
  BY <1>1, <1>2 DEF SoloInv
<1>. QED  BY <1>3, <1>4, <1>5, <1>6 DEF SoloInv

LEMMA SoloStep ==
  ASSUME OneCaller, TypeOK, TypeOK', SoloInv, [Next]_vars
  PROVE  SoloInv'
<1>. USE DEF callVars
<1>0. /\ Caller \subseteq Thread /\ Deferred \subseteq Thread /\ Caller \cap Deferred = {}
      /\ Thread = Caller \cup Deferred /\ None \notin Thread
      /\ pc \in [Thread -> {"idle", "took", "joining", "entered", "read", "stored",
                            "waiting", "closing", "ended"}]
      /\ handle \in Deferred \cup {None} /\ mine \in [Caller -> Deferred \cup {None}]
  BY ShutdownAssumption DEF Thread, TypeOK
<1>p. program' = program
  BY DEF Next, Rest, vars
<1>1. ASSUME UNCHANGED << pc, handle, mine, forsaken >> PROVE SoloInv'
  BY <1>p, <1>1 DEF SoloInv, Running, Working
<1>2. CASE \/ UNCHANGED vars \/ \E S \in SUBSET Agent : StartTick(S)
           \/ KernelThread \/ (\E a \in Agent : AbortTick(a)) \/ \E j \in Job : Worker(j)
  BY <1>1, <1>2
  DEF vars, StartTick, KernelThread, CheckPool, FetchPool, SubmitRaises, EndTick, Submit,
      AbortTick, Worker, StartStep, Call, CallReturns, EndStep, SetJob
<1>3. ASSUME NEW t \in Caller, ShutdownWait(t) PROVE SoloInv'
  <2>1. /\ pc[t] = "idle" /\ mine' = [mine EXCEPT ![t] = handle] /\ handle' = None
        /\ pc' = [pc EXCEPT ![t] = "took"] /\ forsaken' = forsaken
    BY <1>3 DEF ShutdownWait, Goto
  <2>. QED  BY <1>0, <1>p, <2>1 DEF OneCaller, SoloInv, Running, Working
<1>4. ASSUME NEW t \in Caller, JoinOrDo(t) PROVE SoloInv'
  <2>1. /\ pc[t] = "took" /\ UNCHANGED << handle, mine, forsaken >>
        /\ pc' = [pc EXCEPT ![t] = IF InProgress(mine[t]) THEN "joining" ELSE "entered"]
    BY <1>4 DEF JoinOrDo, Goto
  <2>2. CASE InProgress(mine[t])
    BY <1>0, <2>1, <2>2, <1>p DEF OneCaller, SoloInv, Running, Working
  <2>3. CASE ~InProgress(mine[t])
    <3>1. \A d \in Deferred \ forsaken : ~Running(d)
      BY <1>0, <2>1, <2>3 DEF OneCaller, SoloInv, InProgress
    <3>. QED  BY <1>0, <2>1, <2>3, <3>1, <1>p DEF OneCaller, SoloInv, Running, Working
  <2>. QED  BY <2>2, <2>3
<1>5. ASSUME NEW t \in Caller, Joined(t) PROVE SoloInv'
  <2>1. /\ pc[t] = "joining" /\ UNCHANGED << handle, mine, forsaken >>
        /\ pc' = [pc EXCEPT ![t] = "idle"] /\ ~Running(mine[t])
    BY <1>5 DEF Joined, Goto
  <2>2. \A d \in Deferred \ forsaken : ~Running(d)
    BY <1>0, <2>1 DEF OneCaller, SoloInv
  <2>. QED  BY <1>0, <2>1, <2>2, <1>p DEF OneCaller, SoloInv, Running, Working
<1>6. ASSUME NEW t \in Caller, ShutdownNoWait(t) PROVE SoloInv'
  <2>1. pc[t] = "idle" /\ UNCHANGED << mine, forsaken >> /\ \A s \in Caller : pc[s] = "idle"
    BY <1>6 DEF ShutdownNoWait, OneCaller
  <2>2. CASE InProgress(handle)
    BY <1>1, <1>6, <2>1, <2>2 DEF ShutdownNoWait
  <2>3. CASE ~InProgress(handle)
    <3>1. PICK d \in Deferred : pc[d] = "idle" /\ handle' = d /\ pc' = [pc EXCEPT ![d] = "entered"]
      BY <1>6, <2>3 DEF ShutdownNoWait, Goto
    <3>2. \A e \in Deferred \ forsaken : ~Running(e)
      BY <1>0, <2>1, <2>3 DEF SoloInv, InProgress
    <3>. QED  BY <1>0, <2>1, <3>1, <3>2, <1>p DEF SoloInv, Running, Working
  <2>. QED  BY <2>2, <2>3
<1>7. ASSUME NEW t \in Thread,
             \/ ReadPool(t) \/ StorePool(t) \/ StopPool(t) \/ Await(t) \/ Finish(t)
             \/ Interrupted(t)
      PROVE  SoloInv'
  <2>1. /\ UNCHANGED << handle, mine, forsaken >> /\ pc' = [pc EXCEPT ![t] = pc'[t]] /\ Working(t)
        /\ \/ pc'[t] \in {"read", "stored", "waiting", "closing"}
           \/ pc'[t] = (IF t \in Caller THEN "idle" ELSE "ended")
    BY <1>0, <1>7 DEF ReadPool, StorePool, StopPool, Await, Finish, Interrupted, StartClosing,
                      Goto, Working
  <2>. QED  BY <1>p, <2>1, SoloKeeps
<1>8. ASSUME NEW t \in Thread, NEW r \in Resource, CloseOne(t, r) PROVE SoloInv'
  BY <1>1, <1>8 DEF CloseOne
<1>9. ASSUME NEW t \in Thread, JoinInterrupted(t) PROVE SoloInv'
  <2>1. /\ program.interrupts /\ t \in Caller /\ pc[t] \in {"took", "joining"}
        /\ UNCHANGED << handle, mine >> /\ pc' = [pc EXCEPT ![t] = "idle"]
        /\ forsaken' = forsaken \cup ({mine[t]} \ {None})
    BY <1>9 DEF JoinInterrupted, Goto
  <2>2. \A d \in Deferred \ forsaken' : ~Running(d)
    BY <1>0, <2>1 DEF OneCaller, SoloInv
  <2>. QED  BY <1>0, <1>p, <2>1, <2>2 DEF OneCaller, SoloInv, Running, Working
<1>10. ASSUME NEW t \in Thread, ClosingInterrupted(t) PROVE SoloInv'
  BY <1>1, <1>10 DEF ClosingInterrupted
<1>11. ASSUME NEW t \in Thread, Progress(t) \/ CtrlC(t) PROVE SoloInv'
  BY <1>4, <1>5, <1>7, <1>8, <1>9, <1>10, <1>11 DEF Progress, CtrlC
<1>. QED  BY <1>2, <1>3, <1>6, <1>11 DEF Next, Rest

\* With one caller that is not interrupted there is never a second thread at work.
Solo == \A s, t \in Thread : Working(s) /\ Working(t) => s = t

LEMMA SoloThread ==
  ASSUME OneCaller, TypeOK, SoloInv, Careful
  PROVE  Solo
<1>1. Caller \subseteq Thread /\ Deferred \subseteq Thread /\ Caller \cap Deferred = {}
      /\ Thread = Caller \cup Deferred /\ None \notin Thread
  BY ShutdownAssumption DEF Thread
<1>2. \A t \in Thread : Working(t) => Running(t)
  BY DEF Working, Running
<1>f. forsaken = {}
  BY DEF SoloInv, Careful
<1>3. \A d, e \in Deferred : Running(d) /\ Running(e) => d = e
  BY <1>1, <1>f DEF SoloInv, OneCaller
<1>4. \A t \in Caller, d \in Deferred : ~(Working(t) /\ Working(d))
  BY <1>1, <1>2, <1>f DEF SoloInv
<1>. QED  BY <1>1, <1>2, <1>3, <1>4 DEF Solo, OneCaller

LEMMA AtMostOne ==
  ASSUME NEW S, \A x, y \in S : x = y
  PROVE  Cardinality(S) <= 1
<1>1. CASE S = {}
  BY <1>1, FS_EmptySet
<1>2. CASE S # {}
  <2>1. PICK x : x \in S
    BY <1>2
  <2>2. S = {x}
    BY <2>1
  <2>. QED  BY <2>2, FS_Singleton
<1>. QED  BY <1>1, <1>2

LEMMA SoloAlways ==
  ASSUME OneCaller
  PROVE  Spec => [](TypeOK /\ SeenInv /\ SoloInv)
<1>1. TypeOK /\ TypeOK' /\ SoloInv /\ [Next]_vars => SoloInv'
  BY SoloStep
<1>. QED  BY SoloInit, TypeCorrect, <1>1, PTL DEF Spec

\* One thread at a time closes the resources of a careful program, the caller of
\* shutdown(wait=True) or a deferred thread (shutdown()'s docstring).
THEOREM ClosesAlone ==
  ASSUME OneCaller
  PROVE  Spec => []OneCloser
<1>1. TypeOK /\ SoloInv => OneCloser
  <2>. SUFFICES ASSUME TypeOK, SoloInv, Careful
                PROVE  Cardinality({t \in Thread : pc[t] = "closing"}) <= 1
    BY DEF OneCloser
  <2>. QED  BY SoloThread, AtMostOne DEF Solo, Working
<1>. QED  BY SoloAlways, <1>1, PTL

\* One caller starts no second background thread while one runs, at whatever
\* moments it asks for one, joins one, takes its handle or is interrupted: but for
\* the threads that it was interrupted in joining.
THEOREM DefersOnce ==
  ASSUME OneCaller
  PROVE  Spec => []OneDeferred
<1>1. TypeOK /\ SoloInv => OneDeferred
  <2>. SUFFICES ASSUME TypeOK, SoloInv
                PROVE  Cardinality({d \in Deferred \ forsaken : Running(d)}) <= 1
    BY DEF OneDeferred
  <2>1. \A d, e \in Deferred \ forsaken : Running(d) /\ Running(e) => d = e
    BY ShutdownAssumption DEF SoloInv, OneCaller, Thread
  <2>. QED  BY <2>1, AtMostOne
<1>. QED  BY SoloAlways, <1>1, PTL

-----------------------------------------------------------------------------
(* Nothing is closed under a step of a careful program.                    *)

\* A tick of one agent runs on the kernel's own thread, where no shutdown waits
\* for it: who may shut down in a tick has ticks of several agents.
Pooled == \A p \in Programs : p.when = "in a tick" => 1 \notin p.sizes

NoShutdown == \A t \in Thread : ~Running(t)
NoStep     == \A j \in Job : job[j] = "none"

\* Where a step that is not over is to be found: on the kernel's thread, in the
\* pool, or in one that a shutdown has taken out and waits for.
Inline(j) ==
  /\ home[j] = 0 /\ kpc = "collect" /\ program.when = "between ticks"
  /\ batch = {j[1]} /\ ticks = j[2]
InPool(j)  == home[j] = pool
Awaited(j) == \E t \in Thread : pc[t] \in {"stored", "waiting"} /\ seen[t] = home[j]

\* The kernel's thread, while agents are handed out, has the pool to itself;
\* whoever took a pool out leaves none, and closes when no step is left.
CareInv ==
  /\ kpc \in {"check", "fetch", "submit"} => NoShutdown
  /\ kpc = "collect" /\ program.when = "between ticks" => NoShutdown
  /\ kpc = "fetch" => pool # None
  /\ kpc = "submit" => pool # None /\ executor = pool
  /\ \A t \in Thread : /\ pc[t] = "read" => seen[t] = pool
                       /\ pc[t] \in {"stored", "waiting", "closing"} => pool = None
  /\ \A j \in Job : job[j] # "none" => Inline(j) \/ InPool(j) \/ Awaited(j)
  /\ (\E t \in Thread : pc[t] = "closing") => NoStep

\* A step has no home and no part before its tick.
FutureInv == \A j \in Job : j[2] > ticks => home[j] = 0 /\ job[j] = "none"

LEMMA JobParts ==
  ASSUME TypeOK, NEW j \in Job
  PROVE  /\ j[1] \in Agent /\ j[2] \in 1..MaxTicks /\ j = <<j[1], j[2]>>
         /\ home[j] \in Nat /\ home[j] # None
BY ShutdownAssumption DEF Job, TypeOK

LEMMA CareInit == Init => CareInv /\ FutureInv
BY DEF Init, CareInv, FutureInv, NoStep, NoShutdown, Running

LEMMA FutureStep ==
  ASSUME TypeOK, FutureInv, [Next]_vars
  PROVE  FutureInv'
<1>. USE DEF FutureInv
<1>0. ticks \in Nat /\ \A j \in Job : j[2] \in Nat
  BY ShutdownAssumption DEF TypeOK, Job
<1>1. ASSUME NEW S \in SUBSET Agent, StartTick(S) PROVE FutureInv'
  <2>1. /\ ticks' = ticks + 1 /\ home' = home
        /\ \A j \in Job : job'[j] = job[j] \/ j \in Now(S)
    BY <1>1 DEF StartTick
  <2>2. \A j \in Now(S) : j[2] = ticks'
    BY DEF Now
  <2>. QED  BY <1>0, <2>1, <2>2
<1>2. ASSUME NEW a \in Agent, Submit(a) PROVE FutureInv'
  <2>1. /\ ticks' = ticks
        /\ \A j \in Job : j # <<a, ticks>> => job'[j] = job[j] /\ home'[j] = home[j]
    BY <1>2 DEF Submit, TypeOK
  <2>2. \A j \in Job : j[2] > ticks => j # <<a, ticks>>
    BY <1>0
  <2>. QED  BY <2>1, <2>2
<1>3. ASSUME NEW j \in Job, Worker(j) PROVE FutureInv'
  <2>1. /\ UNCHANGED << ticks, home >> /\ job[j] # "none" /\ job' = [job EXCEPT ![j] = job'[j]]
    BY <1>3, ShutdownAssumption
    DEF Worker, StartStep, Call, CallReturns, EndStep, SetJob, tickVars, TypeOK
  <2>. QED  BY <2>1 DEF TypeOK
<1>4. ASSUME UNCHANGED << ticks, home, job >> PROVE FutureInv'
  BY <1>4
<1>5. CASE UNCHANGED vars \/ CheckPool \/ FetchPool \/ SubmitRaises \/ EndTick
           \/ \E a \in Agent : AbortTick(a)
  BY <1>4, <1>5 DEF vars, CheckPool, FetchPool, SubmitRaises, EndTick, AbortTick, tickVars,
                    workVars
<1>6. ASSUME NEW t \in Thread, \/ ShutdownWait(t) \/ ShutdownNoWait(t)
                               \/ Progress(t) \/ CtrlC(t)
      PROVE  FutureInv'
  BY <1>4, <1>6
  DEF ShutdownWait, ShutdownNoWait, Progress, JoinOrDo, Joined, ReadPool, StorePool, StopPool,
      Await, Finish, CloseOne, CtrlC, JoinInterrupted, Interrupted, ClosingInterrupted, tickVars,
      workVars
<1>. QED
  BY <1>1, <1>2, <1>3, <1>5, <1>6 DEF Next, Rest, KernelThread, Thread

\* What the kernel's thread does with the agents of a tick.
LEMMA CareTick ==
  ASSUME Pooled, TypeOK, TypeOK', SeenInv, FutureInv, Careful, CareInv, program' = program,
         \/ \E S \in SUBSET Agent : StartTick(S)
         \/ KernelThread \/ \E a \in Agent : AbortTick(a)
  PROVE  CareInv'
<1>. USE DEF poolVars, workVars, closeVars
<1>0. /\ UNCHANGED << pc, seen >> /\ (NoShutdown' <=> NoShutdown) /\ pools \in Nat
      /\ \A t \in Thread : Running(t)' <=> Running(t)
  BY DEF StartTick, KernelThread, CheckPool, FetchPool, SubmitRaises, EndTick, Submit, AbortTick,
         NoShutdown, Running, TypeOK
<1>1. NoShutdown => \A t \in Thread :
        pc[t] \notin {"read", "stored", "waiting", "closing"}
  BY DEF NoShutdown, Running
<1>2. ASSUME NEW S \in SUBSET Agent, StartTick(S) PROVE CareInv'
  <2>1. /\ kpc = "idle" /\ NoShutdown /\ kpc' \in {"check", "collect"}
        /\ ticks' = ticks + 1 /\ batch' = S /\ UNCHANGED << home, pool >>
        /\ \A j \in Job : job'[j] = job[j] \/ (j \in Now(S) /\ Cardinality(S) < 2 /\ kpc' = "collect")
    BY <1>2 DEF StartTick, MayTick, Careful, NoShutdown, Running
  <2>2. ASSUME NEW j \in Job, job'[j] # "none" PROVE Inline(j)' \/ InPool(j)'
    <3>1. CASE job'[j] = job[j]
      BY <1>1, <2>1, <2>2, <3>1 DEF CareInv, Inline, InPool, Awaited
    <3>2. CASE j \in Now(S) /\ Cardinality(S) < 2 /\ kpc' = "collect"
      <4>1. j[1] \in S /\ j[2] = ticks'
        BY <3>2 DEF Now
      <4>2. IsFiniteSet(S) /\ Cardinality(S) \in Nat
        BY ShutdownAssumption, FS_Subset, FS_CardinalityType
      <4>3. Cardinality(S) = 1 /\ S = {j[1]}
        <5>1. Cardinality(S) # 0
          BY <4>1, <4>2, FS_EmptySet
        <5>2. Cardinality(S) = 1
          BY <3>2, <4>2, <5>1
        <5>3. PICK x : S = {x}
          BY <4>2, <5>2, FS_Singleton
        <5>. QED  BY <4>1, <5>2, <5>3
      <4>4. 1 \in program.sizes
        BY <1>2, <4>3 DEF StartTick
      <4>5. program.when = "between ticks"
        BY <4>4, ProgramBounds DEF Pooled, Careful, TypeOK
      <4>6. home[j] = 0
        BY <2>1, <4>1 DEF FutureInv, TypeOK
      <4>. QED  BY <2>1, <3>2, <4>1, <4>3, <4>5, <4>6 DEF Inline
    <3>. QED  BY <2>1, <3>1, <3>2
  <2>. QED  BY <1>0, <1>1, <2>1, <2>2 DEF CareInv
<1>3. CASE CheckPool
  <2>1. /\ kpc = "check" /\ kpc' = "fetch" /\ UNCHANGED << job, home, executor >>
        /\ pool' = IF pool = None THEN pools + 1 ELSE pool
    BY <1>3 DEF CheckPool
  <2>2. pool' # None /\ NoShutdown
    BY <1>0, <2>1, ShutdownAssumption DEF CareInv
  <2>3. ASSUME NEW j \in Job, job'[j] # "none" PROVE InPool(j)'
    BY <1>1, <2>1, <2>2, <2>3, JobParts DEF CareInv, Inline, InPool, Awaited
  <2>. QED  BY <1>0, <1>1, <2>1, <2>2, <2>3 DEF CareInv
<1>4. CASE FetchPool
  BY <1>0, <1>1, <1>4 DEF FetchPool, CareInv, Inline, InPool, Awaited, NoStep
<1>5. ASSUME NEW a \in Agent, Submit(a) PROVE CareInv'
  <2>1. /\ kpc = "submit" /\ kpc' \in {"collect", "check"} /\ pool' = pool
        /\ \A j \in Job : j # <<a, ticks>> => job'[j] = job[j] /\ home'[j] = home[j]
        /\ \A j \in Job : j = <<a, ticks>> => home'[j] = executor
    BY <1>5 DEF Submit, TypeOK
  <2>2. NoShutdown /\ executor = pool
    BY <2>1 DEF CareInv
  <2>3. ASSUME NEW j \in Job, job'[j] # "none" PROVE InPool(j)'
    BY <1>1, <2>1, <2>2, <2>3 DEF CareInv, Inline, InPool, Awaited
  <2>. QED  BY <1>0, <1>1, <2>1, <2>2, <2>3 DEF CareInv
\* No tick ends that has a step on the kernel's own thread.
<1>6. CASE SubmitRaises \/ EndTick \/ \E a \in Agent : AbortTick(a)
  <2>1. kpc' = "idle" /\ UNCHANGED << job, home, pool >>
    BY <1>6 DEF SubmitRaises, EndTick, AbortTick
  <2>2. ASSUME NEW j \in Job, job[j] # "none", Inline(j) PROVE FALSE
    BY <1>6, <2>2, JobParts DEF SubmitRaises, EndTick, AbortTick, Inline
  <2>. QED  BY <1>0, <2>1, <2>2, ZenonT(60) DEF CareInv, InPool, Awaited, NoStep
<1>. QED  BY <1>2, <1>3, <1>4, <1>5, <1>6 DEF KernelThread

\* A step that is over starts nothing.
LEMMA CareWorker ==
  ASSUME TypeOK, CareInv, program' = program, NEW j \in Job, Worker(j)
  PROVE  CareInv'
<1>1. /\ UNCHANGED << kpc, executor, batch, ticks, pool, home, pc, seen >>
      /\ job[j] # "none" /\ \A i \in Job : job'[i] # "none" => job[i] # "none"
  BY ShutdownAssumption
  DEF Worker, StartStep, Call, CallReturns, EndStep, SetJob, tickVars, poolVars, TypeOK
<1>. QED
  BY <1>1 DEF CareInv, NoShutdown, NoStep, Running, Inline, InPool, Awaited

\* What a shutdown does with the pool.
LEMMA CareThread ==
  ASSUME TypeOK, SeenInv, Solo, Careful, CareInv, program' = program, NEW t \in Thread,
         \/ t \in Caller /\ (ShutdownWait(t) \/ ShutdownNoWait(t))
         \/ Progress(t) \/ CtrlC(t)
  PROVE  CareInv'
<1>. USE DEF tickVars, workVars, callVars, Goto
<1>0. /\ pc \in [Thread -> {"idle", "took", "joining", "entered", "read", "stored",
                            "waiting", "closing", "ended"}]
      /\ seen \in [Thread -> (1..pools) \cup {None}]
      /\ Caller \subseteq Thread /\ Deferred \subseteq Thread
  BY DEF TypeOK, Thread
\* A step is still in its place when no pool is taken out.
<1>1. ASSUME UNCHANGED << kpc, executor, batch, ticks, job, home, pool, seen >>,
             \A s \in Thread :
               \/ pc'[s] = pc[s]
               \/ {pc[s], pc'[s]} \cap {"read", "stored", "waiting", "closing"} = {},
             NoShutdown => \/ NoShutdown'
                           \/ kpc = "idle" \/ (kpc = "collect" /\ program.when # "between ticks")
      PROVE  CareInv'
  BY <1>1 DEF CareInv, Inline, InPool, Awaited, NoStep
<1>2. ASSUME t \in Caller, ShutdownWait(t) \/ ShutdownNoWait(t) PROVE CareInv'
  <2>1. /\ UNCHANGED << kpc, executor, batch, ticks, job, home, pool, seen >>
        /\ \E s \in Thread, place \in {"took", "entered"} :
             \/ pc[s] = "idle" /\ pc' = [pc EXCEPT ![s] = place]
             \/ pc' = pc
    BY <1>0, <1>2 DEF ShutdownWait, ShutdownNoWait, poolVars
  <2>2. kpc = "idle" \/ (kpc = "collect" /\ program.when # "between ticks")
    <3>1. MayShutDown
      BY <1>2 DEF ShutdownWait, ShutdownNoWait
    <3>. QED  BY <3>1 DEF MayShutDown, Careful
  <2>. QED  BY <1>0, <1>1, <2>1, <2>2
<1>3. CASE t \in Caller /\ (JoinOrDo(t) \/ Joined(t))
  <2>1. /\ UNCHANGED << kpc, executor, batch, ticks, job, home, pool, seen >>
        /\ pc[t] \in {"took", "joining"} /\ pc' = [pc EXCEPT ![t] = pc'[t]]
        /\ pc'[t] \in {"joining", "entered", "idle"}
    BY <1>0, <1>3 DEF JoinOrDo, Joined, poolVars
  <2>2. ~NoShutdown
    BY <2>1 DEF NoShutdown, Running
  <2>. QED  BY <1>0, <1>1, <2>1, <2>2
\* While a thread works, it is the only one, and no step is on the kernel's thread.
<1>4. ASSUME Working(t)
      PROVE  /\ \A s \in Thread : Working(s) => s = t
             /\ kpc \notin {"check", "fetch", "submit"}
             /\ kpc = "collect" => program.when # "between ticks"
             /\ \A j \in Job : ~Inline(j)
  BY <1>4 DEF Solo, Working, CareInv, NoShutdown, Running, Inline
<1>5. CASE ReadPool(t)
  <2>1. /\ Working(t) /\ pc[t] = "entered" /\ seen' = [seen EXCEPT ![t] = pool]
        /\ pc' = [pc EXCEPT ![t] = "read"]
        /\ UNCHANGED << kpc, executor, batch, ticks, job, home, pool >>
    BY <1>5 DEF ReadPool, Working, poolVars
  <2>. QED
    BY <1>0, <1>4, <2>1 DEF CareInv, InPool, Awaited, Inline, NoStep
<1>6. CASE StorePool(t)
  <2>1. /\ Working(t) /\ pc[t] = "read" /\ pool' = None /\ seen[t] = pool
        /\ UNCHANGED << kpc, executor, batch, ticks, job, home, seen >>
        /\ pc' = [pc EXCEPT ![t] = IF seen[t] = None THEN "closing" ELSE "stored"]
    BY <1>6 DEF StorePool, StartClosing, Working, CareInv
  <2>2. \A j \in Job : ~Awaited(j)
    BY <1>4, <2>1 DEF Awaited, Working
  <2>3. CASE seen[t] = None
    <3>1. NoStep
      BY <1>4, <2>1, <2>2, <2>3, JobParts DEF CareInv, InPool, NoStep
    <3>. QED  BY <1>0, <1>4, <2>1, <2>3, <3>1 DEF CareInv, NoStep, Working
  <2>4. CASE seen[t] # None
    <3>1. \A j \in Job : job[j] # "none" => Awaited(j)'
      BY <1>0, <1>4, <2>1, <2>2, <2>4 DEF CareInv, InPool, Awaited
    <3>. QED  BY <1>0, <1>4, <2>1, <2>4, <3>1 DEF CareInv, Working
  <2>. QED  BY <2>3, <2>4
<1>7. CASE StopPool(t)
  <2>1. /\ Working(t) /\ pc[t] = "stored" /\ pc' = [pc EXCEPT ![t] = "waiting"]
        /\ UNCHANGED << kpc, executor, batch, ticks, job, home, pool, seen >>
    BY <1>7 DEF StopPool, Working
  <2>. QED
    BY <1>0, <1>4, <2>1 DEF CareInv, InPool, Awaited, Inline, NoStep
<1>8. CASE Await(t)
  <2>1. /\ Working(t) /\ pc[t] = "waiting" /\ pc' = [pc EXCEPT ![t] = "closing"]
        /\ UNCHANGED << kpc, executor, batch, ticks, job, home, pool, seen >>
        /\ WorkersDone(seen[t])
    BY <1>8 DEF Await, StartClosing, Working, poolVars, Held
  <2>2. NoStep
    <3>1. \A j \in Job : Awaited(j) => home[j] = seen[t]
      BY <1>4, <2>1 DEF Awaited, Working
    <3>2. pool = None
      BY <2>1 DEF CareInv
    <3>. QED  BY <1>4, <2>1, <3>1, <3>2, JobParts DEF CareInv, InPool, WorkersDone, NoStep
  <2>. QED  BY <1>0, <1>4, <2>1, <2>2 DEF CareInv, NoStep, Working
<1>9. CASE CtrlC(t)
  BY <1>9 DEF CtrlC, JoinInterrupted, Interrupted, ClosingInterrupted, Careful
<1>10. ASSUME NEW r \in Resource, CloseOne(t, r) PROVE CareInv'
  BY <1>10, <1>1 DEF CloseOne, poolVars, NoShutdown, Running
<1>11. CASE Finish(t)
  <2>1. /\ pc[t] = "closing" /\ pc' = [pc EXCEPT ![t] = IF t \in Caller THEN "idle" ELSE "ended"]
        /\ UNCHANGED << kpc, executor, batch, ticks, job, home, pool, seen >>
        /\ NoStep /\ Working(t)
    BY <1>11 DEF Finish, poolVars, CareInv, Working
  <2>. QED  BY <1>0, <1>4, <2>1 DEF CareInv, NoStep
<1>. QED
  BY <1>2, <1>3, <1>5, <1>6, <1>7, <1>8, <1>9, <1>10, <1>11 DEF Progress

LEMMA CareStep ==
  ASSUME OneCaller, Pooled, TypeOK, TypeOK', SeenInv, SoloInv, FutureInv, Careful => CareInv,
         [Next]_vars
  PROVE  (Careful => CareInv)'
<1>1. Careful' <=> Careful
  BY DEF Next, Rest, vars, Careful
<1>2. CASE UNCHANGED vars
  BY <1>1, <1>2
  DEF vars, tickVars, poolVars, workVars, CareInv, NoShutdown, NoStep, Running, Inline, InPool,
      Awaited
<1>3. Careful => Solo
  BY SoloThread
<1>. QED
  BY <1>1, <1>2, <1>3, CareTick, CareWorker, CareThread DEF Next, Rest, Thread

\* A step that is inside a call on a driver or an adapter does not have it closed
\* under it, not one that an aborted tick left behind, for any number of pooled
\* steps and ticks (README "a step still inside a call never meets a closed driver").
THEOREM NothingClosesUnderACall ==
  ASSUME OneCaller, Pooled
  PROVE  Spec => NeverMeetsClosed
<1>. DEFINE Safe == Careful => \A t \in Thread, r \in Resource :
                      r \in todo[t] \ todo'[t] => \A j \in Job : job[j] # r
<1>1. TypeOK /\ FutureInv /\ [Next]_vars => FutureInv'
  BY FutureStep
<1>2. /\ TypeOK /\ TypeOK' /\ SeenInv /\ SoloInv /\ FutureInv /\ (Careful => CareInv)
      /\ [Next]_vars
      => (Careful => CareInv)'
  BY CareStep
<1>3. TypeOK /\ (Careful => CareInv) /\ [Next]_vars => [Safe]_vars
  <2>. SUFFICES ASSUME TypeOK, Careful, CareInv, Next, NEW t \in Thread, NEW r \in Resource,
                       r \in todo[t], r \notin todo'[t], NEW j \in Job
                PROVE  job[j] # r
    BY DEF Safe
  <2>0. \A s \in Thread : ~CtrlC(s)
    BY DEF Careful, CtrlC, JoinInterrupted, Interrupted, ClosingInterrupted
  <2>1. CASE \E s \in Thread, q \in Resource : CloseOne(s, q)
    <3>1. pc[t] = "closing"
      BY <2>1 DEF CloseOne, TypeOK
    <3>. QED  BY <3>1, ShutdownAssumption DEF CareInv, NoStep
  <2>2. CASE \E s \in Thread : StartClosing(s)
    BY <2>2 DEF StartClosing, TypeOK
  <2>3. CASE todo' = todo
    BY <2>3
  <2>. QED
    BY <2>0, <2>1, <2>2, <2>3
    DEF Next, Rest, vars, StartTick, KernelThread, CheckPool, FetchPool, SubmitRaises, EndTick,
        Submit, AbortTick, Worker, StartStep, Call, CallReturns, EndStep, SetJob, ShutdownWait,
        ShutdownNoWait, Progress, JoinOrDo, Joined, ReadPool, StorePool, StopPool, Await, Finish,
        Thread, closeVars
<1>. QED
  BY CareInit, SoloAlways, <1>1, <1>2, <1>3, PTL DEF Spec, NeverMeetsClosed

-----------------------------------------------------------------------------
(* What whoever waited for a shutdown may rely on.                         *)

\* What a thread has not still to close was closed since the last tick began, and
\* what raised is remembered; a caller finds the one that it joined done.
CloseInv ==
  /\ \A t \in Thread : pc[t] = "closing" =>
       /\ Resource \ todo[t] \subseteq attempted
       /\ broken[t] = (\E r \in Failing : r \notin todo[t])
  /\ \A t \in Caller : pc[t] = "joining" =>
       /\ mine[t] # None
       /\ ~Running(mine[t]) => attempted = Resource /\ NoStep

LEMMA CloseInit == Init => CloseInv
BY DEF Init, CloseInv, Thread

LEMMA CloseStep ==
  ASSUME OneCaller, TypeOK, TypeOK', SoloInv, Careful, CareInv, CloseInv, [Next]_vars
  PROVE  CloseInv'
<1>. USE DEF tickVars, poolVars, workVars, closeVars, callVars, Goto
<1>0. /\ pc \in [Thread -> {"idle", "took", "joining", "entered", "read", "stored",
                            "waiting", "closing", "ended"}]
      /\ todo \in [Thread -> SUBSET Resource] /\ broken \in [Thread -> BOOLEAN]
      /\ mine \in [Caller -> Deferred \cup {None}] /\ attempted \subseteq Resource
      /\ Caller \subseteq Thread /\ Deferred \subseteq Thread /\ Caller \cap Deferred = {}
      /\ Failing \subseteq Resource
  BY ShutdownAssumption DEF TypeOK, Thread
<1>1. CASE UNCHANGED vars
  BY <1>1 DEF vars, CloseInv, Running, NoStep
<1>2. CASE \/ \E S \in SUBSET Agent : StartTick(S)
           \/ \E a \in Agent : Submit(a)
  <2>1. NoShutdown /\ pc' = pc
    BY <1>2 DEF StartTick, MayTick, Submit, Careful, NoShutdown, Running, CareInv
  <2>. QED  BY <1>0, <2>1 DEF CloseInv, NoShutdown, Running
<1>3. ASSUME UNCHANGED << pc, todo, broken, attempted, mine >>,
             \A j \in Job : job[j] = "none" => job'[j] = "none"
      PROVE  CloseInv'
  BY <1>3 DEF CloseInv, Running, NoStep
<1>4. ASSUME NEW j \in Job, Worker(j) PROVE CloseInv'
  <2>1. job[j] # "none" /\ job' = [job EXCEPT ![j] = job'[j]]
    BY <1>4, ShutdownAssumption
    DEF Worker, StartStep, Call, CallReturns, EndStep, SetJob, TypeOK
  <2>2. \A i \in Job : job[i] = "none" => job'[i] = "none"
    BY <2>1 DEF TypeOK
  <2>. QED
    BY <1>3, <1>4, <2>2 DEF Worker, StartStep, Call, CallReturns, EndStep, SetJob
<1>5. CASE \/ CheckPool \/ FetchPool \/ SubmitRaises \/ EndTick
           \/ \E a \in Agent : AbortTick(a)
  BY <1>3, <1>5 DEF CheckPool, FetchPool, SubmitRaises, EndTick, AbortTick
<1>6. ASSUME NEW t \in Caller, ShutdownWait(t) \/ ShutdownNoWait(t) PROVE CloseInv'
  <2>1. /\ pc[t] = "idle" /\ UNCHANGED << todo, broken, attempted, job >>
        /\ \E s \in Thread, place \in {"took", "entered"} :
             \/ pc[s] = "idle" /\ pc' = [pc EXCEPT ![s] = place]
             \/ pc' = pc
    BY <1>0, <1>6 DEF ShutdownWait, ShutdownNoWait
  <2>2. \A s \in Thread : pc'[s] \in {"closing", "joining"} => pc[s] = pc'[s]
    BY <1>0, <2>1
  <2>3. \A s \in Caller : pc'[s] # "joining"
    BY <1>0, <2>1, <2>2 DEF OneCaller
  <2>. QED  BY <2>1, <2>2, <2>3 DEF CloseInv
<1>7. ASSUME NEW t \in Caller, JoinOrDo(t) \/ Joined(t) PROVE CloseInv'
  <2>1. /\ UNCHANGED << todo, broken, attempted, job, mine >>
        /\ pc[t] \in {"took", "joining"} /\ pc' = [pc EXCEPT ![t] = pc'[t]]
        /\ pc'[t] \in {"joining", "entered", "idle"}
        /\ pc'[t] = "joining" => mine[t] # None /\ Running(mine[t])
    BY <1>0, <1>7 DEF JoinOrDo, Joined, InProgress
  <2>2. \A s \in Thread : s # t => pc'[s] = pc[s]
    BY <1>0, <2>1
  <2>3. pc'[t] = "joining" => Running(mine[t])'
    BY <1>0, <2>1, <2>2 DEF Running
  <2>. QED  BY <1>0, <2>1, <2>2, <2>3, ZenonT(60) DEF OneCaller, CloseInv
\* A thread that begins to close, or works towards it.
<1>8. ASSUME NEW t \in Thread, \/ ReadPool(t) \/ StorePool(t) \/ StopPool(t)
                               \/ Await(t)
      PROVE  CloseInv'
  <2>1. /\ pc' = [pc EXCEPT ![t] = pc'[t]] /\ UNCHANGED << attempted, job, mine >> /\ Working(t)
        /\ \/ /\ pc'[t] \in {"read", "stored", "waiting"} /\ UNCHANGED << todo, broken >>
           \/ /\ pc'[t] = "closing"
              /\ todo' = [todo EXCEPT ![t] = Resource] /\ broken' = [broken EXCEPT ![t] = FALSE]
    BY <1>0, <1>8
    DEF ReadPool, StorePool, StopPool, Await, StartClosing, Working
  <2>2. \A s \in Thread : s # t => pc'[s] = pc[s] /\ todo'[s] = todo[s] /\ broken'[s] = broken[s]
    BY <1>0, <2>1
  <2>3. pc'[t] = "closing" => /\ todo'[t] = Resource /\ broken'[t] = FALSE
    BY <1>0, <2>1
  <2>4. ASSUME NEW s \in Caller, pc'[s] = "joining"
        PROVE  /\ pc[s] = "joining" /\ mine'[s] = mine[s] /\ mine[s] \in Thread
               /\ Running(mine[s])' <=> Running(mine[s])
    <3>1. pc[s] = "joining" /\ mine[s] \in Thread /\ mine'[s] = mine[s]
      BY <1>0, <2>1, <2>2, <2>4 DEF CloseInv
    <3>2. CASE mine[s] = t
      BY <1>0, <2>1, <3>1, <3>2 DEF Running, Working
    <3>3. CASE mine[s] # t
      BY <2>1, <2>2, <3>1, <3>3 DEF Running
    <3>. QED  BY <3>1, <3>2, <3>3
  <2>. QED  BY <1>0, <2>1, <2>2, <2>3, <2>4, ZenonT(60) DEF CloseInv, NoStep
<1>9. ASSUME NEW t \in Thread, NEW r \in Resource, CloseOne(t, r) PROVE CloseInv'
  <2>1. /\ pc[t] = "closing" /\ r \in todo[t] /\ UNCHANGED << pc, job, mine >>
        /\ todo' = [todo EXCEPT ![t] = @ \ {r}]
        /\ broken' = [broken EXCEPT ![t] = @ \/ r \in Failing]
        /\ attempted' = attempted \cup {r}
    BY <1>9 DEF CloseOne, LeftAfter
  <2>2. broken'[t] = (broken[t] \/ r \in Failing) /\ todo'[t] = todo[t] \ {r}
    BY <1>0, <2>1
  <2>3. \A s \in Thread : s # t => todo'[s] = todo[s] /\ broken'[s] = broken[s]
    BY <1>0, <2>1
  <2>4. broken[t] = (\E q \in Failing : q \notin todo[t])
    BY <2>1 DEF CloseInv
  <2>5. broken'[t] = (\E q \in Failing : q \notin todo'[t])
    BY <2>1, <2>2, <2>4
  <2>6. \A s \in Thread : pc'[s] = "closing" => Resource \ todo'[s] \subseteq attempted'
    BY <1>0, <2>1, <2>2, <2>3 DEF CloseInv
  <2>7. \A s \in Thread : pc'[s] = "closing" => broken'[s] = (\E q \in Failing : q \notin todo'[s])
    BY <2>1, <2>3, <2>5 DEF CloseInv
  <2>8. attempted = Resource => attempted' = Resource
    BY <2>1
  <2>. QED  BY <2>1, <2>6, <2>7, <2>8 DEF CloseInv, Running, NoStep
<1>10. ASSUME NEW t \in Thread, Finish(t) PROVE CloseInv'
  <2>1. /\ pc[t] = "closing" /\ pc' = [pc EXCEPT ![t] = IF t \in Caller THEN "idle" ELSE "ended"]
        /\ todo[t] = {} /\ UNCHANGED << todo, broken, attempted, job, mine >>
    BY <1>10 DEF Finish
  <2>2. attempted = Resource /\ NoStep
    BY <1>0, <2>1 DEF CloseInv, CareInv
  <2>3. \A s \in Thread : s # t => pc'[s] = pc[s]
    BY <1>0, <2>1
  <2>. QED  BY <1>0, <2>1, <2>2, <2>3 DEF CloseInv, NoStep
<1>11. ASSUME NEW t \in Thread, Progress(t) \/ CtrlC(t) PROVE CloseInv'
  <2>1. ~CtrlC(t)
    BY DEF Careful, CtrlC, JoinInterrupted, Interrupted, ClosingInterrupted
  <2>. QED  BY <1>7, <1>8, <1>9, <1>10, <1>11, <2>1 DEF Progress
<1>. QED
  BY <1>1, <1>2, <1>4, <1>5, <1>6, <1>11 DEF Next, Rest, KernelThread

\* When shutdown(wait=True) is over, whether it joined a deferred one or did the
\* work, no step runs, close() was attempted on every resource, and what failed is
\* raised by the one that closed.
THEOREM WaitedMeansClosed ==
  ASSUME OneCaller, Pooled
  PROVE  Spec => WaitMeansClosed
<1>. DEFINE Done == Careful => \A t \in Caller : pc[t] \in {"joining", "closing"} /\ pc'[t] = "idle" =>
              /\ attempted = Resource
              /\ \A j \in Job : job[j] = "none"
              /\ pc[t] = "closing" => broken[t] = (Failing # {})
<1>1. TypeOK /\ FutureInv /\ [Next]_vars => FutureInv'
  BY FutureStep
<1>2. /\ TypeOK /\ TypeOK' /\ SeenInv /\ SoloInv /\ FutureInv /\ (Careful => CareInv)
      /\ [Next]_vars
      => (Careful => CareInv)'
  BY CareStep
<1>3. /\ TypeOK /\ TypeOK' /\ SoloInv /\ (Careful => CareInv) /\ (Careful => CloseInv)
      /\ [Next]_vars
      => (Careful => CloseInv)'
  <2>1. [Next]_vars => (Careful' <=> Careful)
    BY DEF Next, Rest, vars, Careful
  <2>. QED  BY <2>1, CloseStep
<1>4. TypeOK /\ (Careful => CareInv) /\ (Careful => CloseInv) /\ [Next]_vars => [Done]_vars
  <2>. SUFFICES ASSUME TypeOK, Careful, CareInv, CloseInv, Next, NEW t \in Caller,
                       pc[t] \in {"joining", "closing"}, pc'[t] = "idle"
                PROVE  /\ attempted = Resource /\ NoStep
                       /\ pc[t] = "closing" => broken[t] = (Failing # {})
    BY DEF Done, NoStep
  <2>1. t \in Thread
    BY DEF Thread
  <2>2. CASE Joined(t)
    BY <2>2 DEF Joined, CloseInv
  <2>3. CASE Finish(t)
    <3>1. pc[t] = "closing" /\ todo[t] = {}
      BY <2>3 DEF Finish
    <3>. QED  BY <2>1, <3>1 DEF CloseInv, CareInv, TypeOK
  <2>4. /\ t \in DOMAIN pc /\ pc'[t] # pc[t]
        /\ pc \in [Thread -> {"idle", "took", "joining", "entered", "read", "stored",
                             "waiting", "closing", "ended"}]
    BY <2>1 DEF TypeOK
  <2>5. ASSUME NEW s \in Caller, ShutdownWait(s) \/ ShutdownNoWait(s) PROVE FALSE
    BY <2>4, <2>5 DEF ShutdownWait, ShutdownNoWait, Goto
  <2>6. ASSUME NEW s \in Thread,
               \/ s \in Caller /\ (JoinOrDo(s) \/ Joined(s))
               \/ ReadPool(s) \/ StorePool(s) \/ StopPool(s) \/ Await(s) \/ Finish(s)
        PROVE  Joined(t) \/ Finish(t)
    BY <2>4, <2>6
    DEF JoinOrDo, Joined, ReadPool, StorePool, StopPool, Await, Finish, StartClosing, Goto
  <2>7. CASE pc' = pc
    BY <2>4, <2>7
  <2>8. \A s \in Thread : ~CtrlC(s)
    BY DEF Careful, CtrlC, JoinInterrupted, Interrupted, ClosingInterrupted
  <2>. QED
    BY <2>2, <2>3, <2>5, <2>6, <2>7, <2>8
    DEF Next, Rest, vars, StartTick, KernelThread, CheckPool, FetchPool, SubmitRaises, EndTick,
        Submit, AbortTick, Worker, StartStep, Call, CallReturns, EndStep, SetJob, Progress,
        CloseOne
<1>. QED
  BY CareInit, CloseInit, SoloAlways, <1>1, <1>2, <1>3, <1>4, PTL DEF Spec, WaitMeansClosed

============================================================================
