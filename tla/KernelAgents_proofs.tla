------------------------- MODULE KernelAgents_proofs -------------------------
(***************************************************************************)
(* What the kernel owes to its agents: their restarts, their mailboxes,    *)
(* the notice of their children's failures; and what run() tells its       *)
(* caller.  For any agents, names, policies, numbers of workers and bounds. *)
(***************************************************************************)
EXTENDS Kernel_proofs

\* Where an agent's own code is kept to: it does not unregister agents, whose
\* mailbox would go under a tick ...
NoneUnregisters == "unregister_in_step" \notin Calls
\* ... and nothing but an Exception out of a step() leaves user code, and that
\* neither out of a hook.
HooksReturn == HookRaises = {} /\ "abort" \notin Calls
\* Async agents are only given to a backend that awaits their steps.
StepsRun == AwaitsSteps \/ AsyncAgents = {}

-----------------------------------------------------------------------------
(* Supervision.                                                            *)

Limit(a) == IF a \in OnFailure THEN MaxRestarts[a] ELSE 0

Casualties == {"failed", "fallen", "told"}

\* The failures of an agent are its restarts, and the one that it has not got
\* over; a failure that a restart is left for is a casualty of this tick.
BudgetInv ==
  \A a \in Agent :
    /\ restarts[a] <= Limit(a)
    /\ errors[a] = restarts[a] + (IF astate[a] = "failed" THEN 1 ELSE 0)
    /\ astate[a] = "failed" /\ Restartable(a) => job[a] = "failed"
    /\ job[a] # "none" => inTick /\ (astate[a] = "failed" <=> job[a] \in Casualties)

\* The steps that have no part in supervision.
Aside == UNCHANGED << astate, job, inTick, restarts, errors >>

LEMMA AsideSteps ==
  ASSUME OperatorStep \/ RunStep \/ UNCHANGED vars
         \/ \E a \in Agent :
              \/ \E N \in Name : Send(a, N) \/ UnregisterAgent(a, N)
              \/ \E b \in Agent : Spawn(a, b)
              \/ Broadcast(a) \/ UnregisterMailbox(a)
  PROVE  Aside /\ UNCHANGED << told, inbox, horizon, tick >>
BY DEF OperatorStep, OperatorPosts, OperatorRegisters, OperatorUnregisters, OperatorRuns,
       RunStep, ReadLive, AskPending, RunReturns, Send, UnregisterAgent, Spawn, Broadcast,
       UnregisterMailbox, Aside, vars, runVars, jobVars, failVars

LEMMA BudgetInit == Init => BudgetInv
BY PolicyAssumption DEF Init, BudgetInv, Limit

LEMMA BudgetStep ==
  ASSUME HooksReturn, TypeOK, BudgetInv, [Next]_vars
  PROVE  BudgetInv'
<1>. USE DEF failVars, Casualties
<1>0. /\ job \in [Agent -> JobStates] /\ astate \in [Agent -> AgentStates]
      /\ restarts \in [Agent -> Nat] /\ errors \in [Agent -> Nat]
      /\ MaxRestarts \in [Agent -> Nat]
  BY PolicyAssumption DEF TypeOK
<1>1. CASE Aside
  BY <1>1 DEF Aside, BudgetInv, Restartable
<1>2. CASE BeginTick \/ RefuseTick \/ Reclaim
  <2>1. /\ UNCHANGED << restarts, errors, astate >>
        /\ \A a \in Agent : /\ job[a] # "failed"
                            /\ job'[a] # "failed"
                            /\ job'[a] # "none" => /\ inTick' /\ astate[a] # "failed"
                                                   /\ job'[a] \notin Casualties
    <3>1. CASE BeginTick
      BY <3>1 DEF BeginTick, StepCalled, BudgetInv, Scheduled, Live, Alive, Finished,
                  Casualties
    <3>2. CASE RefuseTick
      BY <3>2 DEF RefuseTick, StepCalled, StepRaises, BudgetInv
    <3>3. CASE Reclaim
      BY <3>3 DEF Reclaim, JobsIn
    <3>. QED  BY <1>2, <3>1, <3>2, <3>3
  <2>. QED  BY <2>1 DEF BudgetInv, Restartable
<1>3. ASSUME NEW a \in Agent, StartAgent(a) \/ Wait(a) \/ Exit(a) \/ Return(a) PROVE BudgetInv'
  <2>1. /\ job[a] \in {"queued", "running"} /\ UNCHANGED << restarts, errors, inTick >>
        /\ job' = [job EXCEPT ![a] = job'[a]] /\ job'[a] \in {"running", "ok"}
        /\ astate' = [astate EXCEPT ![a] = astate'[a]] /\ astate'[a] # "failed"
    BY <1>0, <1>3 DEF StartAgent, Wait, Exit, Return, InStep, jobVars, BudgetInv
  <2>. QED  BY <1>0, <2>1 DEF BudgetInv, Restartable
<1>4. ASSUME NEW a \in Agent, Raise(a) PROVE BudgetInv'
  <2>1. /\ job[a] = "running" /\ UNCHANGED << restarts, inTick >>
        /\ job' = [job EXCEPT ![a] = "failed"] /\ astate' = [astate EXCEPT ![a] = "failed"]
        /\ errors' = [errors EXCEPT ![a] = @ + 1]
    BY <1>4 DEF Raise, InStep
  <2>. QED  BY <1>0, <2>1 DEF BudgetInv, Restartable
<1>5. ASSUME NEW a \in Agent, SuperviseRestarts(a) PROVE BudgetInv'
  <2>1. /\ job[a] = "failed" /\ Restartable(a) /\ UNCHANGED << errors, inTick >>
        /\ restarts' = [restarts EXCEPT ![a] = @ + 1]
        /\ job' = [job EXCEPT ![a] = "restarted"] /\ astate' = [astate EXCEPT ![a] = "ready"]
    BY <1>5 DEF SuperviseRestarts, NextCasualty, IsFirst, JobsIn
  <2>. QED  BY <1>0, <2>1 DEF BudgetInv, Restartable, Limit
<1>6. ASSUME NEW a \in Agent, SuperviseGivesUp(a) \/ Escalate(a) PROVE BudgetInv'
  <2>1. /\ UNCHANGED << restarts, errors, astate, inTick >>
        /\ job' = [job EXCEPT ![a] = job'[a]] /\ job'[a] \in {"fallen", "told"}
        /\ job[a] \in {"failed", "fallen"} /\ (job[a] = "failed" => ~Restartable(a))
    BY <1>0, <1>6 DEF SuperviseGivesUp, Escalate, NextCasualty, NextFallen, IsFirst, JobsIn
  <2>. QED  BY <1>0, <2>1 DEF BudgetInv, Restartable
<1>7. ASSUME NEW a \in Agent, EscalateRaises(a) PROVE BudgetInv'
  <2>1. /\ UNCHANGED << restarts, errors, astate >>
        /\ \A b \in Agent : job[b] # "failed" /\ job'[b] = "none"
    BY <1>7 DEF EscalateRaises, NextFallen, JobsIn, StepRaises
  <2>. QED  BY <2>1 DEF BudgetInv, Restartable
<1>8. ASSUME NEW a \in Agent, OnRestartRaises(a) \/ Abort(a) PROVE FALSE
  BY <1>8 DEF HooksReturn, OnRestartRaises, Abort
<1>. QED
  BY <1>1, <1>2, <1>3, <1>4, <1>5, <1>6, <1>7, <1>8, AsideSteps
  DEF Next, UserCode, WorkerStep, BarrierStep

\* Every failure used up a restart, or left its agent FAILED with none to use,
\* however many agents failed in the tick (_supervise()).
THEOREM BudgetKept ==
  ASSUME HooksReturn
  PROVE  Spec => []SupervisionBudget
<1>1. TypeOK /\ BudgetInv /\ [Next]_vars => BudgetInv'
  BY BudgetStep
<1>2. BudgetInv => SupervisionBudget
  BY DEF BudgetInv, SupervisionBudget, Limit
<1>. QED  BY BudgetInit, TypeCorrect, <1>1, <1>2, PTL DEF Spec

-----------------------------------------------------------------------------
(* The registry.                                                           *)

\* Agents are numbered as they are registered, and one that never was has had no
\* part in anything.
Known == {a \in Agent : regno[a] # 0}
RegInv ==
  /\ \A a \in Agent : regno[a] <= Cardinality(Known)
  /\ \A a \in Agent : regno[a] = 0 => a \notin registered /\ astate[a] = "ready"
                                                          /\ job[a] = "none"
  /\ \A i \in 1..Len(Boot) : regno[Boot[i]] # 0

LEMMA KnownFinite ==
  IsFiniteSet(Known) /\ Cardinality(Known) \in Nat
BY NamesAssumption, FS_Subset, FS_CardinalityType DEF Known

LEMMA RegInit == Init => RegInv
<1>. SUFFICES ASSUME Init PROVE RegInv
  OBVIOUS
<1>. DEFINE n == Len(Boot)
            at(a) == CHOOSE i \in 1..n : Boot[i] = a
<1>1. /\ n \in Nat /\ \A i \in 1..n : Boot[i] \in Agent
      /\ \A i, j \in 1..n : Boot[i] = Boot[j] => i = j
  BY BootAssumption
<1>2. \A a \in registered : at(a) \in 1..n /\ Boot[at(a)] = a
  BY DEF Init
<1>3. \A a \in Agent : regno[a] = IF a \in registered THEN at(a) ELSE 0
  BY DEF Init
<1>4. registered = {Boot[i] : i \in 1..n} /\ registered \subseteq Agent
  BY <1>1 DEF Init
<1>. HIDE DEF at
<1>5. Known = registered
  BY <1>2, <1>3, <1>4 DEF Known
<1>6. Cardinality(registered) = n
  <2>. DEFINE f == [i \in 1..n |-> Boot[i]]
  <2>1. f \in Bijection(1..n, registered)
    BY <1>1, <1>4 DEF Bijection, Injection, Surjection, IsInjective
  <2>2. ExistsBijection(1..n, registered)
    BY <2>1 DEF ExistsBijection
  <2>. QED  BY <1>1, <2>2, FS_CountingElements
<1>7. \A i \in 1..n : regno[Boot[i]] # 0
  BY <1>1, <1>2, <1>3, <1>4
<1>8. \A a \in Agent : regno[a] = 0 => a \notin registered
  BY <1>2, <1>3
<1>9. \A a \in Agent : regno[a] <= n
  BY <1>1, <1>2, <1>3
<1>. QED  BY <1>5, <1>6, <1>7, <1>8, <1>9 DEF RegInv, Init

\* A new agent comes after all those before it.
LEMMA RegisterReg ==
  ASSUME TypeOK, RegInv, NEW a \in Agent, NEW p, Register(a, p), UNCHANGED << astate, job >>
  PROVE  /\ RegInv' /\ \A b \in registered : regno'[b] = regno[b] /\ regno[b] < regno'[a]
         /\ a \notin registered /\ astate[a] = "ready"
<1>1. /\ regno \in [Agent -> Nat] /\ registered \subseteq Agent /\ regno[a] = 0
      /\ registered' = registered \cup {a}
      /\ regno' = [regno EXCEPT ![a] = 1 + Cardinality(Known)]
  BY DEF TypeOK, Register, Known
<1>2. \A b \in Agent : b # a => regno'[b] = regno[b]
  BY <1>1
<1>3. regno'[a] = 1 + Cardinality(Known) /\ regno'[a] # 0
  BY <1>1, KnownFinite
<1>4. Known' = Known \cup {a} /\ a \notin Known
  BY <1>1, <1>2, <1>3 DEF Known
<1>5. Cardinality(Known') = Cardinality(Known) + 1
  BY <1>4, KnownFinite, FS_AddElement
<1>6. RegInv'
  BY <1>1, <1>2, <1>3, <1>5, KnownFinite, BootAssumption DEF RegInv
<1>. QED  BY <1>1, <1>2, <1>3, <1>6, KnownFinite DEF RegInv

LEMMA RegStep ==
  ASSUME TypeOK, RegInv, [Next]_vars
  PROVE  RegInv'
<1>. USE DEF agentVars, jobVars
<1>1. ASSUME NEW a \in Agent, NEW p, Register(a, p), UNCHANGED << astate, job >> PROVE RegInv'
  BY <1>1, RegisterReg
<1>2. ASSUME regno' = regno, registered' \subseteq registered,
             \A a \in Agent : regno[a] = 0 => astate'[a] = astate[a] /\ job'[a] = "none"
      PROVE  RegInv'
  <2>1. Known' = Known
    BY <1>2 DEF Known
  <2>. QED  BY <1>2, <2>1 DEF RegInv
<1>3. ASSUME NEW a \in Agent, NEW p \in Name \cup {None},
             OperatorRegisters(a, p) \/ \E b \in Agent : Spawn(b, a)
      PROVE  RegInv'
  BY <1>1, <1>3 DEF OperatorRegisters, Spawn
<1>4. CASE \/ \E N \in Name : OperatorPosts(N) \/ OperatorUnregisters(N)
           \/ \E n \in RunLimits : OperatorRuns(n)
           \/ RunStep \/ UNCHANGED vars
           \/ \E a \in Agent : \/ \E N \in Name : Send(a, N) \/ UnregisterAgent(a, N)
                               \/ Broadcast(a) \/ UnregisterMailbox(a)
  <2>1. regno' = regno /\ registered' \subseteq registered /\ UNCHANGED << astate, job >>
    BY <1>4 DEF OperatorPosts, OperatorUnregisters, OperatorRuns, RunStep, ReadLive, AskPending,
                RunReturns, vars, Send, UnregisterAgent, Broadcast, UnregisterMailbox
  <2>. QED  BY <1>2, <2>1 DEF RegInv
<1>5. CASE BeginTick \/ RefuseTick \/ Reclaim
  BY <1>2, <1>5 DEF BeginTick, RefuseTick, Reclaim, StepRaises, Scheduled, Live, RegInv
<1>6. ASSUME NEW a \in Agent,
             \/ Wait(a) \/ Exit(a) \/ StartAgent(a) \/ Return(a) \/ Raise(a)
             \/ SuperviseRestarts(a) \/ SuperviseGivesUp(a) \/ Escalate(a)
      PROVE  RegInv'
  <2>1. /\ UNCHANGED << regno, registered >> /\ job[a] # "none"
        /\ job' = [job EXCEPT ![a] = job'[a]] /\ astate' = [astate EXCEPT ![a] = astate'[a]]
    BY <1>6 DEF Wait, Exit, StartAgent, Return, Raise, SuperviseRestarts, SuperviseGivesUp,
                Escalate, InStep, NextCasualty, NextFallen, IsFirst, JobsIn, TypeOK
  <2>. QED  BY <1>2, <2>1 DEF RegInv, TypeOK
<1>7. ASSUME NEW a \in Agent, Abort(a) \/ OnRestartRaises(a) \/ EscalateRaises(a)
      PROVE  RegInv'
  BY <1>2, <1>7 DEF Abort, OnRestartRaises, EscalateRaises, StepRaises
<1>. QED
  BY <1>3, <1>4, <1>5, <1>6, <1>7
  DEF Next, OperatorStep, UserCode, WorkerStep, BarrierStep

\* The registry of every state.
LEMMA Registry == Spec => []RegInv
<1>1. TypeOK /\ RegInv /\ [Next]_vars => RegInv'
  BY RegStep
<1>. QED  BY RegInit, TypeCorrect, <1>1, PTL DEF Spec

-----------------------------------------------------------------------------
(* Mailboxes.                                                              *)

\* The agents that are alive, or were when the tick began.
Boxed == {a \in registered : Alive(a) \/ job[a] # "none"}

\* An agent with a part in the tick is registered, and has its mailbox while it
\* has that part or lives.
BoxInv ==
  /\ \A a \in Agent : dropping[a] = None
  /\ \A a \in Agent : job[a] # "none" => a \in registered /\ inTick
  /\ LiveHaveMailbox

LEMMA BoxInit == Init => BoxInv
BY DEF Init, BoxInv, LiveHaveMailbox, CanDeliver, EmptyBus, Names

\* Which mailboxes there are after each method of the bus.
LEMMA BoxDomains ==
  ASSUME NEW b
  PROVE  /\ \A N : DOMAIN RegisterBox(b, N) = DOMAIN b \cup {N}
         /\ \A S : DOMAIN UnregisterBoxes(b, S) = DOMAIN b \ S
         /\ \A S : DOMAIN Drain(b, S) = DOMAIN b
         /\ \A m : DOMAIN DeliverAll(b, m) = DOMAIN b
         /\ \A N, m : DOMAIN Deliver(b, N, m) = DOMAIN b
         /\ \A N, mail : DOMAIN Requeue(b, N, mail) = DOMAIN b
BY DEF RegisterBox, UnregisterBoxes, Drain, DeliverAll, Deliver, Requeue

\* An agent's step, and what the barrier does with one agent, unregisters
\* nothing; it gives mailboxes to those it registers, and changes agents that are
\* neither idle in this tick nor passed over.
Untouched == {"none", "skipped"}
Keeps ==
  /\ registered \subseteq registered' /\ UNCHANGED << dropping, inTick >>
  /\ DOMAIN bus' = DOMAIN bus \cup Names(registered' \ registered)
  /\ \A a \in Agent : \/ job'[a] = job[a] /\ astate'[a] = astate[a]
                      \/ job[a] \notin Untouched /\ job'[a] \notin Untouched

LEMMA KeepsBoxes ==
  ASSUME BoxInv, TypeOK, TypeOK', Keeps
  PROVE  BoxInv'
<1>1. \A a \in Agent : Alive(a)' => Alive(a) \/ job[a] # "none"
  BY DEF Keeps, Alive, Untouched
<1>2. \A a \in Agent : job'[a] # "none" <=> job[a] # "none"
  BY DEF Keeps, Untouched
<1>3. \A a \in registered' : a \in registered \/ NameOf[a] \in DOMAIN bus'
  BY DEF Keeps, Names
<1>. QED
  BY <1>1, <1>2, <1>3 DEF BoxInv, LiveHaveMailbox, CanDeliver, Keeps, TypeOK

LEMMA RegisterKeeps ==
  ASSUME TypeOK, RegInv, NEW a \in Agent, NEW p, Register(a, p),
         UNCHANGED << dropping, inTick, job, astate >>
  PROVE  Keeps
<1>1. /\ registered' = registered \cup {a} /\ DOMAIN bus' = DOMAIN bus \cup {NameOf[a]}
      /\ a \notin registered
  BY BoxDomains DEF Register, RegInv
<1>2. Names(registered' \ registered) = {NameOf[a]}
  BY <1>1 DEF Names
<1>. QED  BY <1>1, <1>2 DEF Keeps

\* The steps that change neither the registry nor which mailboxes there are.
LEMMA StillKeeps ==
  ASSUME UNCHANGED << registered, dropping, inTick >>, DOMAIN bus' = DOMAIN bus,
         \A a \in Agent : \/ job'[a] = job[a] /\ astate'[a] = astate[a]
                          \/ job[a] \notin Untouched /\ job'[a] \notin Untouched
  PROVE  Keeps
BY DEF Keeps, Names

LEMMA UserCodeKeeps ==
  ASSUME NoneUnregisters, TypeOK, RegInv, NEW a \in Agent, UserCode(a)
  PROVE  Keeps
<1>. USE BoxDomains DEF agentVars, mailVars, jobVars
<1>1. ASSUME NEW N \in Name, Send(a, N) PROVE Keeps
  BY <1>1, StillKeeps DEF Send
<1>2. ASSUME NEW N \in Name, UnregisterAgent(a, N) PROVE FALSE
  BY <1>2 DEF UnregisterAgent, NoneUnregisters
<1>3. ASSUME NEW b \in Agent, Spawn(a, b) PROVE Keeps
  BY <1>3, RegisterKeeps DEF Spawn
<1>4. CASE Broadcast(a)
  BY <1>4, StillKeeps DEF Broadcast
<1>5. CASE Wait(a) \/ Exit(a)
  <2>1. job[a] = "running" /\ UNCHANGED << registered, dropping, inTick, bus, job >>
        /\ astate' = [astate EXCEPT ![a] = astate'[a]]
    BY <1>5 DEF Wait, Exit, InStep, TypeOK
  <2>. QED  BY <2>1, StillKeeps DEF Untouched, TypeOK
<1>. QED  BY <1>1, <1>2, <1>3, <1>4, <1>5 DEF UserCode

\* A step of one agent within the tick, told by what it does with its job.
LEMMA JobKeeps ==
  ASSUME TypeOK, NEW a \in Agent, job[a] \notin Untouched, job'[a] \notin Untouched,
         job' = [job EXCEPT ![a] = job'[a]],
         UNCHANGED << registered, dropping, inTick >>, DOMAIN bus' = DOMAIN bus,
         astate' = [astate EXCEPT ![a] = astate'[a]]
  PROVE  Keeps
BY StillKeeps DEF TypeOK

LEMMA WorkerKeeps ==
  ASSUME TypeOK, NEW a \in Agent, StartAgent(a) \/ Return(a) \/ Raise(a)
  PROVE  Keeps
<1>1. /\ job[a] \notin Untouched /\ job'[a] \notin Untouched /\ job' = [job EXCEPT ![a] = job'[a]]
      /\ UNCHANGED << registered, dropping, inTick, bus >>
      /\ astate' = [astate EXCEPT ![a] = astate'[a]]
  BY DEF StartAgent, Return, Raise, InStep, agentVars, mailVars, TypeOK,
         Untouched
<1>. QED  BY <1>1, JobKeeps

LEMMA BarrierKeeps ==
  ASSUME TypeOK, NEW a \in Agent, SuperviseRestarts(a) \/ SuperviseGivesUp(a) \/ Escalate(a)
  PROVE  Keeps
<1>1. /\ job[a] \notin Untouched /\ job'[a] \notin Untouched /\ job' = [job EXCEPT ![a] = job'[a]]
      /\ UNCHANGED << registered, dropping, inTick >>
      /\ astate' = [astate EXCEPT ![a] = astate'[a]]
  BY DEF SuperviseRestarts, SuperviseGivesUp, Escalate, NextCasualty, NextFallen, IsFirst,
         JobsIn, agentVars, TypeOK, Untouched
<1>2. DOMAIN bus' = DOMAIN bus
  BY BoxDomains DEF SuperviseRestarts, SuperviseGivesUp, Escalate, mailVars
<1>. QED  BY <1>1, <1>2, JobKeeps

\* An exception out of step() forgets the agents' parts in the tick.
LEMMA StepRaisesBox ==
  ASSUME TypeOK, BoxInv, StepRaises, UNCHANGED << registered, astate, dropping >>,
         DOMAIN bus' = DOMAIN bus
  PROVE  BoxInv'
BY DEF BoxInv, LiveHaveMailbox, CanDeliver, StepRaises, Alive, TypeOK

LEMMA BoxStep ==
  ASSUME NoneUnregisters, InvMail, TypeOK', RegInv, BoxInv, [Next]_vars
  PROVE  BoxInv'
<1>. USE BoxDomains DEF agentVars, mailVars
<1>0. TypeOK /\ NamesUnique /\ NameOf \in [Agent -> Name] /\ registered \subseteq Agent
  BY NamesAssumption DEF InvMail, TypeOK
<1>1. ASSUME NEW N \in Name, OperatorPosts(N) PROVE BoxInv'
  BY <1>0, <1>1, StillKeeps, KeepsBoxes DEF OperatorPosts, jobVars
<1>2. ASSUME NEW N \in Name, OperatorUnregisters(N) PROVE BoxInv'
  <2>1. /\ UNCHANGED << astate, job, inTick, dropping >> /\ ~inTick
        /\ registered' = {a \in registered : NameOf[a] # N}
        /\ DOMAIN bus' = DOMAIN bus \ {N}
    BY <1>2 DEF OperatorUnregisters, jobVars
  <2>. QED  BY <1>0, <2>1 DEF BoxInv, LiveHaveMailbox, CanDeliver, Alive
<1>3. ASSUME NEW a \in Agent, NEW p \in Name \cup {None}, OperatorRegisters(a, p) PROVE BoxInv'
  BY <1>0, <1>3, RegisterKeeps, KeepsBoxes DEF OperatorRegisters, jobVars
<1>4. CASE (\E n \in RunLimits : OperatorRuns(n)) \/ RunStep \/ UNCHANGED vars
  BY <1>0, <1>4, StillKeeps, KeepsBoxes
  DEF OperatorRuns, RunStep, ReadLive, AskPending, RunReturns, vars, jobVars
<1>5. CASE BeginTick
  <2>1. /\ UNCHANGED << registered, astate, dropping >> /\ DOMAIN bus' = DOMAIN bus /\ inTick'
        /\ \A a \in Agent : job'[a] # "none" => a \in Live
        /\ \A a \in Agent : job[a] = "none"
    BY <1>5 DEF BeginTick, StepCalled, Scheduled, BoxInv
  <2>. QED  BY <1>0, <2>1 DEF BoxInv, LiveHaveMailbox, CanDeliver, Live, Alive
<1>6. CASE RefuseTick
  BY <1>0, <1>6, StepRaisesBox DEF RefuseTick
<1>7. ASSUME NEW a \in Agent, UserCode(a) PROVE BoxInv'
  BY <1>0, <1>7, UserCodeKeeps, KeepsBoxes
<1>8. ASSUME NEW a \in Agent, WorkerStep(a) PROVE BoxInv'
  <2>1. CASE StartAgent(a) \/ Return(a) \/ Raise(a)
    BY <1>0, <2>1, WorkerKeeps, KeepsBoxes
  <2>2. CASE UnregisterMailbox(a)
    BY <2>2 DEF UnregisterMailbox, BoxInv
  <2>3. CASE Abort(a)
    BY <1>0, <2>3, StepRaisesBox DEF Abort
  <2>. QED  BY <1>8, <2>1, <2>2, <2>3 DEF WorkerStep
<1>9. ASSUME NEW a \in Agent,
             SuperviseRestarts(a) \/ SuperviseGivesUp(a) \/ Escalate(a)
      PROVE  BoxInv'
  BY <1>0, <1>9, BarrierKeeps, KeepsBoxes
<1>10. ASSUME NEW a \in Agent, OnRestartRaises(a) \/ EscalateRaises(a) PROVE BoxInv'
  BY <1>0, <1>10, StepRaisesBox DEF OnRestartRaises, EscalateRaises
<1>11. CASE Reclaim
  <2>1. /\ UNCHANGED << registered, astate, dropping >>
        /\ DOMAIN bus' = DOMAIN bus \ Names(ToReclaim)
        /\ \A a \in Agent : job'[a] = "none"
    BY <1>11 DEF Reclaim
  <2>2. \A a \in ToReclaim : a \in registered /\ ~Alive(a)
    BY DEF ToReclaim, JobsIn, BoxInv
  <2>3. \A a \in Live : NameOf[a] \notin Names(ToReclaim)
    BY <1>0, <2>2 DEF NamesUnique, Names, Live
  <2>. QED  BY <1>0, <2>1, <2>3 DEF BoxInv, LiveHaveMailbox, CanDeliver, Live, Alive
<1>. QED
  BY <1>1, <1>2, <1>3, <1>4, <1>5, <1>6, <1>7, <1>8, <1>9, <1>10, <1>11
  DEF Next, OperatorStep, BarrierStep

\* Nobody who sends to an agent that lives, or lived when the tick began, meets
\* an unknown recipient, unless a step unregisters agents.
THEOREM LiveAreReachable ==
  ASSUME NoneUnregisters
  PROVE  Spec => []LiveHaveMailbox
<1>1. InvMail /\ TypeOK' /\ RegInv /\ BoxInv /\ [Next]_vars => BoxInv'
  BY BoxStep
<1>2. BoxInv => LiveHaveMailbox
  BY DEF BoxInv
<1>. QED  BY BoxInit, TypeCorrect, MailInvariant, Registry, <1>1, <1>2, PTL DEF Spec

\* Within a tick an agent that has finished keeps its mailbox until the barrier,
\* which takes it; so between ticks only the living have one.
ExactInv ==
  /\ DOMAIN bus \subseteq Names(Boxed)
  /\ \A a \in Agent : job[a] = "skipped" => Alive(a)

LEMMA ExactInit == Init => ExactInv
BY InitType DEF Init, ExactInv, Boxed, Alive, Finished, EmptyBus, Names, TypeOK

LEMMA KeepsExact ==
  ASSUME TypeOK, TypeOK', RegInv, BoxInv, ExactInv, Keeps,
         \A a \in registered' \ registered : Alive(a)'
  PROVE  ExactInv'
<1>1. Boxed \subseteq Boxed'
  BY DEF Boxed, Keeps, Alive, Untouched, TypeOK
<1>2. registered' \ registered \subseteq Boxed'
  BY DEF Boxed
<1>3. \A a \in Agent : job'[a] = "skipped" => Alive(a)'
  BY DEF Keeps, Alive, Untouched, ExactInv
<1>. QED  BY <1>1, <1>2, <1>3 DEF ExactInv, Keeps, Names

LEMMA NewAreAlive ==
  ASSUME RegInv, NEW a \in Agent, NEW p, Register(a, p), UNCHANGED astate
  PROVE  \A b \in registered' \ registered : Alive(b)'
BY DEF Register, RegInv, Alive, Finished

LEMMA ExactStep ==
  ASSUME NoneUnregisters, HooksReturn, InvMail, TypeOK', RegInv, BoxInv, ExactInv, [Next]_vars
  PROVE  ExactInv'
<1>. USE BoxDomains DEF agentVars, mailVars
<1>0. TypeOK /\ NamesUnique /\ NameOf \in [Agent -> Name] /\ registered \subseteq Agent
  BY NamesAssumption DEF InvMail, TypeOK
<1>1. ASSUME Keeps, registered' = registered PROVE ExactInv'
  BY <1>0, <1>1, KeepsExact
<1>2. ASSUME NEW N \in Name, OperatorPosts(N) PROVE ExactInv'
  BY <1>1, <1>2, StillKeeps DEF OperatorPosts, jobVars
<1>3. ASSUME NEW N \in Name, OperatorUnregisters(N) PROVE ExactInv'
  <2>1. /\ UNCHANGED << astate, job >>
        /\ registered' = {a \in registered : NameOf[a] # N}
        /\ DOMAIN bus' = DOMAIN bus \ {N}
    BY <1>3 DEF OperatorUnregisters, jobVars
  <2>2. Boxed' = {a \in Boxed : NameOf[a] # N}
    BY <2>1 DEF Boxed, Alive
  <2>. QED  BY <2>1, <2>2 DEF ExactInv, Names, Alive
<1>4. ASSUME NEW a \in Agent, NEW p \in Name \cup {None},
             OperatorRegisters(a, p) \/ \E b \in Agent : Spawn(b, a)
      PROVE  ExactInv'
  <2>1. /\ \E q : Register(a, q)
        /\ UNCHANGED << dropping, inTick, job, astate >>
    BY <1>4 DEF OperatorRegisters, Spawn, jobVars
  <2>. QED  BY <1>0, <2>1, RegisterKeeps, KeepsExact, NewAreAlive
<1>5. CASE (\E n \in RunLimits : OperatorRuns(n)) \/ RunStep \/ UNCHANGED vars
  BY <1>1, <1>5, StillKeeps
  DEF OperatorRuns, RunStep, ReadLive, AskPending, RunReturns, vars, jobVars
<1>6. CASE BeginTick \/ RefuseTick
  <2>1. UNCHANGED << registered, astate >> /\ DOMAIN bus' = DOMAIN bus
    BY <1>6 DEF BeginTick, RefuseTick
  <2>2. \A a \in Agent : job[a] = "none" /\ (job'[a] # "none" => Alive(a))
    BY <1>6 DEF BeginTick, RefuseTick, StepCalled, StepRaises, Scheduled, Live, BoxInv
  <2>3. Boxed' = Boxed
    BY <1>0, <2>1, <2>2 DEF Boxed, Alive
  <2>. QED  BY <2>1, <2>2, <2>3 DEF ExactInv, Names, Alive
<1>7. ASSUME NEW a \in Agent, UserCode(a), \A b \in Agent : ~Spawn(a, b) PROVE ExactInv'
  <2>1. registered' = registered
    BY <1>7 DEF UserCode, Send, UnregisterAgent, Broadcast, Wait, Exit, NoneUnregisters
  <2>. QED  BY <1>0, <1>1, <1>7, <2>1, UserCodeKeeps
<1>8. ASSUME NEW a \in Agent, WorkerStep(a) PROVE ExactInv'
  <2>1. CASE StartAgent(a) \/ Return(a) \/ Raise(a)
    BY <1>0, <1>1, <2>1, WorkerKeeps DEF StartAgent, Return, Raise
  <2>2. CASE UnregisterMailbox(a)
    BY <2>2 DEF UnregisterMailbox, BoxInv
  <2>3. CASE Abort(a)
    BY <2>3 DEF Abort, HooksReturn
  <2>. QED  BY <1>8, <2>1, <2>2, <2>3 DEF WorkerStep
<1>9. ASSUME NEW a \in Agent,
             SuperviseRestarts(a) \/ SuperviseGivesUp(a) \/ Escalate(a)
      PROVE  ExactInv'
  BY <1>0, <1>1, <1>9, BarrierKeeps DEF SuperviseRestarts, SuperviseGivesUp, Escalate
<1>10. ASSUME NEW a \in Agent, OnRestartRaises(a) \/ EscalateRaises(a) PROVE FALSE
  <2>1. CASE OnRestartRaises(a)
    BY <2>1 DEF OnRestartRaises, HooksReturn
  <2>2. CASE EscalateRaises(a)
    BY <2>2 DEF EscalateRaises, HasLiveParent, Live, BoxInv, LiveHaveMailbox
  <2>. QED  BY <1>10, <2>1, <2>2
<1>11. CASE Reclaim
  <2>1. /\ UNCHANGED << registered, astate >>
        /\ DOMAIN bus' = DOMAIN bus \ Names(ToReclaim)
        /\ \A a \in Agent : job'[a] = "none"
        /\ JobsIn({"queued", "running", "failed", "fallen"}) = {}
    BY <1>11 DEF Reclaim, AtBarrier, JobsIn
  <2>2. \A a \in Agent : job[a] \in {"none", "skipped"} \cup {"ok", "restarted", "told"}
    BY <1>0, <2>1 DEF TypeOK, JobStates, JobsIn
  <2>3. \A a \in Boxed : Alive(a) \/ a \in ToReclaim
    BY <1>0, <2>2 DEF Boxed, ToReclaim, JobsIn, ExactInv
  <2>4. \A a \in Boxed : a \in Boxed' \/ a \in ToReclaim
    BY <1>0, <2>1, <2>3 DEF Boxed, Alive
  <2>. QED  BY <1>0, <2>1, <2>4 DEF ExactInv, Names
<1>. QED
  BY <1>2, <1>3, <1>4, <1>5, <1>6, <1>7, <1>8, <1>9, <1>10, <1>11
  DEF Next, OperatorStep, BarrierStep, UserCode

\* Between ticks nobody but the living has a mailbox: none is left of an agent
\* that finished, in which mail would gather that no tick drains.
THEOREM MailboxesAreOfTheLive ==
  ASSUME NoneUnregisters, HooksReturn
  PROVE  Spec => []MailboxesOfTheLive
<1>1. InvMail /\ TypeOK' /\ RegInv /\ BoxInv /\ [Next]_vars => BoxInv'
  BY BoxStep
<1>2. InvMail /\ TypeOK' /\ RegInv /\ BoxInv /\ ExactInv /\ [Next]_vars => ExactInv'
  BY ExactStep
<1>3. TypeOK /\ BoxInv /\ ExactInv => MailboxesOfTheLive
  <2>. SUFFICES ASSUME TypeOK, BoxInv, ExactInv, ~inTick PROVE DOMAIN bus = Names(Live)
    BY DEF MailboxesOfTheLive
  <2>1. Boxed = Live
    BY DEF Boxed, Live, BoxInv, TypeOK
  <2>2. \A a \in Live : NameOf[a] \in DOMAIN bus
    BY DEF Live, BoxInv, LiveHaveMailbox, CanDeliver
  <2>. QED  BY <2>1, <2>2 DEF ExactInv, Names
<1>. QED
  BY BoxInit, ExactInit, TypeCorrect, MailInvariant, Registry, <1>1, <1>2, <1>3, PTL DEF Spec

-----------------------------------------------------------------------------
(* The notice of a child's failure.                                        *)

Elder(p, a) == p \in {Boot[i] : i \in 1..Len(Boot)} \/ regno[p] < regno[a]

\* An agent that is alive or may yet be restarted in this tick; one that has
\* failed for good, and of which the barrier has told.
Hopeful(p) == p \in registered /\ (Alive(p) \/ job[p] \in {"queued", "running", "failed"})
Given(a)   == astate[a] = "failed" /\ job[a] \in {"none", "told"}

\* No parent comes back to life after the barrier has passed it over.
ToldInv ==
  /\ \A a \in Agent : told[a] <= 1 /\ (told[a] = 1 => Given(a))
  /\ \A a \in registered, p \in Agent :
       Given(a) /\ Hopeful(p) /\ parent[a] = NameOf[p] /\ Elder(p, a) => told[a] = 1

LEMMA ToldInit == Init => ToldInv
BY InitType DEF Init, ToldInv, Given, TypeOK

LEMMA ToldKeeps ==
  ASSUME TypeOK, ToldInv, UNCHANGED << regno, parent, told >>, registered' \subseteq registered,
         \A a \in Agent : (Hopeful(a)' => Hopeful(a)) /\ (Given(a)' <=> Given(a))
  PROVE  ToldInv'
BY DEF ToldInv, Elder, TypeOK

LEMMA ToldRegister ==
  ASSUME TypeOK, RegInv, ToldInv, NEW a \in Agent, NEW q, Register(a, q),
         UNCHANGED << astate, job, told >>
  PROVE  ToldInv'
<1>0. /\ registered' = registered \cup {a} /\ registered \subseteq Agent
      /\ parent' = [parent EXCEPT ![a] = q] /\ parent \in [Agent -> Name \cup {None}]
      /\ regno \in [Agent -> Nat] /\ regno' = [regno EXCEPT ![a] = 1 + Cardinality(Known)]
      /\ regno[a] = 0
  BY DEF Register, TypeOK, Known
<1>1. /\ a \notin registered /\ astate[a] = "ready"
      /\ \A b \in registered : regno'[b] = regno[b] /\ regno[b] < regno'[a]
      /\ regno'[a] \in Nat
  BY <1>0, KnownFinite DEF RegInv
<1>2. \A b \in Agent : Given(b)' <=> Given(b)
  BY DEF Given
<1>3. \A b \in registered, p \in Agent : p # a /\ Elder(p, b)' => Elder(p, b)
  BY <1>0, <1>1 DEF Elder
<1>4. \A b \in registered : ~Elder(a, b)'
  BY <1>0, <1>1 DEF Elder, RegInv
<1>5. \A p \in Agent : p # a /\ Hopeful(p)' => Hopeful(p)
  BY <1>0 DEF Hopeful, Alive
<1>6. \A b \in registered : parent'[b] = parent[b]
  BY <1>0, <1>1
<1>7. ~Given(a)
  BY <1>1 DEF Given
<1>. QED  BY <1>0, <1>1, <1>2, <1>3, <1>4, <1>5, <1>6, <1>7 DEF ToldInv

LEMMA ToldStep ==
  ASSUME NoneUnregisters, HooksReturn, TypeOK, RegInv, BoxInv, BudgetInv, ToldInv, [Next]_vars
  PROVE  ToldInv'
<1>. USE DEF agentVars, failVars
<1>0. /\ job \in [Agent -> JobStates] /\ astate \in [Agent -> AgentStates]
      /\ registered \subseteq Agent /\ told \in [Agent -> Nat]
  BY DEF TypeOK
<1>1. CASE \/ \E N \in Name : OperatorPosts(N) \/ OperatorUnregisters(N)
           \/ \E n \in RunLimits : OperatorRuns(n)
           \/ RunStep \/ UNCHANGED vars
           \/ \E a \in Agent : \/ \E N \in Name : Send(a, N) \/ UnregisterAgent(a, N)
                               \/ Broadcast(a) \/ UnregisterMailbox(a)
  <2>1. /\ UNCHANGED << regno, parent, told, astate, job >> /\ registered' \subseteq registered
    BY <1>1 DEF OperatorPosts, OperatorUnregisters, OperatorRuns, RunStep, ReadLive, AskPending,
                RunReturns, vars, Send, UnregisterAgent, Broadcast, UnregisterMailbox, jobVars
  <2>. QED  BY <2>1, ToldKeeps DEF Hopeful, Given, Alive
<1>2. ASSUME NEW a \in Agent, NEW p \in Name \cup {None},
             OperatorRegisters(a, p) \/ \E b \in Agent : Spawn(b, a)
      PROVE  ToldInv'
  BY <1>2, ToldRegister DEF OperatorRegisters, Spawn, jobVars
<1>3. CASE BeginTick \/ RefuseTick \/ Reclaim
  <2>1. /\ UNCHANGED << registered, regno, parent, told, astate >>
        /\ \A a \in Agent : /\ job'[a] \in {"queued", "running", "failed"} => Alive(a)
                            /\ job'[a] # "none" => astate[a] # "failed"
                            /\ astate[a] = "failed" => job[a] \in {"none", "told"}
    <3>1. CASE BeginTick
      BY <3>1 DEF BeginTick, StepCalled, BudgetInv, Scheduled, Live, Alive, Finished
    <3>2. CASE RefuseTick
      BY <3>2 DEF RefuseTick, StepCalled, StepRaises, BudgetInv
    <3>3. CASE Reclaim
      BY <1>0, <3>3 DEF Reclaim, JobsIn, BudgetInv, Casualties
    <3>. QED  BY <1>3, <3>1, <3>2, <3>3
  <2>2. \A a \in Agent : (Hopeful(a)' => Hopeful(a)) /\ (Given(a)' <=> Given(a))
    BY <2>1 DEF Hopeful, Given, Alive
  <2>. QED  BY <2>1, <2>2, ToldKeeps
<1>4. ASSUME NEW a \in Agent,
             \/ Wait(a) \/ Exit(a) \/ StartAgent(a) \/ Return(a) \/ Raise(a)
             \/ SuperviseRestarts(a) \/ SuperviseGivesUp(a)
      PROVE  ToldInv'
  <2>1. /\ UNCHANGED << registered, regno, parent, told >>
        /\ job' = [job EXCEPT ![a] = job'[a]] /\ astate' = [astate EXCEPT ![a] = astate'[a]]
        /\ job[a] \in {"queued", "running", "failed"}
        /\ job'[a] \notin {"none", "told"}
        /\ job'[a] = "fallen" => astate'[a] = "failed"
    BY <1>0, <1>4 DEF Wait, Exit, StartAgent, Return, Raise, SuperviseRestarts,
         SuperviseGivesUp, InStep, NextCasualty, IsFirst, JobsIn, Hopeful, BudgetInv,
         Casualties, jobVars
  <2>2. \A b \in Agent : (Hopeful(b)' => Hopeful(b)) /\ (Given(b)' <=> Given(b))
    BY <1>0, <2>1 DEF Hopeful, Given, Alive
  <2>. QED  BY <2>1, <2>2, ToldKeeps
<1>5. ASSUME NEW a \in Agent, Escalate(a) PROVE ToldInv'
  <2>1. /\ UNCHANGED << registered, regno, parent, astate >>
        /\ job' = [job EXCEPT ![a] = "told"] /\ job[a] = "fallen"
        /\ \A p \in Agent : job[p] \notin {"queued", "running", "failed"}
        /\ told' = IF HasLiveParent(a) THEN [told EXCEPT ![a] = @ + 1] ELSE told
    BY <1>5 DEF Escalate, NextFallen, AtBarrier, IsFirst, JobsIn
  <2>2. told[a] = 0 /\ astate[a] = "failed"
    BY <1>0, <2>1 DEF ToldInv, Given, BudgetInv, Casualties
  <2>3. \A b \in Agent : /\ Hopeful(b)' <=> Hopeful(b)
                         /\ b # a => (Given(b)' <=> Given(b)) /\ told'[b] = told[b]
    BY <1>0, <2>1 DEF Hopeful, Given, Alive
  <2>4. /\ Given(a)' /\ told'[a] \in {0, 1}
        /\ \A p \in Agent : Hopeful(p) /\ parent[a] = NameOf[p] => told'[a] = 1
    BY <1>0, <2>1, <2>2 DEF Given, Hopeful, HasLiveParent, Live
  <2>. QED  BY <1>0, <2>1, <2>3, <2>4 DEF ToldInv, Elder
<1>6. ASSUME NEW a \in Agent, OnRestartRaises(a) \/ EscalateRaises(a) \/ Abort(a) PROVE FALSE
  <2>1. CASE OnRestartRaises(a) \/ Abort(a)
    BY <2>1 DEF OnRestartRaises, Abort, HooksReturn
  <2>2. CASE EscalateRaises(a)
    BY <2>2 DEF EscalateRaises, HasLiveParent, Live, BoxInv, LiveHaveMailbox
  <2>. QED  BY <1>6, <2>1, <2>2
<1>. QED
  BY <1>1, <1>2, <1>3, <1>4, <1>5, <1>6
  DEF Next, OperatorStep, UserCode, WorkerStep, BarrierStep

\* A live parent is told, once, of each child that failed for good, even if it
\* failed itself in that tick and was restarted (_supervise() before _escalate()).
THEOREM ParentsAreTold ==
  ASSUME NoneUnregisters, HooksReturn
  PROVE  Spec => []ParentTold
<1>1. InvMail /\ TypeOK' /\ RegInv /\ BoxInv /\ [Next]_vars => BoxInv'
  BY BoxStep
<1>2. TypeOK /\ BudgetInv /\ [Next]_vars => BudgetInv'
  BY BudgetStep
<1>3. TypeOK /\ RegInv /\ BoxInv /\ BudgetInv /\ ToldInv /\ [Next]_vars => ToldInv'
  BY ToldStep
<1>4. TypeOK /\ BoxInv /\ ToldInv => ParentTold
  <2>. SUFFICES ASSUME TypeOK, BoxInv, ToldInv, ~inTick, NEW a \in registered
                PROVE  /\ told[a] <= (IF astate[a] = "failed" THEN 1 ELSE 0)
                       /\ \A p \in Live : /\ astate[a] = "failed" /\ parent[a] = NameOf[p]
                                          /\ Elder(p, a)
                                          => told[a] = 1
    BY DEF ParentTold, Elder
  <2>1. a \in Agent /\ registered \subseteq Agent /\ told[a] \in Nat /\ job[a] = "none"
    BY DEF TypeOK, BoxInv
  <2>2. astate[a] = "failed" <=> Given(a)
    BY <2>1 DEF Given
  <2>3. \A p \in Live : p \in Agent /\ Hopeful(p)
    BY <2>1 DEF Live, Hopeful
  <2>. QED  BY <2>1, <2>2, <2>3 DEF ToldInv
<1>. QED
  BY BoxInit, BudgetInit, ToldInit, TypeCorrect, MailInvariant, Registry, <1>1, <1>2, <1>3, <1>4,
     PTL DEF Spec

-----------------------------------------------------------------------------
(* What run() says, and quiescence.                                        *)

\* Between ticks no agent has a part in one, or is still in unregister().
IdleInv ==
  /\ \A a \in Agent : job[a] # "none" => inTick
  /\ \A a \in Agent : dropping[a] # None => job[a] = "running"
  /\ MaxWorkers = 1 =>
       \A a, b \in Agent : job[a] = "running" /\ job[b] = "running" => a = b

LEMMA OneWorker ==
  ASSUME MaxWorkers = 1, TypeOK, NEW a \in Agent, WorkerFor(a)
  PROVE  \A b \in Agent : /\ job[b] # "running"
                          /\ job[b] = "queued" => regno[a] <= regno[b]
<1>. DEFINE R == JobsIn({"running"})
            Q == {b \in JobsIn({"queued"}) : regno[b] < regno[a]}
<1>1. IsFiniteSet(R) /\ IsFiniteSet(Q)
  <2>1. R \subseteq Agent /\ Q \subseteq Agent
    BY DEF JobsIn
  <2>. QED  BY <2>1, NamesAssumption, FS_Subset
<1>2. Cardinality(R) + Cardinality(Q) < 1
  BY DEF WorkerFor
<1>. HIDE DEF R, Q
<1>3. R = {} /\ Q = {}
  BY <1>1, <1>2, FS_CardinalityType, FS_EmptySet
<1>. QED  BY <1>3 DEF R, Q, JobsIn, TypeOK

LEMMA IdleInit == Init => IdleInv
BY DEF Init, IdleInv

LEMMA IdleStep ==
  ASSUME TypeOK, IdleInv, [Next]_vars
  PROVE  IdleInv'
<1>. USE DEF agentVars, jobVars
<1>0. job \in [Agent -> JobStates] /\ dropping \in [Agent -> Name \cup {None}]
  BY DEF TypeOK
<1>1. CASE \/ OperatorStep \/ RunStep \/ UNCHANGED vars
           \/ \E a \in Agent : \/ \E N \in Name : Send(a, N)
                               \/ \E b \in Agent : Spawn(a, b)
                               \/ Broadcast(a) \/ Wait(a) \/ Exit(a)
  <2>1. UNCHANGED << job, inTick, dropping >>
    BY <1>1
    DEF OperatorStep, OperatorPosts, OperatorRegisters, OperatorUnregisters, OperatorRuns,
        RunStep, ReadLive, AskPending, RunReturns, vars, Send, Spawn, Broadcast, Wait, Exit
  <2>. QED  BY <2>1 DEF IdleInv
<1>2. CASE \E a \in Agent : UnregisterMailbox(a) \/ \E N \in Name : UnregisterAgent(a, N)
  BY <1>0, <1>2 DEF UnregisterMailbox, UnregisterAgent, InStep, IdleInv
<1>3. CASE BeginTick
  <2>1. /\ \A a \in Agent : job[a] = "none" /\ job'[a] # "running" /\ dropping[a] = None
        /\ inTick' /\ dropping' = dropping
    BY <1>3 DEF BeginTick, StepCalled, IdleInv
  <2>. QED  BY <2>1 DEF IdleInv
<1>4. CASE RefuseTick \/ Reclaim \/ \E a \in Agent : \/ OnRestartRaises(a) \/ EscalateRaises(a)
                                                     \/ Abort(a)
  <2>1. dropping' = dropping /\ \A a \in Agent : job'[a] = "none"
    BY <1>4 DEF RefuseTick, Reclaim, OnRestartRaises, EscalateRaises, Abort, StepRaises
  <2>2. \A a \in Agent : dropping[a] = None
    <3>1. CASE RefuseTick
      BY <3>1 DEF RefuseTick, StepCalled, IdleInv
    <3>2. CASE Reclaim \/ \E a \in Agent : OnRestartRaises(a) \/ EscalateRaises(a)
      BY <3>2 DEF Reclaim, OnRestartRaises, EscalateRaises, NextCasualty, NextFallen, AtBarrier,
                  JobsIn, IdleInv
    <3>3. ASSUME NEW a \in Agent, Abort(a) PROVE \A b \in Agent : dropping[b] = None
      BY <3>3 DEF Abort, InStep, IdleInv
    <3>. QED  BY <1>4, <3>1, <3>2, <3>3
  <2>. QED  BY <2>1, <2>2 DEF IdleInv
<1>5. ASSUME NEW a \in Agent, StartAgent(a) PROVE IdleInv'
  <2>1. /\ job[a] = "queued" /\ job' = [job EXCEPT ![a] = "running"]
        /\ UNCHANGED << inTick, dropping >>
        /\ MaxWorkers = 1 => \A b \in Agent : job[b] # "running"
    BY <1>5, OneWorker DEF StartAgent
  <2>. QED  BY <1>0, <2>1 DEF IdleInv
<1>6. ASSUME NEW a \in Agent,
             \/ Return(a) \/ Raise(a) \/ SuperviseRestarts(a)
             \/ SuperviseGivesUp(a) \/ Escalate(a)
      PROVE  IdleInv'
  <2>1. /\ job' = [job EXCEPT ![a] = job'[a]] /\ job'[a] # "running" /\ inTick' = inTick
        /\ dropping' = dropping /\ job[a] # "none" /\ dropping[a] = None
    BY <1>0, <1>6
    DEF Return, Raise, SuperviseRestarts, SuperviseGivesUp, Escalate, InStep, NextCasualty,
        NextFallen, IsFirst, JobsIn, IdleInv
  <2>. QED  BY <1>0, <2>1 DEF IdleInv
<1>. QED
  BY <1>1, <1>2, <1>3, <1>4, <1>5, <1>6 DEF Next, UserCode, WorkerStep, BarrierStep

\* What run() has found still holds of the agents it read, whoever posts or
\* registers meanwhile: no agent runs, so those it read stay as they are, and
\* those registered since are READY.
CheckInv ==
  /\ inRun => stopReason = "max_ticks"
  /\ check # "none" =>
       /\ inRun /\ ~inTick
       /\ knew \subseteq registered /\ live = Live \cap knew
       /\ \A a \in registered \ knew : astate[a] = "ready"
       /\ check = "finished" <=> live = {}
       /\ check \in {"asking", "quiescent"} => AllWait(live)
       /\ check = "runnable" => ~AllWait(live) \/ MailFor(live)
  /\ check = "quiescent" => \A a \in live : \A i \in DOMAIN Pending(bus, NameOf[a]) :
                              Pending(bus, NameOf[a])[i].id > askedAt
  /\ check = "quiescent" => askedAt <= posted

LEMMA CheckInit == Init => CheckInv
BY DEF Init, CheckInv

\* A post or a registration after run() has looked.
LEMMA CheckStays ==
  ASSUME TypeOK, TypeOK', CheckInv, UNCHANGED << runVars, astate, inTick >>,
         registered \subseteq registered', posted <= posted',
         \A a \in registered' \ registered : astate[a] = "ready",
         \A a \in Agent :
           \/ Pending(bus, NameOf[a])' = Pending(bus, NameOf[a])
           \/ \E m : m.id = posted + 1
                     /\ Pending(bus, NameOf[a])' = Append(Pending(bus, NameOf[a]), m)
  PROVE  CheckInv'
<1>. USE DEF runVars
<1>0. /\ registered \subseteq Agent /\ live \subseteq Agent
      /\ posted \in Nat /\ posted' \in Nat
  BY DEF TypeOK
<1>1. \A a \in Agent : Pending(bus, NameOf[a]) \in Seq(Message)
  BY PendingBus
<1>2. \A a \in registered : (Alive(a)' <=> Alive(a))
  BY DEF Alive
<1>3. AllWait(live)' <=> AllWait(live)
  BY DEF AllWait
<1>4. MailFor(live) => MailFor(live)'
  <2>1. \A a \in Agent : Pending(bus, NameOf[a]) # << >> => Pending(bus, NameOf[a])' # << >>
    BY <1>1
  <2>. QED  BY <1>0, <2>1 DEF MailFor, AnyPending, Names
<1>5. ASSUME check # "none"
      PROVE  /\ knew \subseteq registered' /\ live = Live' \cap knew
             /\ \A a \in registered' \ knew : astate'[a] = "ready"
  BY <1>2, <1>5 DEF CheckInv, Live
<1>6. ASSUME check = "quiescent", NEW a \in live, NEW i \in DOMAIN Pending(bus, NameOf[a])'
      PROVE  Pending(bus, NameOf[a])'[i].id > askedAt
  <2>. DEFINE s == Pending(bus, NameOf[a])
  <2>1. s \in Seq(Message) /\ askedAt \in Nat /\ askedAt <= posted
        /\ \A j \in DOMAIN s : s[j].id > askedAt
    BY <1>0, <1>1, <1>6 DEF CheckInv, TypeOK
  <2>2. CASE Pending(bus, NameOf[a])' = s
    BY <1>6, <2>1, <2>2
  <2>3. ASSUME NEW m, m.id = posted + 1, Pending(bus, NameOf[a])' = Append(s, m)
        PROVE  Pending(bus, NameOf[a])'[i].id > askedAt
    <3>1. CASE i \in DOMAIN s
      BY <2>1, <2>3, <3>1
    <3>2. CASE i \notin DOMAIN s
      <4>1. Append(s, m)[i] = m
        BY <1>6, <2>1, <2>3, <3>2
      <4>. QED  BY <1>0, <2>1, <2>3, <4>1
    <3>. QED  BY <3>1, <3>2
  <2>. QED  BY <1>0, <1>6, <2>2, <2>3
<1>7. check = "quiescent" => askedAt <= posted'
  BY <1>0 DEF CheckInv, TypeOK
<1>. QED  BY <1>3, <1>4, <1>5, <1>6, <1>7 DEF CheckInv

LEMMA CheckStep ==
  ASSUME TypeOK, TypeOK', RegInv, IdleInv, CheckInv, [Next]_vars
  PROVE  CheckInv'
<1>. USE DEF agentVars, mailVars, runVars
<1>0. posted \in Nat /\ registered \subseteq Agent
  BY DEF TypeOK
<1>1. ASSUME check' = "none", inRun' => inRun /\ stopReason' = stopReason PROVE CheckInv'
  BY <1>1 DEF CheckInv
<1>2. CASE \/ BeginTick \/ RefuseTick \/ RunReturns
           \/ \E a \in Agent : Abort(a) \/ OnRestartRaises(a) \/ EscalateRaises(a)
  <2>1. check' = "none" /\ (inRun' => inRun /\ stopReason' = stopReason)
    BY <1>2 DEF BeginTick, RefuseTick, RunReturns, Abort, OnRestartRaises, EscalateRaises,
                StepRaises, Forget
  <2>. QED  BY <1>1, <2>1
<1>3. CASE \E n \in RunLimits : OperatorRuns(n)
  BY <1>3 DEF OperatorRuns, CheckInv
<1>4. CASE ReadLive
  <2>1. /\ live' = Live /\ knew' = registered /\ check' = Found /\ inRun /\ ~inTick
        /\ UNCHANGED << registered, astate, bus, inRun, inTick, stopReason >>
    BY <1>4 DEF ReadLive, jobVars
  <2>2. Live' = Live /\ Live \cap registered = Live /\ (AllWait(Live)' <=> AllWait(Live))
    BY <2>1 DEF Live, Alive, AllWait
  <2>3. AllWait(live)' <=> AllWait(Live)
    BY <2>1 DEF AllWait
  <2>. QED  BY <2>1, <2>2, <2>3 DEF CheckInv, Found
<1>5. CASE AskPending
  <2>1. /\ check = "asking" /\ check' = (IF MailFor(live) THEN "runnable" ELSE "quiescent")
        /\ askedAt' = posted
        /\ UNCHANGED << registered, astate, bus, posted, inRun, inTick, stopReason, live, knew >>
    BY <1>5 DEF AskPending, jobVars
  <2>2. Live' = Live /\ (AllWait(live)' <=> AllWait(live)) /\ (MailFor(live)' <=> MailFor(live))
    BY <2>1 DEF Live, Alive, AllWait, MailFor, AnyPending, Names, Pending
  <2>3. ~MailFor(live) => \A a \in live : Pending(bus, NameOf[a])' = << >>
    BY <2>1 DEF MailFor, AnyPending, Names, Pending
  <2>4. \A a \in live : check' = "quiescent" => \A i \in DOMAIN Pending(bus, NameOf[a])' :
          Pending(bus, NameOf[a])'[i].id > askedAt'
    BY <2>1, <2>3
  <2>. QED  BY <1>0, <2>1, <2>2, <2>4 DEF CheckInv
<1>6. ASSUME NEW N \in Name, OperatorUnregisters(N) PROVE CheckInv'
  BY <1>1, <1>6 DEF OperatorUnregisters, CheckInv
<1>7. ASSUME NEW N \in Name, OperatorPosts(N) PROVE CheckInv'
  <2>1. /\ posted' = posted + 1 /\ UNCHANGED << runVars, registered, astate, inTick >>
        /\ bus' = Deliver(bus, N, NextMail(Operator))
    BY <1>7 DEF OperatorPosts, jobVars
  <2>2. NextMail(Operator).id = posted + 1
    BY DEF NextMail
  <2>3. \A a \in Agent : Pending(bus, NameOf[a])' \in
          {Pending(bus, NameOf[a]), Append(Pending(bus, NameOf[a]), NextMail(Operator))}
    BY <2>1, PendingDeliver DEF Pending
  <2>. QED  BY <1>0, <2>1, <2>2, <2>3, CheckStays
<1>8. ASSUME NEW a \in Agent, NEW p \in Name \cup {None}, OperatorRegisters(a, p) PROVE CheckInv'
  <2>1. /\ UNCHANGED << runVars, posted, astate, inTick >> /\ astate[a] = "ready"
        /\ registered' = registered \cup {a} /\ bus' = RegisterBox(bus, NameOf[a])
    BY <1>8 DEF OperatorRegisters, Register, jobVars, RegInv
  <2>2. \A b \in Agent : Pending(bus, NameOf[b])' = Pending(bus, NameOf[b])
    BY <2>1, PendingOps DEF Pending
  <2>. QED  BY <1>0, <2>1, <2>2, CheckStays
\* No agent has a part in a tick while run() looks.
<1>9. CASE \/ Reclaim
           \/ \E a \in Agent :
                \/ UserCode(a) \/ StartAgent(a) \/ UnregisterMailbox(a) \/ Return(a) \/ Raise(a)
                \/ SuperviseRestarts(a) \/ SuperviseGivesUp(a) \/ Escalate(a)
  <2>1. inTick
    BY <1>9
    DEF Reclaim, UserCode, Send, UnregisterAgent, Spawn, Broadcast, Wait, Exit, StartAgent,
        UnregisterMailbox, Return, Raise, SuperviseRestarts, SuperviseGivesUp, Escalate, InStep,
        NextCasualty, NextFallen, AtBarrier, IdleInv
  <2>2. UNCHANGED runVars
    BY <1>9
    DEF Reclaim, UserCode, Send, UnregisterAgent, Spawn, Broadcast, Wait, Exit, StartAgent,
        UnregisterMailbox, Return, Raise, SuperviseRestarts, SuperviseGivesUp, Escalate
  <2>. QED  BY <1>1, <2>1, <2>2 DEF CheckInv
<1>10. CASE UNCHANGED vars
  <2>1. \A a \in Agent : Pending(bus, NameOf[a])' = Pending(bus, NameOf[a])
    BY <1>10 DEF vars, Pending
  <2>. QED  BY <1>0, <1>10, <2>1, CheckStays DEF vars, jobVars
<1>. QED
  BY <1>2, <1>3, <1>4, <1>5, <1>6, <1>7, <1>8, <1>9, <1>10
  DEF Next, OperatorStep, RunStep, WorkerStep, BarrierStep

\* A run() that ends between ticks, and not by refusing one, returns.
LEMMA RunEnds ==
  ASSUME IdleInv, Next, inRun, ~inRun', ~inTick, tick' = tick, TypeOK
  PROVE  RunReturns
<1>1. CASE RefuseTick \/ BeginTick
  <2>1. tick \in Nat /\ tick' = tick + 1
    BY <1>1 DEF RefuseTick, BeginTick, TypeOK
  <2>. QED  BY <2>1
<1>2. CASE \/ Reclaim
           \/ \E a \in Agent : \/ OnRestartRaises(a) \/ EscalateRaises(a) \/ SuperviseRestarts(a)
                               \/ SuperviseGivesUp(a) \/ Escalate(a) \/ WorkerStep(a)
                               \/ UserCode(a)
  BY <1>2
  DEF Reclaim, OnRestartRaises, EscalateRaises, SuperviseRestarts, SuperviseGivesUp, Escalate,
      NextCasualty, NextFallen, AtBarrier, WorkerStep, StartAgent, UnregisterMailbox, Return,
      Raise, Abort, UserCode, Send, UnregisterAgent, Spawn, Broadcast, Wait, Exit, InStep, IdleInv
<1>3. CASE OperatorStep \/ ReadLive \/ AskPending
  BY <1>3 DEF OperatorStep, OperatorPosts, OperatorUnregisters, OperatorRegisters, OperatorRuns,
              ReadLive, AskPending, runVars
<1>. QED  BY <1>1, <1>2, <1>3 DEF Next, BarrierStep, RunStep

\* What run() says when it returns is so, but for what others posted and
\* registered since it looked: no agent it read lives, or they all wait with no
\* mail that was there, or the ticks it was given are used up; and it says so
\* whenever no agent lives, or the system is quiescent (StopReason's comments).
THEOREM StopReasonIsTrue == Spec => StopReasonTrue
<1>. DEFINE True == inRun /\ ~inRun' /\ ~inTick /\ tick' = tick =>
       /\ Live = {} => stopReason' = "finished"
       /\ IsQuiescent => stopReason' = "quiescent"
       /\ stopReason' = "finished" => Live \cap knew = {}
       /\ stopReason' = "quiescent" => \A a \in Live \cap knew :
            /\ astate[a] = "waiting"
            /\ \A i \in DOMAIN Pending(bus, NameOf[a]) :
                 Pending(bus, NameOf[a])[i].id > askedAt
       /\ stopReason' = "max_ticks" => budget = 0
<1>1. TypeOK /\ IdleInv /\ [Next]_vars => IdleInv'
  BY IdleStep
<1>2. TypeOK /\ TypeOK' /\ RegInv /\ IdleInv /\ CheckInv /\ [Next]_vars => CheckInv'
  BY CheckStep
<1>3. TypeOK /\ IdleInv /\ CheckInv /\ [Next]_vars => [True]_vars
  <2>. SUFFICES ASSUME TypeOK, IdleInv, CheckInv, Next, inRun, ~inRun', ~inTick, tick' = tick
                PROVE  True
    OBVIOUS
  <2>1. /\ check \in {"finished", "quiescent"} \/ (check = "runnable" /\ budget = 0)
        /\ stopReason' = IF check = "runnable" THEN stopReason ELSE check
    BY RunEnds DEF RunReturns
  <2>2. /\ stopReason = "max_ticks" /\ live = Live \cap knew /\ Live \subseteq registered
        /\ \A a \in Live \ knew : astate[a] = "ready"
    BY <2>1 DEF CheckInv, Live
  <2>3. CASE check = "finished"
    <3>1. Live \cap knew = {} /\ (AllWait(Live) => Live = {})
      BY <2>2, <2>3 DEF CheckInv, AllWait
    <3>. QED  BY <2>1, <2>3, <3>1 DEF IsQuiescent
  <2>4. CASE check = "quiescent"
    <3>1. live # {} /\ AllWait(live) /\ \A a \in live : \A i \in DOMAIN Pending(bus, NameOf[a]) :
            Pending(bus, NameOf[a])[i].id > askedAt
      BY <2>4 DEF CheckInv
    <3>. QED  BY <2>1, <2>2, <2>4, <3>1 DEF AllWait
  <2>5. CASE check = "runnable"
    <3>1. ~AllWait(live) \/ MailFor(live)
      BY <2>5 DEF CheckInv
    <3>2. live # {} /\ (~AllWait(live) => ~AllWait(Live)) /\ (MailFor(live) => MailFor(Live))
      BY <2>2, <2>5 DEF CheckInv, AllWait, MailFor, AnyPending, Names
    <3>. QED  BY <2>1, <2>2, <2>5, <3>1, <3>2 DEF IsQuiescent
  <2>. QED  BY <2>1, <2>3, <2>4, <2>5
<1>. QED
  BY IdleInit, CheckInit, TypeCorrect, Registry, <1>1, <1>2, <1>3, PTL
  DEF Spec, StopReasonTrue

LEMMA StaysSettled ==
  ASSUME TypeOK, Settled, Next, posted' = posted, registered' = registered
  PROVE  Settled'
<1>0. /\ \A a \in Agent : job[a] \in {"none", "skipped"}
      /\ \A a \in Live : astate[a] = "waiting" /\ Pending(bus, NameOf[a]) = << >>
      /\ Live # {} /\ Live \subseteq Agent /\ Scheduled = {}
  BY SMTT(30) DEF TypeOK, Settled, JobsIn, JobStates, IsQuiescent, AllWait, MailFor, AnyPending, Names, Live, Scheduled
\* It is enough that the states stay, no mail comes and no agent is queued.
<1>1. ASSUME astate' = astate, \A N : Pending(bus, N)' \in {<< >>, Pending(bus, N)},
             \A a \in Agent : job'[a] \in {"none", "skipped"}
      PROVE  Settled'
  <2>1. Live' = Live
    BY <1>1 DEF Live, Alive
  <2>. QED
    BY <1>0, <1>1, <2>1 DEF Settled, IsQuiescent, AllWait, MailFor, AnyPending, Names, JobsIn
<1>2. ASSUME \/ \E N \in Name : OperatorPosts(N) \/ OperatorUnregisters(N)
             \/ \E a \in Agent, p \in Name \cup {None} : OperatorRegisters(a, p)
      PROVE  FALSE
  <2>1. ASSUME NEW N \in Name, OperatorPosts(N) PROVE FALSE
    BY <2>1 DEF OperatorPosts, TypeOK
  <2>2. ASSUME NEW N \in Name, OperatorUnregisters(N) PROVE FALSE
    BY <2>2 DEF OperatorUnregisters, Names
  <2>3. ASSUME NEW a \in Agent, NEW p \in Name \cup {None}, OperatorRegisters(a, p) PROVE FALSE
    BY <2>3 DEF OperatorRegisters, Register, Names
  <2>. QED  BY <1>2, <2>1, <2>2, <2>3
<1>3. ASSUME NEW a \in Agent,
             \/ UserCode(a) \/ StartAgent(a) \/ Return(a) \/ Raise(a) \/ Abort(a)
             \/ SuperviseRestarts(a) \/ OnRestartRaises(a) \/ SuperviseGivesUp(a)
             \/ Escalate(a) \/ EscalateRaises(a)
      PROVE  FALSE
  BY <1>0, <1>3
  DEF UserCode, Send, UnregisterAgent, Spawn, Broadcast, Wait, Exit, StartAgent, Return, Raise,
      Abort, SuperviseRestarts, OnRestartRaises, SuperviseGivesUp, Escalate, EscalateRaises,
      InStep, NextCasualty, NextFallen, IsFirst, JobsIn
<1>4. CASE (\E n \in RunLimits : OperatorRuns(n)) \/ RunStep
  BY <1>0, <1>1, <1>4
  DEF OperatorRuns, RunStep, ReadLive, AskPending, RunReturns, mailVars, jobVars
<1>5. CASE BeginTick
  BY <1>0, <1>1, <1>5, PendingOps DEF BeginTick, Pending
<1>6. CASE RefuseTick
  BY <1>0, <1>6 DEF RefuseTick, Refused
<1>7. CASE Reclaim \/ \E a \in Agent : UnregisterMailbox(a)
  <2>1. UNCHANGED astate /\ \E S : bus' = UnregisterBoxes(bus, S)
    BY <1>7 DEF Reclaim, UnregisterMailbox
  <2>2. \A N : Pending(bus, N)' \in {<< >>, Pending(bus, N)}
    BY <2>1, PendingOps DEF Pending
  <2>3. \A a \in Agent : job'[a] \in {"none", "skipped"}
    BY <1>0, <1>7 DEF Reclaim, UnregisterMailbox, jobVars
  <2>. QED  BY <1>1, <2>1, <2>2, <2>3
<1>. QED
  BY <1>2, <1>3, <1>4, <1>5, <1>6, <1>7 DEF Next, OperatorStep, WorkerStep, BarrierStep

\* Once quiescent the system stays so, and no tick runs an agent, until the
\* operator posts, registers or unregisters (StopReason.QUIESCENT's comment).
THEOREM QuiescentForGood == Spec => QuiescenceIsFinal
<1>. DEFINE Final == Settled /\ posted' = posted /\ registered' = registered => Settled'
<1>1. TypeOK /\ [Next]_vars => [Final]_vars
  BY StaysSettled
<1>. QED  BY TypeCorrect, <1>1, PTL DEF Spec, QuiescenceIsFinal

=============================================================================
