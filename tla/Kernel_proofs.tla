---------------------------- MODULE Kernel_proofs ---------------------------
(***************************************************************************)
(* Theorems about the scheduler, for any agents, names, policies, number   *)
(* of workers and bounds.                                                  *)
(***************************************************************************)
EXTENDS Kernel, FiniteSetTheorems, TLAPS

\* A bus as TypeOK has it.
IsBus(b) == DOMAIN b \subseteq Name /\ b \in [DOMAIN b -> Seq(Message)]

-----------------------------------------------------------------------------
(* What the methods of the bus give back is a bus.                         *)

LEMMA PendingType ==
  ASSUME NEW b, IsBus(b), NEW N
  PROVE  Pending(b, N) \in Seq(Message)
BY DEF IsBus, Pending

LEMMA RegisterBoxType ==
  ASSUME NEW b, IsBus(b), NEW N \in Name
  PROVE  IsBus(RegisterBox(b, N))
BY DEF IsBus, RegisterBox

LEMMA UnregisterBoxesType ==
  ASSUME NEW b, IsBus(b), NEW S
  PROVE  IsBus(UnregisterBoxes(b, S))
BY DEF IsBus, UnregisterBoxes

LEMMA DrainType ==
  ASSUME NEW b, IsBus(b), NEW S
  PROVE  IsBus(Drain(b, S))
BY DEF IsBus, Drain

LEMMA DeliverType ==
  ASSUME NEW b, IsBus(b), NEW N, NEW m \in Message
  PROVE  IsBus(Deliver(b, N, m))
<1>1. \A M \in DOMAIN b : Append(b[M], m) \in Seq(Message)
  BY DEF IsBus
<1>2. DOMAIN Deliver(b, N, m) = DOMAIN b
  BY DEF Deliver
<1>3. \A M \in DOMAIN b : Deliver(b, N, m)[M] \in Seq(Message)
  BY <1>1 DEF IsBus, Deliver
<1>4. Deliver(b, N, m) \in [DOMAIN b -> Seq(Message)]
  BY <1>3 DEF Deliver
<1>. QED  BY <1>2, <1>4 DEF IsBus

LEMMA DeliverAllType ==
  ASSUME NEW b, IsBus(b), NEW m \in Message
  PROVE  IsBus(DeliverAll(b, m))
BY DEF IsBus, DeliverAll

LEMMA RequeueType ==
  ASSUME NEW b, IsBus(b), NEW N, NEW mail \in Seq(Message)
  PROVE  IsBus(Requeue(b, N, mail))
BY DEF IsBus, Requeue

LEMMA NoMailType ==
  [a \in Agent |-> << >>] \in [Agent -> Seq(Message)]
<1>. << >> \in Seq(Message)
  OBVIOUS
<1>. QED  OBVIOUS

LEMMA NextMailType ==
  ASSUME posted \in Nat, NEW sender \in Name \cup {Operator}
  PROVE  NextMail(sender) \in Message
BY DEF NextMail, Message

-----------------------------------------------------------------------------
(* Type correctness.                                                       *)

LEMMA InitType == Init => TypeOK
<1>. SUFFICES ASSUME Init PROVE TypeOK
  OBVIOUS
<1>1. \A i \in 1..Len(Boot) : Boot[i] \in Agent
  BY BootAssumption
<1>2. registered \subseteq Agent
  BY <1>1 DEF Init
<1>3. regno \in [Agent -> Nat]
  <2>1. ASSUME NEW a \in registered
        PROVE  (CHOOSE i \in 1..Len(Boot) : Boot[i] = a) \in Nat
    <3>1. \E i \in 1..Len(Boot) : Boot[i] = a
      BY DEF Init
    <3>. QED  BY <3>1
  <2>. QED  BY <2>1 DEF Init
<1>4. parent \in [Agent -> Name \cup {None}]
  BY BootAssumption DEF Init
<1>5. IsBus(bus)
  BY <1>2, NamesAssumption DEF Init, EmptyBus, Names, IsBus
<1>6. inbox \in [Agent -> Seq(Message)]
  BY NoMailType DEF Init
<1>7. /\ astate \in [Agent -> AgentStates] /\ job \in [Agent -> JobStates]
      /\ restarts \in [Agent -> Nat] /\ errors \in [Agent -> Nat] /\ told \in [Agent -> Nat]
      /\ dropping \in [Agent -> Name \cup {None}]
  BY DEF Init, AgentStates, JobStates
<1>8. /\ posted \in Nat /\ tick \in Nat /\ horizon \in Nat /\ budget \in Nat
      /\ inTick \in BOOLEAN /\ inRun \in BOOLEAN /\ stopReason \in StopReasons
      /\ check \in Checks /\ live \subseteq Agent /\ knew \subseteq Agent /\ askedAt \in Nat
  BY DEF Init, StopReasons, Checks
<1>. QED  BY <1>2, <1>3, <1>4, <1>5, <1>6, <1>7, <1>8 DEF TypeOK, IsBus

\* An agent being registered is the only step that changes these four.
LEMMA RegisterType ==
  ASSUME TypeOK, NEW a \in Agent, NEW p \in Name \cup {None}, Register(a, p)
  PROVE  /\ registered' \subseteq Agent /\ regno' \in [Agent -> Nat]
         /\ parent' \in [Agent -> Name \cup {None}] /\ IsBus(bus')
<1>1. Cardinality({b \in Agent : regno[b] # 0}) \in Nat
  BY NamesAssumption, FS_Subset, FS_CardinalityType
<1>2. IsBus(bus')
  BY RegisterBoxType, NamesAssumption DEF TypeOK, Register, IsBus
<1>. QED  BY <1>1, <1>2 DEF TypeOK, Register

LEMMA StepRaisesType ==
  ASSUME TypeOK, StepRaises
  PROVE  /\ inTick' \in BOOLEAN /\ inRun' \in BOOLEAN /\ budget' \in Nat
         /\ job' \in [Agent -> JobStates] /\ inbox' \in [Agent -> Seq(Message)]
         /\ stopReason' \in StopReasons /\ horizon' \in Nat
         /\ check' \in Checks /\ live' \subseteq Agent /\ knew' \subseteq Agent
         /\ askedAt' \in Nat
<1>1. inbox' \in [Agent -> Seq(Message)]
  BY NoMailType DEF StepRaises
<1>2. job' \in [Agent -> JobStates]
  BY DEF StepRaises, JobStates
<1>. QED  BY <1>1, <1>2 DEF TypeOK, StepRaises, Forget, Checks

LEMMA OperatorType ==
  ASSUME TypeOK, OperatorStep \/ RunStep
  PROVE  TypeOK'
<1>. USE DEF TypeOK
<1>1. ASSUME NEW N \in Name, OperatorPosts(N) PROVE TypeOK'
  <2>1. IsBus(bus')
    BY <1>1, DeliverType, NextMailType DEF OperatorPosts, IsBus
  <2>. QED  BY <1>1, <2>1 DEF OperatorPosts, IsBus, agentVars, runVars, jobVars, failVars
<1>2. ASSUME NEW N \in Name, OperatorUnregisters(N) PROVE TypeOK'
  <2>1. IsBus(bus')
    BY <1>2, UnregisterBoxesType DEF OperatorUnregisters, IsBus
  <2>. QED  BY <1>2, <2>1 DEF OperatorUnregisters, IsBus, runVars, jobVars, failVars
<1>3. ASSUME NEW a \in Agent, NEW p \in Name \cup {None}, OperatorRegisters(a, p)
      PROVE  TypeOK'
  <2>1. Register(a, p)
    BY <1>3 DEF OperatorRegisters
  <2>. QED
    BY <1>3, <2>1, RegisterType DEF OperatorRegisters, IsBus, runVars, jobVars, failVars
<1>4. ASSUME NEW n \in RunLimits, OperatorRuns(n) PROVE TypeOK'
  BY <1>4, BoundsAssumption
  DEF OperatorRuns, StopReasons, agentVars, mailVars, jobVars, failVars
<1>5. CASE ReadLive
  BY <1>5 DEF ReadLive, Live, Found, Checks, agentVars, mailVars, jobVars, failVars
<1>6. CASE AskPending
  BY <1>6 DEF AskPending, Checks, agentVars, mailVars, jobVars, failVars
<1>7. CASE RunReturns
  BY <1>7 DEF RunReturns, Forget, Checks, StopReasons, agentVars, mailVars, jobVars, failVars
<1>. QED  BY <1>1, <1>2, <1>3, <1>4, <1>5, <1>6, <1>7 DEF OperatorStep, RunStep

LEMMA TickType ==
  ASSUME TypeOK, BeginTick \/ RefuseTick
  PROVE  TypeOK'
<1>. USE DEF TypeOK
<1>1. IsBus(Drain(bus, Names(Live)))
  BY DrainType DEF IsBus
<1>2. CASE BeginTick
  <2>1. inbox' \in [Agent -> Seq(Message)]
    <3>0. IsBus(bus)
      BY DEF IsBus
    <3>1. \A a \in Agent : Pending(bus, NameOf[a]) \in Seq(Message) /\ << >> \in Seq(Message)
      BY <3>0, PendingType
    <3>2. inbox' = [a \in Agent |-> IF a \in Scheduled THEN Pending(bus, NameOf[a]) ELSE << >>]
      BY <1>2 DEF BeginTick
    <3>. QED  BY <3>1, <3>2
  <2>2. job' \in [Agent -> JobStates]
    BY <1>2 DEF BeginTick, JobStates
  <2>3. budget' \in Nat
    BY <1>2 DEF BeginTick, StepCalled, Checks
  <2>4. /\ check' \in Checks /\ live' \subseteq Agent /\ knew' \subseteq Agent
        /\ askedAt' \in Nat
    BY <1>2 DEF BeginTick, Forget, Checks
  <2>. QED
    BY <1>1, <1>2, <2>1, <2>2, <2>3, <2>4 DEF BeginTick, IsBus, agentVars, failVars
<1>3. CASE RefuseTick
  BY <1>1, <1>3, StepRaisesType, SMTT(30) DEF RefuseTick, IsBus, agentVars, failVars
<1>. QED  BY <1>2, <1>3

LEMMA UserCodeType ==
  ASSUME TypeOK, NEW a \in Agent, UserCode(a)
  PROVE  TypeOK'
<1>. USE DEF TypeOK
<1>1. ASSUME NEW N \in Name, Send(a, N) PROVE TypeOK'
  <2>1. IsBus(bus')
    BY <1>1, DeliverType, NextMailType, NamesAssumption DEF Send, IsBus
  <2>. QED  BY <1>1, <2>1, SMTT(30) DEF Send, IsBus, agentVars, runVars, jobVars, failVars
<1>2. ASSUME NEW N \in Name, UnregisterAgent(a, N) PROVE TypeOK'
  BY <1>2 DEF UnregisterAgent, mailVars, runVars, jobVars, failVars
<1>3. ASSUME NEW b \in Agent, Spawn(a, b) PROVE TypeOK'
  <2>1. Register(b, NameOf[a])
    BY <1>3 DEF Spawn
  <2>. QED
    BY <1>3, <2>1, RegisterType, NamesAssumption DEF Spawn, IsBus, runVars, jobVars, failVars
<1>4. CASE Broadcast(a)
  <2>1. IsBus(bus')
    BY <1>4, DeliverAllType, NextMailType, NamesAssumption DEF Broadcast, IsBus
  <2>. QED  BY <1>4, <2>1 DEF Broadcast, IsBus, agentVars, runVars, jobVars, failVars
<1>5. CASE Wait(a)
  BY <1>5 DEF Wait, AgentStates, agentVars, mailVars, runVars, jobVars, failVars
<1>6. CASE Exit(a)
  BY <1>6 DEF Exit, AgentStates, agentVars, mailVars, runVars, jobVars, failVars
<1>. QED  BY <1>1, <1>2, <1>3, <1>4, <1>5, <1>6 DEF UserCode

LEMMA WorkerType ==
  ASSUME TypeOK, NEW a \in Agent, WorkerStep(a)
  PROVE  TypeOK'
<1>. USE DEF TypeOK
<1>1. CASE StartAgent(a)
  BY <1>1 DEF StartAgent, JobStates, AgentStates, agentVars, mailVars, runVars, failVars
<1>2. CASE UnregisterMailbox(a)
  <2>1. IsBus(bus')
    BY <1>2, UnregisterBoxesType DEF UnregisterMailbox, IsBus
  <2>. QED
    BY <1>2, <2>1 DEF UnregisterMailbox, IsBus, agentVars, runVars, jobVars, failVars
<1>3. CASE Return(a)
  BY <1>3, SMTT(30) DEF Return, JobStates, AgentStates, agentVars, mailVars, runVars, failVars
<1>4. CASE Raise(a)
  BY <1>4, SMTT(30) DEF Raise, JobStates, AgentStates, agentVars, mailVars, runVars
<1>5. CASE Abort(a)
  BY <1>5, StepRaisesType DEF Abort, agentVars, mailVars, failVars
<1>. QED  BY <1>1, <1>2, <1>3, <1>4, <1>5 DEF WorkerStep

LEMMA BarrierType ==
  ASSUME TypeOK, BarrierStep
  PROVE  TypeOK'
<1>. USE DEF TypeOK
<1>1. ASSUME NEW a \in Agent, SuperviseRestarts(a) PROVE TypeOK'
  <2>1. IsBus(bus')
    BY <1>1, RequeueType DEF SuperviseRestarts, IsBus
  <2>. QED
    BY <1>1, <2>1, SMTT(30) DEF SuperviseRestarts, IsBus, JobStates, AgentStates, agentVars, runVars
<1>2. ASSUME NEW a \in Agent, OnRestartRaises(a) PROVE TypeOK'
  <2>1. StepRaises /\ restarts' \in [Agent -> Nat]
    BY <1>2 DEF OnRestartRaises
  <2>2. UNCHANGED << agentVars, mailVars, astate, dropping, errors, told, tick >>
    BY <1>2 DEF OnRestartRaises
  <2>. QED  BY <2>1, <2>2, StepRaisesType DEF agentVars, mailVars
<1>3. ASSUME NEW a \in Agent, SuperviseGivesUp(a) PROVE TypeOK'
  BY <1>3 DEF SuperviseGivesUp, JobStates, agentVars, mailVars, runVars, failVars
<1>4. ASSUME NEW a \in Agent, Escalate(a) PROVE TypeOK'
  <2>1. IsBus(bus') /\ posted' \in Nat /\ told' \in [Agent -> Nat]
    <3>1. [id |-> posted + 1, from |-> NameOf[a], kind |-> "child_failed"] \in Message
      BY NamesAssumption DEF Message
    <3>2. CASE HasLiveParent(a)
      <4>1. bus' = Deliver(bus, parent[a], [id |-> posted + 1, from |-> NameOf[a],
                                            kind |-> "child_failed"])
        BY <1>4, <3>2 DEF Escalate
      <4>2. IsBus(bus')
        BY <3>1, <4>1, DeliverType DEF IsBus
      <4>3. posted' = posted + 1 /\ told' = [told EXCEPT ![a] = @ + 1]
        BY <1>4, <3>2 DEF Escalate
      <4>. QED  BY <4>2, <4>3
    <3>3. CASE ~HasLiveParent(a)
      BY <1>4, <3>3 DEF Escalate, IsBus
    <3>. QED  BY <3>2, <3>3
  <2>. QED  BY <1>4, <2>1 DEF Escalate, IsBus, JobStates, agentVars, runVars
<1>5. ASSUME NEW a \in Agent, EscalateRaises(a) PROVE TypeOK'
  BY <1>5, StepRaisesType DEF EscalateRaises, agentVars, mailVars, failVars
<1>6. CASE Reclaim
  <2>1. IsBus(bus')
    BY <1>6, UnregisterBoxesType DEF Reclaim, IsBus
  <2>2. inbox' \in [Agent -> Seq(Message)]
    BY <1>6, NoMailType DEF Reclaim
  <2>3. job' \in [Agent -> JobStates]
    BY <1>6 DEF Reclaim, JobStates
  <2>. QED
    BY <1>6, <2>1, <2>2, <2>3 DEF Reclaim, IsBus, agentVars, runVars, failVars
<1>. QED  BY <1>1, <1>2, <1>3, <1>4, <1>5, <1>6 DEF BarrierStep

LEMMA TypeStep ==
  ASSUME TypeOK, [Next]_vars
  PROVE  TypeOK'
<1>1. CASE Next
  BY <1>1, OperatorType, TickType, UserCodeType, WorkerType, BarrierType DEF Next
<1>2. CASE UNCHANGED vars
  BY <1>2 DEF vars, TypeOK, agentVars, mailVars, runVars, jobVars, failVars
<1>. QED  BY <1>1, <1>2

\* Every variable keeps its type, whatever the agents call, fail or abort.
THEOREM TypeCorrect == Spec => []TypeOK
<1>1. TypeOK /\ [Next]_vars => TypeOK'
  BY TypeStep
<1>. QED  BY InitType, <1>1, PTL DEF Spec

-----------------------------------------------------------------------------
(* Mail is handed out in order, and never within the tick that sent it.    *)
(*                                                                         *)
(* MailOrder and TickBarrier speak of the agents' inboxes and of the       *)
(* mailboxes of their names, so what makes them inductive is that no two   *)
(* agents of a tick share a name, and that every message sent has an id    *)
(* no greater than posted.  All steps but two are tame: they empty, keep   *)
(* or append one new message to each mailbox, and empty or keep each       *)
(* inbox.  The drain at the start of a tick and the requeue of a restarted *)
(* agent are the others.                                                   *)

NamesUnique == \A a, b \in registered : NameOf[a] = NameOf[b] => a = b
JobsUnique ==
  \A a, b \in Agent : job[a] # "none" /\ job[b] # "none" /\ NameOf[a] = NameOf[b] => a = b
InHandOfJobs == \A a \in Agent : inbox[a] # << >> => job[a] # "none"
AllSent ==
  /\ horizon <= posted
  /\ \A N \in Name : \A i \in DOMAIN Pending(bus, N) : Pending(bus, N)[i].id <= posted
  /\ \A a \in Agent : \A i \in DOMAIN inbox[a] : inbox[a][i].id <= posted
InvMail ==
  TypeOK /\ NamesUnique /\ JobsUnique /\ InHandOfJobs /\ AllSent /\ MailOrder /\ TickBarrier

MailboxTame(N) ==
  \/ Pending(bus, N)' = << >>
  \/ Pending(bus, N)' = Pending(bus, N)
  \/ /\ posted' = posted + 1
     /\ \E m \in Message : m.id = posted + 1 /\ Pending(bus, N)' = Append(Pending(bus, N), m)

Tame ==
  /\ \A N \in Name : MailboxTame(N)
  /\ posted' \in {posted, posted + 1} /\ horizon' = horizon
  /\ inTick' => inTick
  /\ \A a \in Agent :
       /\ inbox'[a] \in {<< >>, inbox[a]} /\ (inbox'[a] # << >> => job'[a] # "none")
       /\ job'[a] # "none" => job[a] # "none"
       /\ job'[a] \notin {"none", "restarted"} => job[a] \notin {"none", "restarted"}

LEMMA IdsAreNumbers ==
  ASSUME NEW s \in Seq(Message), NEW i \in DOMAIN s
  PROVE  s[i].id \in Nat
<1>1. s[i] \in Message
  OBVIOUS
<1>. QED  BY <1>1 DEF Message

LEMMA OrderedAppend ==
  ASSUME NEW s \in Seq(Message), NEW m \in Message, Ordered(s),
         \A i \in DOMAIN s : s[i].id < m.id
  PROVE  Ordered(Append(s, m))
<1>1. \A i \in DOMAIN s : s[i].id \in Nat
  BY IdsAreNumbers
<1>. QED  BY <1>1 DEF Ordered, Message

LEMMA OrderedConcat ==
  ASSUME NEW s \in Seq(Message), NEW t \in Seq(Message), Ordered(s), Ordered(t),
         \A i \in DOMAIN s, j \in DOMAIN t : s[i].id < t[j].id
  PROVE  Ordered(s \o t)
BY DEF Ordered

LEMMA PendingBus ==
  ASSUME TypeOK, NEW N
  PROVE  Pending(bus, N) \in Seq(Message)
BY PendingType DEF TypeOK, IsBus

\* What a tame step leaves in a mailbox: the old messages, and one new at most.
LEMMA TameMailbox ==
  ASSUME InvMail, TypeOK', Tame, NEW N \in Name
  PROVE  /\ Ordered(Pending(bus, N)')
         /\ \A j \in DOMAIN Pending(bus, N)' :
              /\ Pending(bus, N)'[j].id <= posted'
              /\ \/ Pending(bus, N)'[j].id = posted + 1
                 \/ \E k \in DOMAIN Pending(bus, N) : Pending(bus, N)'[j] = Pending(bus, N)[k]
<1>. DEFINE s == Pending(bus, N)
<1>1. s \in Seq(Message) /\ posted \in Nat /\ posted' \in Nat /\ posted <= posted'
  <2>1. posted \in Nat /\ posted' \in {posted, posted + 1} /\ TypeOK
    BY DEF InvMail, TypeOK, Tame
  <2>. QED  BY <2>1, PendingBus
<1>2. Ordered(s)
  <2>1. CASE N \in DOMAIN bus
    BY <2>1 DEF InvMail, MailOrder, Pending
  <2>2. CASE N \notin DOMAIN bus
    BY <2>2 DEF Pending, Ordered
  <2>. QED  BY <2>1, <2>2
<1>3. \A i \in DOMAIN s : s[i].id <= posted /\ s[i].id \in Nat
  BY <1>1, IdsAreNumbers DEF InvMail, AllSent
<1>4. CASE Pending(bus, N)' = << >>
  BY <1>4 DEF Ordered
<1>5. CASE Pending(bus, N)' = s
  <2>1. \A j \in DOMAIN s : s[j].id <= posted'
    BY <1>1, <1>3
  <2>. QED  BY <1>2, <1>5, <2>1
<1>6. ASSUME posted' = posted + 1, NEW m \in Message, m.id = posted + 1,
             Pending(bus, N)' = Append(s, m)
      PROVE  /\ Ordered(Pending(bus, N)')
             /\ \A j \in DOMAIN Pending(bus, N)' :
                  /\ Pending(bus, N)'[j].id <= posted'
                  /\ \/ Pending(bus, N)'[j].id = posted + 1
                     \/ \E k \in DOMAIN s : Pending(bus, N)'[j] = s[k]
  <2>1. \A i \in DOMAIN s : s[i].id < m.id
    BY <1>1, <1>3, <1>6
  <2>2. Ordered(Append(s, m))
    BY <1>1, <1>2, <2>1, OrderedAppend
  <2>3. ASSUME NEW j \in DOMAIN Append(s, m)
        PROVE  /\ Append(s, m)[j].id <= posted + 1
               /\ \/ Append(s, m)[j].id = posted + 1
                  \/ \E k \in DOMAIN s : Append(s, m)[j] = s[k]
    <3>1. CASE j \in DOMAIN s
      <4>1. Append(s, m)[j] = s[j]
        BY <1>1, <3>1
      <4>2. s[j].id <= posted + 1
        BY <1>1, <1>3, <3>1
      <4>. QED  BY <3>1, <4>1, <4>2
    <3>2. CASE j \notin DOMAIN s
      <4>1. Append(s, m)[j] = m
        BY <1>1, <2>3, <3>2
      <4>. QED  BY <1>1, <1>6, <4>1
    <3>. QED  BY <3>1, <3>2
  <2>. QED  BY <1>6, <2>2, <2>3
<1>. QED  BY <1>4, <1>5, <1>6 DEF Tame, MailboxTame

\* Tame steps that register no agent keep the invariant.
LEMMA TameKeeps ==
  ASSUME InvMail, TypeOK', Tame, NamesUnique'
  PROVE  InvMail'
<1>1. JobsUnique' /\ InHandOfJobs'
  BY DEF InvMail, JobsUnique, InHandOfJobs, Tame
<1>2. /\ posted \in Nat /\ posted' \in Nat /\ posted <= posted' /\ horizon' = horizon
      /\ horizon \in Nat /\ horizon <= posted /\ NameOf \in [Agent -> Name]
      /\ \A a \in Agent : inbox[a] \in Seq(Message)
  BY NamesAssumption DEF InvMail, AllSent, TypeOK, Tame
<1>3. ASSUME NEW a \in Agent
      PROVE  /\ Ordered(inbox'[a])
             /\ \A i \in DOMAIN inbox'[a] : /\ inbox'[a] = inbox[a]
                                           /\ inbox[a][i].id \in Nat
                                           /\ inbox[a][i].id <= posted
  <2>1. CASE inbox'[a] = << >>
    BY <2>1 DEF Ordered
  <2>2. CASE inbox'[a] = inbox[a]
    BY <1>2, <2>2, IdsAreNumbers DEF InvMail, MailOrder, AllSent
  <2>. QED  BY <2>1, <2>2 DEF Tame
<1>4. AllSent'
  BY <1>2, <1>3, TameMailbox DEF AllSent
<1>5. MailOrder'
  <2>1. ASSUME NEW N \in DOMAIN bus' PROVE Ordered(bus'[N])
    <3>1. N \in Name /\ Pending(bus, N)' = bus'[N]
      BY DEF TypeOK, Pending
    <3>. QED  BY <3>1, TameMailbox
  <2>2. ASSUME NEW a \in Agent, NEW i \in DOMAIN inbox'[a],
               NEW j \in DOMAIN Pending(bus, NameOf[a])'
        PROVE  inbox'[a][i].id < Pending(bus, NameOf[a])'[j].id
    <3>1. inbox'[a] = inbox[a] /\ inbox[a][i].id \in Nat /\ inbox[a][i].id <= posted
      BY <1>3
    <3>2. CASE Pending(bus, NameOf[a])'[j].id = posted + 1
      BY <1>2, <3>1, <3>2
    <3>3. ASSUME NEW k \in DOMAIN Pending(bus, NameOf[a]),
                 Pending(bus, NameOf[a])'[j] = Pending(bus, NameOf[a])[k]
          PROVE  inbox'[a][i].id < Pending(bus, NameOf[a])'[j].id
      BY <3>1, <3>3 DEF InvMail, MailOrder
    <3>. QED  BY <1>2, <3>2, <3>3, TameMailbox
  <2>. QED  BY <1>3, <2>1, <2>2 DEF MailOrder
<1>6. TickBarrier'
  <2>. SUFFICES ASSUME inTick', NEW a \in Agent
                PROVE  /\ \A i \in DOMAIN inbox'[a] : inbox'[a][i].id <= horizon'
                       /\ job'[a] \notin {"none", "restarted"} =>
                            \A j \in DOMAIN Pending(bus, NameOf[a])' :
                               Pending(bus, NameOf[a])'[j].id > horizon'
    BY DEF TickBarrier
  <2>1. inTick
    BY DEF Tame
  <2>2. \A i \in DOMAIN inbox'[a] : inbox'[a][i].id <= horizon'
    BY <1>2, <1>3, <2>1 DEF InvMail, TickBarrier
  <2>3. ASSUME job'[a] \notin {"none", "restarted"}, NEW j \in DOMAIN Pending(bus, NameOf[a])'
        PROVE  Pending(bus, NameOf[a])'[j].id > horizon'
    <3>1. job[a] \notin {"none", "restarted"}
      BY <2>3 DEF Tame
    <3>2. CASE Pending(bus, NameOf[a])'[j].id = posted + 1
      BY <1>2, <3>2
    <3>3. ASSUME NEW k \in DOMAIN Pending(bus, NameOf[a]),
                 Pending(bus, NameOf[a])'[j] = Pending(bus, NameOf[a])[k]
          PROVE  Pending(bus, NameOf[a])'[j].id > horizon'
      BY <1>2, <2>1, <3>1, <3>3 DEF InvMail, TickBarrier
    <3>. QED  BY <1>2, <3>2, <3>3, TameMailbox
  <2>. QED  BY <2>2, <2>3
<1>. QED  BY <1>1, <1>4, <1>5, <1>6 DEF InvMail

\* What the methods of the bus do to the mail of one name.
LEMMA PendingOps ==
  ASSUME NEW b, NEW M
  PROVE  /\ \A N : Pending(RegisterBox(b, N), M) = Pending(b, M)
         /\ \A S : Pending(UnregisterBoxes(b, S), M) \in {<< >>, Pending(b, M)}
         /\ \A S : Pending(Drain(b, S), M) = IF M \in S THEN << >> ELSE Pending(b, M)
         /\ \A m : Pending(DeliverAll(b, m), M) \in {Pending(b, M), Append(Pending(b, M), m)}
<1>1. \A N : Pending(RegisterBox(b, N), M) = Pending(b, M)
  BY DEF Pending, RegisterBox
<1>2. \A S : Pending(UnregisterBoxes(b, S), M) \in {<< >>, Pending(b, M)}
  BY DEF Pending, UnregisterBoxes
<1>3. \A S : Pending(Drain(b, S), M) = IF M \in S THEN << >> ELSE Pending(b, M)
  BY DEF Pending, Drain
<1>4. \A m : Pending(DeliverAll(b, m), M) \in {Pending(b, M), Append(Pending(b, M), m)}
  BY DEF Pending, DeliverAll
<1>. QED  BY <1>1, <1>2, <1>3, <1>4

LEMMA PendingDeliver ==
  ASSUME NEW b, NEW M, NEW N, NEW m
  PROVE  Pending(Deliver(b, N, m), M) \in {Pending(b, M), Append(Pending(b, M), m)}
BY DEF Pending, Deliver

LEMMA PendingRequeue ==
  ASSUME NEW b, NEW M, NEW N, NEW mail
  PROVE  Pending(Requeue(b, N, mail), M) =
           IF M = N /\ N \in DOMAIN b THEN mail \o Pending(b, M) ELSE Pending(b, M)
BY DEF Pending, Requeue

\* Steps of user code and of the operator leave the jobs and the inboxes alone.
LEMMA PostTame ==
  ASSUME InvMail, NEW m \in Message, m.id = posted + 1, posted' = posted + 1,
         \A M \in Name : Pending(bus, M)' \in {Pending(bus, M), Append(Pending(bus, M), m)},
         UNCHANGED << horizon, inTick, inbox >>,
         \A a \in Agent : /\ job'[a] # "none" <=> job[a] # "none"
                          /\ job'[a] = "restarted" <=> job[a] = "restarted"
  PROVE  Tame
BY DEF Tame, MailboxTame, InvMail, InHandOfJobs

LEMMA QuietTame ==
  ASSUME InvMail,
         \A M \in Name : Pending(bus, M)' \in {<< >>, Pending(bus, M)},
         UNCHANGED << posted, horizon >>, inTick' => inTick,
         \A a \in Agent : inbox'[a] \in {<< >>, inbox[a]},
         \/ \A a \in Agent : inbox'[a] = << >> /\ job'[a] = "none"
         \/ \A a \in Agent : /\ job'[a] # "none" <=> job[a] # "none"
                             /\ job'[a] \notin {"none", "restarted"}
                                  => job[a] \notin {"none", "restarted"}
  PROVE  Tame
<1>1. \A N \in Name : MailboxTame(N)
  BY DEF MailboxTame
<1>2. CASE \A a \in Agent : inbox'[a] = << >> /\ job'[a] = "none"
  BY <1>1, <1>2 DEF Tame
<1>3. CASE \A a \in Agent : /\ job'[a] # "none" <=> job[a] # "none"
                           /\ job'[a] \notin {"none", "restarted"}
                                => job[a] \notin {"none", "restarted"}
  BY <1>1, <1>3 DEF Tame, InvMail, InHandOfJobs
<1>. QED  BY <1>2, <1>3

LEMMA RegisterUnique ==
  ASSUME InvMail, NEW a \in Agent, NEW p, Register(a, p)
  PROVE  NamesUnique' /\ \A M \in Name : Pending(bus, M)' = Pending(bus, M)
<1>1. \A M \in Name : Pending(bus, M)' = Pending(bus, M)
  BY PendingOps DEF Register
<1>2. NamesUnique'
  BY DEF InvMail, NamesUnique, Register, Names
<1>. QED  BY <1>1, <1>2

LEMMA OperatorMail ==
  ASSUME InvMail, TypeOK', OperatorStep \/ RunStep
  PROVE  InvMail'
<1>. USE DEF jobVars
<1>1. ASSUME NEW N \in Name, OperatorPosts(N) PROVE InvMail'
  <2>1. NextMail(Operator) \in Message /\ NextMail(Operator).id = posted + 1
    BY NextMailType DEF InvMail, TypeOK, NextMail
  <2>2. Tame
    BY <1>1, <2>1, PostTame, PendingDeliver DEF OperatorPosts
  <2>3. NamesUnique'
    BY <1>1 DEF OperatorPosts, agentVars, InvMail, NamesUnique
  <2>. QED  BY <2>2, <2>3, TameKeeps
<1>2. ASSUME NEW N \in Name, OperatorUnregisters(N) PROVE InvMail'
  <2>1. Tame
    BY <1>2, QuietTame, PendingOps DEF OperatorUnregisters
  <2>2. NamesUnique'
    BY <1>2 DEF OperatorUnregisters, InvMail, NamesUnique
  <2>. QED  BY <2>1, <2>2, TameKeeps
<1>3. ASSUME NEW a \in Agent, NEW p \in Name \cup {None}, OperatorRegisters(a, p)
      PROVE  InvMail'
  <2>1. Register(a, p)
    BY <1>3 DEF OperatorRegisters
  <2>2. Tame
    BY <1>3, <2>1, QuietTame, RegisterUnique DEF OperatorRegisters
  <2>. QED  BY <2>1, <2>2, RegisterUnique, TameKeeps
<1>4. ASSUME NEW n \in RunLimits, OperatorRuns(n) PROVE InvMail'
  <2>1. Tame
    BY <1>4, QuietTame DEF OperatorRuns, mailVars, Pending
  <2>. QED  BY <1>4, <2>1, TameKeeps DEF OperatorRuns, agentVars, InvMail, NamesUnique
<1>5. CASE RunStep
  <2>1. UNCHANGED << agentVars, mailVars, jobVars >>
    BY <1>5 DEF RunStep, ReadLive, AskPending, RunReturns
  <2>2. Tame
    BY <2>1, QuietTame DEF mailVars, Pending
  <2>. QED  BY <2>1, <2>2, TameKeeps DEF agentVars, InvMail, NamesUnique
<1>. QED  BY <1>1, <1>2, <1>3, <1>4, <1>5 DEF OperatorStep

LEMMA UserCodeMail ==
  ASSUME InvMail, TypeOK', NEW a \in Agent, UserCode(a)
  PROVE  InvMail'
<1>. USE DEF jobVars
<1>1. NextMail(NameOf[a]) \in Message /\ NextMail(NameOf[a]).id = posted + 1
  BY NextMailType, NamesAssumption DEF InvMail, TypeOK, NextMail
<1>2. ASSUME NEW N \in Name, Send(a, N) PROVE InvMail'
  <2>1. Tame
    BY <1>1, <1>2, PostTame, PendingDeliver DEF Send
  <2>2. NamesUnique'
    BY <1>2 DEF Send, agentVars, InvMail, NamesUnique
  <2>. QED  BY <2>1, <2>2, TameKeeps
<1>3. ASSUME NEW N \in Name, UnregisterAgent(a, N) PROVE InvMail'
  <2>1. Tame
    BY <1>3, QuietTame DEF UnregisterAgent, mailVars, Pending
  <2>2. NamesUnique'
    BY <1>3 DEF UnregisterAgent, InvMail, NamesUnique
  <2>. QED  BY <2>1, <2>2, TameKeeps
<1>4. ASSUME NEW b \in Agent, Spawn(a, b) PROVE InvMail'
  <2>1. Register(b, NameOf[a])
    BY <1>4 DEF Spawn
  <2>2. Tame
    BY <1>4, <2>1, QuietTame, RegisterUnique DEF Spawn
  <2>. QED  BY <2>1, <2>2, RegisterUnique, TameKeeps
<1>5. CASE Broadcast(a)
  <2>1. Tame
    BY <1>1, <1>5, PostTame, PendingOps DEF Broadcast
  <2>2. NamesUnique'
    BY <1>5 DEF Broadcast, agentVars, InvMail, NamesUnique
  <2>. QED  BY <2>1, <2>2, TameKeeps
<1>6. CASE Wait(a)
  <2>1. Tame
    BY <1>6, QuietTame DEF Wait, mailVars, Pending
  <2>. QED  BY <1>6, <2>1, TameKeeps DEF Wait, agentVars, InvMail, NamesUnique
<1>7. CASE Exit(a)
  <2>1. Tame
    BY <1>7, QuietTame DEF Exit, mailVars, Pending
  <2>. QED  BY <1>7, <2>1, TameKeeps DEF Exit, agentVars, InvMail, NamesUnique
<1>. QED  BY <1>2, <1>3, <1>4, <1>5, <1>6, <1>7 DEF UserCode

\* An exception out of step() forgets the jobs and the inboxes.
LEMMA StepRaisesTame ==
  ASSUME InvMail, StepRaises, UNCHANGED mailVars
  PROVE  Tame
BY QuietTame DEF StepRaises, mailVars, Pending

LEMMA WorkerMail ==
  ASSUME InvMail, TypeOK', NEW a \in Agent, WorkerStep(a)
  PROVE  InvMail'
<1>1. TypeOK
  BY DEF InvMail
<1>2. CASE StartAgent(a)
  <2>1. Tame
    BY <1>1, <1>2, QuietTame DEF StartAgent, mailVars, Pending, TypeOK
  <2>. QED  BY <1>2, <2>1, TameKeeps DEF StartAgent, agentVars, InvMail, NamesUnique
<1>3. CASE UnregisterMailbox(a)
  <2>1. Tame
    BY <1>3, QuietTame, PendingOps DEF UnregisterMailbox, jobVars
  <2>. QED  BY <1>3, <2>1, TameKeeps DEF UnregisterMailbox, agentVars, InvMail, NamesUnique
<1>4. CASE Return(a)
  <2>1. Tame
    BY <1>1, <1>4, QuietTame DEF Return, InStep, mailVars, Pending, TypeOK
  <2>. QED  BY <1>4, <2>1, TameKeeps DEF Return, agentVars, InvMail, NamesUnique
<1>5. CASE Raise(a)
  <2>1. Tame
    BY <1>1, <1>5, QuietTame DEF Raise, InStep, mailVars, Pending, TypeOK
  <2>. QED  BY <1>5, <2>1, TameKeeps DEF Raise, agentVars, InvMail, NamesUnique
<1>6. CASE Abort(a)
  <2>1. Tame
    BY <1>6, StepRaisesTame DEF Abort
  <2>. QED  BY <1>6, <2>1, TameKeeps DEF Abort, agentVars, InvMail, NamesUnique
<1>. QED  BY <1>2, <1>3, <1>4, <1>5, <1>6 DEF WorkerStep

\* The mail a restarted agent had in hand goes before what came since.
LEMMA RestartMail ==
  ASSUME InvMail, TypeOK', NEW a \in Agent, SuperviseRestarts(a)
  PROVE  InvMail'
<1>. DEFINE N0 == NameOf[a]
            s == inbox[a]
            t == Pending(bus, N0)
<1>1. /\ TypeOK /\ posted \in Nat /\ s \in Seq(Message) /\ t \in Seq(Message)
      /\ inbox \in [Agent -> Seq(Message)] /\ job \in [Agent -> JobStates]
  BY PendingBus DEF InvMail, TypeOK
<1>2. /\ UNCHANGED << posted, horizon, inTick, registered >>
      /\ inbox' = [inbox EXCEPT ![a] = << >>]
      /\ job' = [job EXCEPT ![a] = "restarted"]
      /\ bus' = Requeue(bus, N0, s)
      /\ job[a] = "failed"
  BY DEF SuperviseRestarts, NextCasualty, IsFirst, JobsIn, agentVars
<1>3. \A N : Pending(bus, N)' = IF N = N0 /\ N0 \in DOMAIN bus THEN s \o t ELSE Pending(bus, N)
  BY <1>2, PendingRequeue DEF Pending
<1>4. \A b \in Agent : b # a /\ job[b] # "none" => NameOf[b] # N0
  BY <1>2 DEF InvMail, JobsUnique
<1>5. NamesUnique' /\ JobsUnique' /\ InHandOfJobs'
  BY <1>1, <1>2 DEF InvMail, NamesUnique, JobsUnique, InHandOfJobs
<1>6. /\ Ordered(s) /\ Ordered(t) /\ \A i \in DOMAIN s, j \in DOMAIN t : s[i].id < t[j].id
      /\ \A i \in DOMAIN s : s[i].id <= posted
      /\ \A i \in DOMAIN t : t[i].id <= posted
  <2>1. Ordered(t)
    BY DEF InvMail, MailOrder, Pending, Ordered
  <2>2. \A i \in DOMAIN t : t[i].id <= posted
    BY NamesAssumption DEF InvMail, AllSent
  <2>. QED  BY <2>1, <2>2 DEF InvMail, MailOrder, AllSent
<1>7. Ordered(s \o t)
  BY <1>1, <1>6, OrderedConcat
<1>8. \A k \in DOMAIN (s \o t) : (s \o t)[k].id <= posted
  <2>1. ASSUME NEW k \in DOMAIN (s \o t) PROVE (s \o t)[k].id <= posted
    <3>1. CASE k \in DOMAIN s
      BY <1>1, <1>6, <3>1
    <3>2. CASE k \notin DOMAIN s
      <4>1. k - Len(s) \in DOMAIN t /\ (s \o t)[k] = t[k - Len(s)]
        BY <1>1, <2>1, <3>2
      <4>. QED  BY <1>6, <4>1
    <3>. QED  BY <3>1, <3>2
  <2>. QED  BY <2>1
<1>9. AllSent'
  <2>1. \A N \in Name : \A i \in DOMAIN Pending(bus, N)' : Pending(bus, N)'[i].id <= posted
    BY <1>3, <1>8 DEF InvMail, AllSent
  <2>2. \A b \in Agent : \A i \in DOMAIN inbox'[b] : inbox'[b][i].id <= posted
    BY <1>1, <1>2 DEF InvMail, AllSent
  <2>. QED  BY <1>2, <2>1, <2>2 DEF InvMail, AllSent
<1>10. MailOrder'
  <2>1. ASSUME NEW N \in DOMAIN bus' PROVE Ordered(bus'[N])
    <3>1. Pending(bus, N)' = bus'[N]
      BY DEF Pending
    <3>2. Ordered(Pending(bus, N))
      BY DEF InvMail, MailOrder, Pending, Ordered
    <3>. QED  BY <1>3, <1>7, <3>1, <3>2
  <2>2. ASSUME NEW b \in Agent
        PROVE  /\ Ordered(inbox'[b])
               /\ \A i \in DOMAIN inbox'[b], j \in DOMAIN Pending(bus, NameOf[b])' :
                    inbox'[b][i].id < Pending(bus, NameOf[b])'[j].id
    <3>1. CASE inbox'[b] = << >>
      BY <3>1 DEF Ordered
    <3>2. CASE inbox'[b] # << >>
      <4>1. b # a /\ inbox'[b] = inbox[b] /\ NameOf[b] # N0
        BY <1>1, <1>2, <1>4, <3>2 DEF InvMail, InHandOfJobs
      <4>2. Pending(bus, NameOf[b])' = Pending(bus, NameOf[b])
        BY <1>3, <4>1
      <4>. QED  BY <4>1, <4>2 DEF InvMail, MailOrder
    <3>. QED  BY <3>1, <3>2
  <2>. QED  BY <2>1, <2>2 DEF MailOrder
<1>11. TickBarrier'
  <2>. SUFFICES ASSUME inTick', NEW b \in Agent
                PROVE  /\ \A i \in DOMAIN inbox'[b] : inbox'[b][i].id <= horizon'
                       /\ job'[b] \notin {"none", "restarted"} =>
                            \A j \in DOMAIN Pending(bus, NameOf[b])' :
                               Pending(bus, NameOf[b])'[j].id > horizon'
    BY DEF TickBarrier
  <2>1. CASE b = a
    BY <1>1, <1>2, <2>1
  <2>2. CASE b # a
    <3>1. inbox'[b] = inbox[b] /\ job'[b] = job[b]
      BY <1>1, <1>2, <2>2
    <3>2. job[b] # "none" => Pending(bus, NameOf[b])' = Pending(bus, NameOf[b])
      BY <1>3, <1>4, <2>2
    <3>. QED  BY <1>2, <3>1, <3>2 DEF InvMail, TickBarrier
  <2>. QED  BY <2>1, <2>2
<1>. QED  BY <1>5, <1>9, <1>10, <1>11 DEF InvMail

LEMMA BarrierMail ==
  ASSUME InvMail, TypeOK', BarrierStep
  PROVE  InvMail'
<1>1. TypeOK
  BY DEF InvMail
<1>2. ASSUME NEW a \in Agent, SuperviseRestarts(a) PROVE InvMail'
  BY <1>2, RestartMail
<1>3. ASSUME NEW a \in Agent, OnRestartRaises(a) PROVE InvMail'
  <2>1. Tame
    BY <1>3, StepRaisesTame DEF OnRestartRaises
  <2>. QED  BY <1>3, <2>1, TameKeeps DEF OnRestartRaises, agentVars, InvMail, NamesUnique
<1>4. ASSUME NEW a \in Agent, SuperviseGivesUp(a) PROVE InvMail'
  <2>1. job[a] = "failed"
    BY <1>4 DEF SuperviseGivesUp, NextCasualty, IsFirst, JobsIn
  <2>2. Tame
    BY <1>1, <1>4, <2>1, QuietTame DEF SuperviseGivesUp, mailVars, Pending, TypeOK
  <2>. QED  BY <1>4, <2>2, TameKeeps DEF SuperviseGivesUp, agentVars, InvMail, NamesUnique
<1>5. ASSUME NEW a \in Agent, Escalate(a) PROVE InvMail'
  <2>1. job[a] = "fallen" /\ job' = [job EXCEPT ![a] = "told"]
        /\ UNCHANGED << inTick, inbox, horizon, registered >>
    BY <1>5 DEF Escalate, NextFallen, IsFirst, JobsIn, agentVars
  <2>2. Tame
    <3>1. CASE HasLiveParent(a)
      <4>. DEFINE m == [id |-> posted + 1, from |-> NameOf[a], kind |-> "child_failed"]
      <4>1. m \in Message /\ m.id = posted + 1
        BY <1>1, NamesAssumption, SMTT(30) DEF Message, TypeOK
      <4>2. bus' = Deliver(bus, parent[a], m) /\ posted' = posted + 1
        BY <1>5, <3>1 DEF Escalate
      <4>3. \A M \in Name : Pending(bus, M)' \in {Pending(bus, M), Append(Pending(bus, M), m)}
        BY <4>2, PendingDeliver DEF Pending
      <4>4. \A b \in Agent : /\ job'[b] # "none" <=> job[b] # "none"
                             /\ job'[b] = "restarted" <=> job[b] = "restarted"
        BY <1>1, <2>1 DEF TypeOK
      <4>. HIDE DEF m
      <4>. QED  BY <2>1, <4>1, <4>2, <4>3, <4>4, PostTame
    <3>2. CASE ~HasLiveParent(a)
      <4>1. UNCHANGED << bus, posted >>
        BY <1>5, <3>2 DEF Escalate
      <4>. QED  BY <1>1, <2>1, <4>1, QuietTame DEF Pending, TypeOK
    <3>. QED  BY <3>1, <3>2
  <2>. QED  BY <2>1, <2>2, TameKeeps DEF InvMail, NamesUnique
<1>6. ASSUME NEW a \in Agent, EscalateRaises(a) PROVE InvMail'
  <2>1. Tame
    BY <1>6, StepRaisesTame DEF EscalateRaises
  <2>. QED  BY <1>6, <2>1, TameKeeps DEF EscalateRaises, agentVars, InvMail, NamesUnique
<1>7. CASE Reclaim
  <2>1. \A M \in Name : Pending(bus, M)' \in {<< >>, Pending(bus, M)}
    BY <1>7, PendingOps DEF Reclaim, Pending
  <2>2. Tame
    BY <1>7, <2>1, QuietTame DEF Reclaim
  <2>. QED  BY <1>7, <2>2, TameKeeps DEF Reclaim, agentVars, InvMail, NamesUnique
<1>. QED  BY <1>2, <1>3, <1>4, <1>5, <1>6, <1>7 DEF BarrierStep

\* The drain hands each agent of the tick its mailbox and leaves it empty, all
\* at one instant, which the horizon marks.
LEMMA DrainMail ==
  ASSUME InvMail, TypeOK', BeginTick
  PROVE  InvMail'
<1>1. /\ TypeOK /\ posted \in Nat /\ posted' = posted /\ horizon' = posted
      /\ registered \subseteq Agent /\ registered' = registered
      /\ NameOf \in [Agent -> Name]
      /\ bus' = Drain(bus, Names(Live))
      /\ inbox' = [a \in Agent |-> IF a \in Scheduled THEN Pending(bus, NameOf[a]) ELSE << >>]
      /\ job' = [a \in Agent |-> IF a \in Scheduled THEN "queued"
                                 ELSE IF a \in Live THEN "skipped" ELSE "none"]
  BY NamesAssumption DEF BeginTick, agentVars, InvMail, TypeOK
<1>2. Scheduled \subseteq Live /\ Live \subseteq registered
  BY DEF Scheduled, Live
<1>3. \A N : Pending(bus, N)' = IF N \in Names(Live) THEN << >> ELSE Pending(bus, N)
  BY <1>1, PendingOps DEF Pending
<1>4. \A a \in Live : NameOf[a] \in Names(Live)
  BY DEF Names
<1>5. ASSUME NEW a \in Agent
      PROVE  /\ Pending(bus, NameOf[a]) \in Seq(Message) /\ Ordered(Pending(bus, NameOf[a]))
             /\ \A i \in DOMAIN Pending(bus, NameOf[a]) : Pending(bus, NameOf[a])[i].id <= posted
  <2>1. Pending(bus, NameOf[a]) \in Seq(Message)
    BY <1>1, PendingBus
  <2>2. Ordered(Pending(bus, NameOf[a]))
    BY DEF InvMail, MailOrder, Pending, Ordered
  <2>3. NameOf[a] \in Name
    BY <1>1
  <2>. QED  BY <2>1, <2>2, <2>3 DEF InvMail, AllSent
<1>6. NamesUnique'
  BY <1>1 DEF InvMail, NamesUnique
<1>7. JobsUnique'
  <2>1. \A a \in Agent : job'[a] # "none" => a \in registered
    BY <1>1, <1>2
  <2>. QED  BY <2>1 DEF InvMail, NamesUnique, JobsUnique
<1>8. InHandOfJobs'
  BY <1>1 DEF InHandOfJobs
<1>9. AllSent'
  <2>1. \A N \in Name : \A i \in DOMAIN Pending(bus, N)' : Pending(bus, N)'[i].id <= posted
    BY <1>3 DEF InvMail, AllSent
  <2>2. ASSUME NEW a \in Agent PROVE \A i \in DOMAIN inbox'[a] : inbox'[a][i].id <= posted
    BY <1>1, <1>5
  <2>. QED  BY <1>1, <2>1, <2>2 DEF AllSent
<1>10. MailOrder'
  <2>1. ASSUME NEW N \in DOMAIN bus' PROVE Ordered(bus'[N])
    <3>1. Pending(bus, N)' = bus'[N]
      BY DEF Pending
    <3>2. Ordered(Pending(bus, N)) /\ Ordered(<< >>)
      BY DEF InvMail, MailOrder, Pending, Ordered
    <3>. QED  BY <1>3, <3>1, <3>2
  <2>2. ASSUME NEW a \in Agent
        PROVE  /\ Ordered(inbox'[a])
               /\ \A i \in DOMAIN inbox'[a], j \in DOMAIN Pending(bus, NameOf[a])' :
                    inbox'[a][i].id < Pending(bus, NameOf[a])'[j].id
    <3>1. CASE a \in Scheduled
      <4>1. inbox'[a] = Pending(bus, NameOf[a]) /\ Pending(bus, NameOf[a])' = << >>
        BY <1>1, <1>2, <1>3, <1>4, <3>1
      <4>. QED  BY <1>5, <4>1
    <3>2. CASE a \notin Scheduled
      <4>1. inbox'[a] = << >>
        BY <1>1, <3>2
      <4>. QED  BY <4>1 DEF Ordered
    <3>. QED  BY <3>1, <3>2
  <2>. QED  BY <2>1, <2>2 DEF MailOrder
<1>11. TickBarrier'
  <2>1. ASSUME NEW a \in Agent PROVE \A i \in DOMAIN inbox'[a] : inbox'[a][i].id <= horizon'
    BY <1>1, <1>5
  <2>2. ASSUME NEW a \in Agent, job'[a] \notin {"none", "restarted"}
        PROVE  Pending(bus, NameOf[a])' = << >>
    <3>1. a \in Live
      BY <1>1, <1>2, <2>2
    <3>. QED  BY <1>3, <1>4, <3>1
  <2>. QED  BY <2>1, <2>2 DEF TickBarrier
<1>. QED  BY <1>6, <1>7, <1>8, <1>9, <1>10, <1>11 DEF InvMail

LEMMA TickMail ==
  ASSUME InvMail, TypeOK', BeginTick \/ RefuseTick
  PROVE  InvMail'
<1>1. CASE BeginTick
  BY <1>1, DrainMail
<1>2. CASE RefuseTick
  <2>1. \A M \in Name : Pending(bus, M)' \in {<< >>, Pending(bus, M)}
    <3>1. bus' = Drain(bus, Names(Live))
      BY <1>2 DEF RefuseTick
    <3>. QED  BY <3>1, PendingOps DEF Pending
  <2>2. Tame
    BY <1>2, <2>1, QuietTame DEF RefuseTick, StepRaises
  <2>. QED  BY <1>2, <2>2, TameKeeps DEF RefuseTick, agentVars, InvMail, NamesUnique
<1>. QED  BY <1>1, <1>2

LEMMA InitMail == Init => InvMail
<1>. SUFFICES ASSUME Init PROVE InvMail
  OBVIOUS
<1>1. TypeOK
  BY InitType
<1>2. NamesUnique
  BY BootAssumption DEF Init, NamesUnique
<1>3. /\ \A a \in Agent : inbox[a] = << >> /\ job[a] = "none"
      /\ \A N : Pending(bus, N) = << >>
      /\ \A N \in DOMAIN bus : bus[N] = << >>
      /\ horizon = 0 /\ posted = 0 /\ inTick = FALSE
  BY DEF Init, EmptyBus, Pending
<1>. QED
  BY <1>1, <1>2, <1>3
  DEF InvMail, JobsUnique, InHandOfJobs, AllSent, MailOrder, TickBarrier, Ordered

LEMMA MailStep ==
  ASSUME InvMail, TypeOK', [Next]_vars
  PROVE  InvMail'
<1>1. CASE Next
  BY <1>1, OperatorMail, TickMail, UserCodeMail, WorkerMail, BarrierMail DEF Next
<1>2. CASE UNCHANGED vars
  BY <1>2
  DEF vars, agentVars, mailVars, runVars, jobVars, failVars, InvMail, NamesUnique, JobsUnique,
      InHandOfJobs, AllSent, MailOrder, TickBarrier, Pending
<1>. QED  BY <1>1, <1>2

\* The order of mail, the barrier and what makes them inductive hold in every
\* state of the scheduler.
THEOREM MailInvariant == Spec => []InvMail
<1>1. InvMail /\ TypeOK' /\ [Next]_vars => InvMail'
  BY MailStep
<1>. QED  BY InitMail, TypeCorrect, <1>1, PTL DEF Spec

\* What an agent is handed comes in the order it was sent, before all that is
\* in its mailbox, through any failures and redeliveries (requeue()).
THEOREM MailInOrder == Spec => []MailOrder
<1>1. InvMail => MailOrder
  BY DEF InvMail
<1>. QED  BY MailInvariant, <1>1, PTL

\* What an agent has in hand was sent before the tick, and nothing of before the
\* tick is left in the mailbox of one that is in it (step()'s drain).
THEOREM TicksAreBarriers == Spec => []TickBarrier
<1>1. InvMail => TickBarrier
  BY DEF InvMail
<1>. QED  BY MailInvariant, <1>1, PTL

=============================================================================
