----------------------- MODULE PlatformAgents_proofs -----------------------
(***************************************************************************)
(* Theorems about snapshots, crashes and restores, and about the agents of *)
(* a platform under them, for any agents, names, policies, workers, turns, *)
(* answers and bounds.                                                     *)
(***************************************************************************)
EXTENDS PlatformAgents, KernelAgents_proofs

-----------------------------------------------------------------------------
(* What a snapshot holds, and what is restored from it.                    *)

SnapType ==
  snap # None =>
    /\ snap.tick \in Nat /\ snap.agents \subseteq Agent /\ snap.order \in [Agent -> Nat]
    /\ snap.state \in [snap.agents -> AgentStates]
    /\ snap.parent \in [snap.agents -> Name \cup {None}]
    /\ snap.restarts \in [snap.agents -> Nat]
    /\ IsBus(snap.mail)

\* The saved mail is in order and was sent, and the agents' names differ.
SnapMail ==
  snap # None =>
    /\ \A a, b \in snap.agents : NameOf[a] = NameOf[b] => a = b
    /\ \A N \in DOMAIN snap.mail :
         Ordered(snap.mail[N]) /\ \A i \in DOMAIN snap.mail[N] : snap.mail[N][i].id <= posted

LEMMA RestoredBusType ==
  ASSUME SnapType, snap # None
  PROVE  IsBus(RestoredBus(snap))
<1>1. Names(LiveIn(snap)) \subseteq Name /\ DOMAIN snap.mail \subseteq Name
  BY NamesAssumption DEF SnapType, LiveIn, Names, IsBus
<1>2. \A N \in DOMAIN snap.mail : snap.mail[N] \in Seq(Message)
  BY DEF SnapType, IsBus
<1>. QED  BY <1>1, <1>2 DEF RestoredBus, IsBus

LEMMA SnapshotType ==
  ASSUME TypeOK, Snapshot
  PROVE  TypeOK' /\ SnapType'
<1>1. TypeOK'
  BY DEF Snapshot, TypeOK, vars, agentVars, mailVars, runVars, jobVars, failVars
<1>2. SnapType'
  <2>1. /\ snap'.tick = tick /\ snap'.agents = registered /\ snap'.order = regno
        /\ snap'.state = [a \in registered |-> astate[a]]
        /\ snap'.parent = [a \in registered |-> parent[a]]
        /\ snap'.restarts = [a \in registered |-> restarts[a]]
        /\ snap'.mail = [N \in {M \in DOMAIN bus : bus[M] # << >>} |-> bus[N]]
    BY DEF Snapshot
  <2>2. IsBus(snap'.mail)
    BY <2>1 DEF TypeOK, IsBus
  <2>. QED  BY <2>1, <2>2 DEF TypeOK, SnapType
<1>. QED  BY <1>1, <1>2

LEMMA RestoreType ==
  ASSUME TypeOK, SnapType, CrashAndRestore
  PROVE  TypeOK' /\ SnapType'
<1>1. snap # None /\ snap' = snap
  BY DEF CrashAndRestore
<1>2. IsBus(bus')
  BY <1>1, RestoredBusType DEF CrashAndRestore
<1>3. inbox' \in [Agent -> Seq(Message)]
  BY NoMailType DEF CrashAndRestore
<1>4. /\ astate' \in [Agent -> AgentStates] /\ parent' \in [Agent -> Name \cup {None}]
      /\ restarts' \in [Agent -> Nat] /\ registered' \subseteq Agent /\ regno' \in [Agent -> Nat]
      /\ job' \in [Agent -> JobStates] /\ tick' \in Nat
  BY <1>1 DEF CrashAndRestore, RestoredState, SnapType, AgentStates, JobStates
<1>5. /\ errors' \in [Agent -> Nat] /\ told' \in [Agent -> Nat]
      /\ dropping' \in [Agent -> Name \cup {None}] /\ stopReason' \in StopReasons
      /\ posted' \in Nat /\ horizon' \in Nat /\ budget' \in Nat
      /\ inTick' \in BOOLEAN /\ inRun' \in BOOLEAN
      /\ check' \in Checks /\ live' \subseteq Agent /\ knew' \subseteq Agent /\ askedAt' \in Nat
  BY DEF CrashAndRestore, Forget, Checks, StopReasons, TypeOK
<1>. QED  BY <1>1, <1>2, <1>3, <1>4, <1>5 DEF TypeOK, SnapType, IsBus

LEMMA TypeStepP ==
  ASSUME TypeOK, SnapType, [NextP]_allVars
  PROVE  TypeOK' /\ SnapType'
<1>1. CASE [Next]_vars /\ UNCHANGED pvars
  BY <1>1, TypeStep DEF pvars, SnapType
<1>. QED
  BY <1>1, SnapshotType, RestoreType DEF NextP, allVars

\* Mail stays in order through a crash: what is restored is what was saved.
LEMMA RestoreMail ==
  ASSUME InvMail, SnapType, SnapMail, TypeOK', CrashAndRestore
  PROVE  InvMail' /\ SnapMail'
<1>1. /\ snap # None /\ snap' = snap /\ bus' = RestoredBus(snap) /\ posted' = posted
      /\ horizon' = posted /\ registered' = snap.agents /\ ~inTick' /\ posted \in Nat
      /\ \A a \in Agent : job'[a] = "none" /\ inbox'[a] = << >>
  BY DEF CrashAndRestore, InvMail, TypeOK
<1>2. SnapMail' /\ NamesUnique' /\ JobsUnique' /\ InHandOfJobs' /\ TickBarrier'
  BY <1>1 DEF SnapMail, NamesUnique, JobsUnique, InHandOfJobs, TickBarrier
<1>3. \A N \in DOMAIN bus' : Ordered(bus'[N]) /\ \A i \in DOMAIN bus'[N] : bus'[N][i].id <= posted
  BY <1>1 DEF RestoredBus, SnapMail, Ordered
<1>4. MailOrder' /\ AllSent'
  BY <1>1, <1>3 DEF MailOrder, AllSent, Pending, Ordered
<1>. QED  BY <1>2, <1>4 DEF InvMail

LEMMA SnapshotMail ==
  ASSUME InvMail, TypeOK', Snapshot
  PROVE  InvMail' /\ SnapMail'
<1>1. InvMail'
  <2>1. UNCHANGED vars
    BY DEF Snapshot
  <2>. QED  BY <2>1, MailStep
<1>2. /\ snap'.agents = registered /\ posted' = posted
      /\ snap'.mail = [N \in {M \in DOMAIN bus : bus[M] # << >>} |-> bus[N]]
  BY DEF Snapshot, vars, mailVars
<1>3. \A N \in DOMAIN bus : Ordered(bus[N]) /\ \A i \in DOMAIN bus[N] : bus[N][i].id <= posted
  <2>1. DOMAIN bus \subseteq Name
    BY DEF InvMail, TypeOK
  <2>. QED  BY <2>1 DEF InvMail, MailOrder, AllSent, Pending
<1>. QED  BY <1>1, <1>2, <1>3 DEF SnapMail, InvMail, NamesUnique

LEMMA PostedGrows ==
  ASSUME TypeOK, [Next]_vars
  PROVE  posted' \in {posted, posted + 1}
BY DEF Next, OperatorStep, OperatorPosts, OperatorRegisters, OperatorUnregisters, OperatorRuns,
       RunStep, ReadLive, AskPending, RunReturns, BeginTick, RefuseTick, UserCode, Send,
       UnregisterAgent, Spawn, Broadcast, Wait, Exit, WorkerStep, StartAgent, UnregisterMailbox, Return, Raise, Abort, BarrierStep,
       SuperviseRestarts, OnRestartRaises, SuperviseGivesUp, Escalate, EscalateRaises, Reclaim,
       vars, mailVars

LEMMA MailStepP ==
  ASSUME InvMail, SnapType, SnapMail, TypeOK', [NextP]_allVars
  PROVE  InvMail' /\ SnapMail'
<1>1. CASE [Next]_vars /\ UNCHANGED pvars
  <2>1. posted \in Nat /\ posted' \in Nat /\ posted <= posted' /\ snap' = snap
    BY <1>1, PostedGrows DEF InvMail, TypeOK, pvars
  <2>2. SnapMail'
    <3>1. snap # None => \A N \in DOMAIN snap.mail : \A i \in DOMAIN snap.mail[N] :
            snap.mail[N][i].id \in Nat
      BY IdsAreNumbers DEF SnapType, IsBus
    <3>. QED  BY <2>1, <3>1 DEF SnapMail
  <2>. QED  BY <1>1, <2>2, MailStep
<1>. QED
  BY <1>1, RestoreMail, SnapshotMail DEF NextP, allVars

\* Mail is handed out in order and at ticks' boundaries across crashes too.
THEOREM MailSurvivesCrashes == SpecP => [](MailOrder /\ TickBarrier)
<1>1. InitP => TypeOK /\ InvMail /\ SnapType /\ SnapMail
  BY InitType, InitMail DEF InitP, SnapType, SnapMail
<1>2. TypeOK /\ SnapType /\ [NextP]_allVars => TypeOK' /\ SnapType'
  BY TypeStepP
<1>3. InvMail /\ SnapType /\ SnapMail /\ TypeOK' /\ [NextP]_allVars => InvMail' /\ SnapMail'
  BY MailStepP
<1>4. InvMail => MailOrder /\ TickBarrier
  BY DEF InvMail
<1>. QED  BY <1>1, <1>2, <1>3, <1>4, PTL DEF SpecP

-----------------------------------------------------------------------------
(* A restore leaves nothing out.                                           *)

\* Snapshots are not taken from inside a tick.
AtBoundaries == ~SnapshotInTick

\* The agents of a snapshot are numbered as the kernel's were ...
SnapReg ==
  snap # None =>
    /\ \A a \in Agent : snap.order[a] <= Cardinality({b \in Agent : snap.order[b] # 0})
    /\ \A a \in Agent : snap.order[a] = 0 => a \notin snap.agents
    /\ \A i \in 1..Len(Boot) : snap.order[Boot[i]] # 0

\* ... and its mail is that of its live agents, so that what restore() makes of
\* it is what there was.
SnapExact ==
  snap # None =>
    /\ DOMAIN snap.mail \subseteq Names(LiveIn(snap))
    /\ taken.live = LiveIn(snap) /\ taken.bus = RestoredBus(snap)

\* What RegInv, BoxInv and ExactInv say, and the same of the last snapshot.
WholeInv == RegInv /\ BoxInv /\ ExactInv /\ SnapReg /\ SnapExact

LEMMA LiveBoxes ==
  ASSUME TypeOK, BoxInv, ExactInv, ~inTick
  PROVE  DOMAIN bus = Names(Live)
<1>1. Boxed = Live
  BY DEF Boxed, Live, BoxInv, TypeOK
<1>2. \A a \in Live : NameOf[a] \in DOMAIN bus
  BY DEF Live, BoxInv, LiveHaveMailbox, CanDeliver
<1>. QED  BY <1>1, <1>2 DEF ExactInv, Names

LEMMA SnapshotWhole ==
  ASSUME AtBoundaries, TypeOK, WholeInv, Snapshot
  PROVE  WholeInv'
<1>1. ~inTick /\ UNCHANGED vars /\ taken' = [bus |-> bus, live |-> Live]
  BY DEF AtBoundaries, Snapshot
<1>2. /\ snap'.agents = registered /\ snap'.order = regno
      /\ snap'.state = [a \in registered |-> astate[a]]
      /\ snap'.mail = [N \in {M \in DOMAIN bus : bus[M] # << >>} |-> bus[N]]
  BY DEF Snapshot
<1>3. RegInv' /\ BoxInv' /\ ExactInv'
  BY <1>1 DEF WholeInv, RegInv, Known, BoxInv, ExactInv, Boxed, Alive, LiveHaveMailbox, vars,
              agentVars, mailVars, jobVars
<1>4. SnapReg'
  BY <1>2 DEF WholeInv, RegInv, SnapReg, Known
<1>5. LiveIn(snap') = Live
  BY <1>2 DEF LiveIn, Live, Alive
<1>6. DOMAIN bus = Names(Live) /\ bus = [N \in DOMAIN bus |-> bus[N]]
  BY <1>1, LiveBoxes DEF WholeInv, TypeOK
<1>7. RestoredBus(snap') = bus
  <2>1. DOMAIN snap'.mail = {M \in DOMAIN bus : bus[M] # << >>}
    BY <1>2
  <2>2. DOMAIN snap'.mail \cup Names(LiveIn(snap')) = DOMAIN bus
    BY <2>1, <1>5, <1>6
  <2>. QED  BY <1>2, <1>6, <2>1, <2>2 DEF RestoredBus
<1>8. SnapExact'
  BY <1>1, <1>2, <1>5, <1>6, <1>7 DEF SnapExact
<1>. QED  BY <1>3, <1>4, <1>8 DEF WholeInv

LEMMA RestoreWhole ==
  ASSUME TypeOK, SnapType, WholeInv, CrashAndRestore
  PROVE  WholeInv'
<1>1. /\ snap # None /\ UNCHANGED << snap, taken >> /\ bus' = RestoredBus(snap)
      /\ registered' = snap.agents /\ regno' = snap.order /\ astate' = RestoredState(snap)
      /\ job' = [a \in Agent |-> "none"] /\ dropping' = [a \in Agent |-> None]
      /\ snap.agents \subseteq Agent
  BY DEF CrashAndRestore, SnapType
<1>2. SnapReg' /\ SnapExact'
  BY <1>1 DEF WholeInv, SnapReg, SnapExact
<1>3. RegInv'
  BY <1>1 DEF WholeInv, SnapReg, RegInv, Known, RestoredState
<1>4. Boxed' = LiveIn(snap)
  BY <1>1 DEF Boxed, Alive, LiveIn, RestoredState
<1>5. DOMAIN bus' = Names(LiveIn(snap))
  BY <1>1 DEF RestoredBus, WholeInv, SnapExact
<1>6. BoxInv'
  BY <1>1, <1>4, <1>5 DEF BoxInv, LiveHaveMailbox, CanDeliver, Boxed, Names
<1>7. ExactInv'
  BY <1>1, <1>4, <1>5 DEF ExactInv
<1>. QED  BY <1>2, <1>3, <1>6, <1>7 DEF WholeInv

LEMMA WholeStep ==
  ASSUME NoneUnregisters, HooksReturn, AtBoundaries, InvMail, TypeOK', SnapType, WholeInv,
         [NextP]_allVars
  PROVE  WholeInv'
<1>0. TypeOK
  BY DEF InvMail
<1>1. CASE [Next]_vars /\ UNCHANGED pvars
  BY <1>0, <1>1, RegStep, BoxStep, ExactStep DEF WholeInv, SnapReg, SnapExact, pvars
<1>. QED
  BY <1>0, <1>1, SnapshotWhole, RestoreWhole DEF NextP, allVars

LEMMA WholeInit == InitP => WholeInv
BY RegInit, BoxInit, ExactInit DEF InitP, WholeInv, SnapReg, SnapExact

\* The whole of the kernel that can be told apart: WholeInv is always so.
LEMMA AlwaysWhole ==
  ASSUME NoneUnregisters, HooksReturn, AtBoundaries
  PROVE  SpecP => [](InvMail /\ SnapType /\ SnapMail /\ WholeInv)
<1>1. InitP => InvMail /\ SnapType /\ SnapMail
  BY InitMail DEF InitP, SnapType, SnapMail
<1>2. InvMail /\ SnapType /\ [NextP]_allVars => TypeOK' /\ SnapType'
  BY TypeStepP DEF InvMail
<1>3. InvMail /\ SnapType /\ SnapMail /\ TypeOK' /\ [NextP]_allVars => InvMail' /\ SnapMail'
  BY MailStepP
<1>4. InvMail /\ TypeOK' /\ SnapType /\ WholeInv /\ [NextP]_allVars => WholeInv'
  BY WholeStep
<1>. QED  BY WholeInit, <1>1, <1>2, <1>3, <1>4, PTL DEF SpecP

\* The restored kernel has the live agents, in their states, and the mailboxes
\* with their mail that there were at the snapshot, though only the mail was
\* saved, however often the process crashes.
THEOREM RestoresExactly ==
  ASSUME NoneUnregisters, HooksReturn, AtBoundaries
  PROVE  SpecP => RestoreIsExact
<1>1. SnapType /\ WholeInv /\ [NextP]_allVars =>
        [crashes' # crashes =>
           /\ bus' = taken.bus
           /\ Live' = taken.live
           /\ \A a \in Live' : (astate'[a] = "waiting") <=> (snap.state[a] = "waiting")]_allVars
  <2>. SUFFICES ASSUME SnapType, WholeInv, NextP, crashes' # crashes
                PROVE  /\ bus' = taken.bus
                       /\ Live' = taken.live
                       /\ \A a \in Live' : astate'[a] = "waiting" <=> snap.state[a] = "waiting"
    OBVIOUS
  <2>1. CrashAndRestore
    BY DEF NextP, pvars, Snapshot
  <2>2. /\ snap # None /\ bus' = RestoredBus(snap) /\ registered' = snap.agents
        /\ snap.agents \subseteq Agent
        /\ astate' = [a \in Agent |-> IF a \in snap.agents THEN snap.state[a] ELSE "ready"]
    BY <2>1 DEF CrashAndRestore, RestoredState, SnapType
  <2>3. Live' = LiveIn(snap)
    BY <2>2 DEF Live, Alive, LiveIn
  <2>. QED  BY <2>2, <2>3 DEF WholeInv, SnapExact, Live
<1>. QED  BY <1>1, AlwaysWhole, PTL DEF SpecP, RestoreIsExact

\* Across crashes too, no sender meets the KeyError of an unknown recipient, and
\* no mailbox is left of an agent that finished.
THEOREM MailboxesSurviveCrashes ==
  ASSUME NoneUnregisters, HooksReturn, AtBoundaries
  PROVE  SpecP => [](LiveHaveMailbox /\ MailboxesOfTheLive)
<1>1. InvMail /\ WholeInv => LiveHaveMailbox /\ MailboxesOfTheLive
  BY LiveBoxes DEF InvMail, WholeInv, BoxInv, MailboxesOfTheLive
<1>. QED  BY <1>1, AlwaysWhole, PTL

-----------------------------------------------------------------------------
(* A platform's agents are agents.                                         *)

\* Whatever a turn does is what an agent's step may do, or is nothing to the
\* kernel.
LEMMA TurnIsStep ==
  ASSUME TypeOK, NEW a \in Platform, Turn(a)
  PROVE  [Next]_vars /\ UNCHANGED pvars
<1>0. a \in Agent /\ DOMAIN bus \subseteq Name
  BY PlatformAssumption DEF TypeOK
<1>1. CASE Dispatch(a)
  <2>1. CASE Address(a) = Everyone
    BY <1>0, <1>1, <2>1 DEF Dispatch, Next, UserCode
  <2>2. CASE Address(a) # Everyone
    <3>1. Send(a, Address(a)) /\ UNCHANGED pvars
      BY <1>1, <2>2 DEF Dispatch
    <3>2. Address(a) \in Name
      BY <1>0, <3>1 DEF Send, CanDeliver
    <3>. QED  BY <1>0, <3>1, <3>2 DEF Next, UserCode
  <2>. QED  BY <2>1, <2>2
<1>2. CASE Idle(a) \/ Complete(a)
  BY <1>0, <1>2 DEF Idle, Complete, Next, UserCode
<1>3. CASE PlatformRaises(a) \/ Undeliverable(a) \/ EndTurn(a)
  BY <1>0, <1>3 DEF PlatformRaises, Undeliverable, EndTurn, Next, WorkerStep
<1>4. ASSUME NEW result \in Results, Invoke(a, result) PROVE [Next]_vars /\ UNCHANGED pvars
  BY <1>4 DEF Invoke
<1>. QED  BY <1>1, <1>2, <1>3, <1>4 DEF Turn

\* The steps that are none of a platform's agents' own.
Others ==
  \/ OperatorStep \/ BeginTick \/ RefuseTick \/ BarrierStep \/ RunStep
  \/ \E a \in Agent : StartAgent(a)
  \/ \E a \in Agent \ Platform : UserCode(a) \/ WorkerStep(a)

LEMMA StepIsStep ==
  ASSUME TypeOK, [NextPlatform]_<< allVars, platVars >>
  PROVE  [NextP]_allVars
<1>1. CASE Others /\ UNCHANGED << platVars, pvars >>
  <2>1. Next
    BY <1>1 DEF Others, Next, WorkerStep
  <2>. QED  BY <1>1, <2>1 DEF NextP
<1>2. ASSUME NEW a \in Platform, Turn(a) PROVE [NextP]_allVars
  BY <1>2, TurnIsStep DEF NextP, allVars
<1>3. CASE SaveAll \/ LoadAll
  BY <1>3 DEF SaveAll, LoadAll, NextP
<1>. QED  BY <1>1, <1>2, <1>3 DEF NextPlatform, Others, allVars

\* A system with platforms is a system of agents: what is proved of the kernel
\* with snapshots and restores holds of it.
THEOREM PlatformIsProgram == SpecPlatform => SpecP
<1>1. InitPlatform => InitP /\ TypeOK /\ SnapType
  BY InitType DEF InitPlatform, InitP, SnapType
<1>2. TypeOK /\ [NextPlatform]_<< allVars, platVars >> => [NextP]_allVars
  BY StepIsStep
<1>3. TypeOK /\ SnapType /\ [NextP]_allVars => TypeOK' /\ SnapType'
  BY TypeStepP
<1>. QED  BY <1>1, <1>2, <1>3, PTL DEF SpecPlatform, SpecP

-----------------------------------------------------------------------------
(* The seed.                                                               *)

\* The flag is set with the first completed turn, in an agent, and in what a
\* snapshot has of one.
SeedTold(a, t, flag, n) ==
  /\ flag <=> (a \notin WithSeed \/ t > 0)
  /\ n = IF a \in WithSeed /\ t > 0 THEN 1 ELSE 0

SeedInv ==
  /\ turns \in [Platform -> Nat] /\ seeds \in [Platform -> Nat]
  /\ seeded \in [Platform -> BOOLEAN]
  /\ \A a \in Platform : SeedTold(a, turns[a], seeded[a], seeds[a])
  /\ snap # None =>
       /\ data.turns \in [Platform -> Nat] /\ data.seeds \in [Platform -> Nat]
       /\ data.seeded \in [Platform -> BOOLEAN]
       /\ \A a \in Platform : SeedTold(a, data.turns[a], data.seeded[a], data.seeds[a])

LEMMA SeedStep ==
  ASSUME SeedInv, [NextPlatform]_<< allVars, platVars >>
  PROVE  SeedInv'
<1>1. CASE UNCHANGED << countVars, data, snap >>
  BY <1>1 DEF SeedInv, countVars
<1>2. ASSUME NEW a \in Platform, Complete(a) PROVE SeedInv'
  <2>1. /\ turns' = [turns EXCEPT ![a] = @ + 1] /\ seeded' = [seeded EXCEPT ![a] = TRUE]
        /\ seeds' = [seeds EXCEPT ![a] = IF seeded[a] THEN @ ELSE @ + 1]
        /\ UNCHANGED << data, snap >>
    BY <1>2 DEF Complete, pvars
  <2>2. \A b \in Platform : SeedTold(b, turns'[b], seeded'[b], seeds'[b])
    BY <2>1 DEF SeedInv, SeedTold
  <2>3. /\ turns' \in [Platform -> Nat] /\ seeds' \in [Platform -> Nat]
        /\ seeded' \in [Platform -> BOOLEAN]
    BY <2>1 DEF SeedInv
  <2>. QED  BY <2>1, <2>2, <2>3 DEF SeedInv
<1>3. CASE SaveAll
  <2>1. /\ data' = [turns |-> turns, seeded |-> seeded, seeds |-> seeds]
        /\ UNCHANGED << turns, seeded, seeds >>
    BY <1>3 DEF SaveAll, countVars
  <2>. QED  BY <2>1 DEF SeedInv
<1>4. CASE LoadAll
  <2>1. /\ snap # None /\ UNCHANGED << data, snap >>
        /\ turns' = LoadedTurns /\ seeded' = LoadedSeeded
        /\ seeds' = [a \in Platform |-> IF a \in snap.agents THEN data.seeds[a] ELSE 0]
    BY <1>4 DEF LoadAll, CrashAndRestore
  <2>2. ASSUME NEW a \in Platform PROVE SeedTold(a, turns'[a], seeded'[a], seeds'[a])
    <3>1. CASE a \in snap.agents
      <4>1. /\ turns'[a] = data.turns[a] /\ seeds'[a] = data.seeds[a]
            /\ seeded'[a] = data.seeded[a]
        BY <2>1, <3>1 DEF LoadedTurns, LoadedSeeded
      <4>2. SeedTold(a, data.turns[a], data.seeded[a], data.seeds[a])
        BY <2>1 DEF SeedInv
      <4>. QED  BY <4>1, <4>2
    <3>2. CASE a \notin snap.agents
      <4>1. turns'[a] = 0 /\ seeds'[a] = 0 /\ (seeded'[a] <=> a \notin WithSeed)
        BY <2>1, <3>2 DEF LoadedTurns, LoadedSeeded
      <4>. QED  BY <4>1 DEF SeedTold
    <3>. QED  BY <3>1, <3>2
  <2>3. turns' \in [Platform -> Nat] /\ seeds' \in [Platform -> Nat]
        /\ seeded' \in [Platform -> BOOLEAN]
    BY <2>1 DEF SeedInv, LoadedTurns, LoadedSeeded
  <2>. QED  BY <2>1, <2>2, <2>3 DEF SeedInv
<1>5. ASSUME NEW a \in Platform,
             \/ Idle(a) \/ PlatformRaises(a) \/ Dispatch(a) \/ Undeliverable(a) \/ EndTurn(a)
             \/ \E result \in Results : Invoke(a, result)
      PROVE  UNCHANGED << countVars, data, snap >>
  BY <1>5 DEF Idle, PlatformRaises, Dispatch, Undeliverable, EndTurn, Invoke, pvars, platVars
<1>6. UNCHANGED << allVars, platVars >> \/ UNCHANGED << platVars, pvars >>
        => UNCHANGED << countVars, data, snap >>
  BY DEF allVars, platVars, pvars
<1>. QED
  BY <1>1, <1>2, <1>3, <1>4, <1>5, <1>6 DEF NextPlatform, Turn

LEMMA SeedInit == InitPlatform => SeedInv
<1>. SUFFICES ASSUME InitPlatform PROVE SeedInv
  OBVIOUS
<1>1. /\ turns = [a \in Platform |-> 0] /\ seeds = [a \in Platform |-> 0]
      /\ seeded = [a \in Platform |-> a \notin WithSeed] /\ snap = None
  BY DEF InitPlatform, InitP
<1>2. seeded \in [Platform -> BOOLEAN]
  BY <1>1
<1>3. \A a \in Platform : seeded[a] <=> a \notin WithSeed
  BY <1>1
<1>4. \A a \in Platform : SeedTold(a, turns[a], seeded[a], seeds[a])
  BY <1>1, <1>3 DEF SeedTold
<1>. QED  BY <1>1, <1>2, <1>4 DEF SeedInv

\* The seed is in an agent's first completed turn and in no later one, through
\* any failures, restarts, crashes and restores.
THEOREM SeedsOnce == SpecPlatform => []SeedOnce
<1>1. SeedInv /\ [NextPlatform]_<< allVars, platVars >> => SeedInv'
  BY SeedStep
<1>2. SeedInv => SeedOnce
  BY DEF SeedInv, SeedTold, SeedOnce
<1>. QED  BY SeedInit, <1>1, <1>2, PTL DEF SpecPlatform

-----------------------------------------------------------------------------
(* The turns.                                                              *)

\* What an agent's state and the place of its turn say of each other, while the
\* kernel has it in one of its stages.
Place(a) ==
  /\ at[a] # "start" => job[a] = "running"
  /\ job[a] = "queued" => Alive(a)
  /\ job[a] = "running" =>
       astate[a] \in (IF at[a] = "over" THEN {"waiting", "done"} ELSE {"running"})
  /\ job[a] = "skipped" => astate[a] = "waiting"
  /\ job[a] = "ok" => astate[a] \in {"waiting", "done"}
  /\ job[a] = "restarted" => astate[a] = "ready"
  /\ job[a] \in Casualties => astate[a] = "failed"

PlaceInv ==
  /\ at \in [Platform -> {"start", "replying", "over"}]
  /\ \A a \in Agent : job[a] # "none" => inTick
  /\ \A a \in Platform : Place(a)
  /\ MaxWorkers = 1 => \A a, b \in Agent : job[a] = "running" /\ job[b] = "running" => a = b

LEMMA PlaceInit == InitPlatform => PlaceInv
BY PlatformAssumption DEF InitPlatform, InitP, Init, PlaceInv, Place, Casualties

LEMMA TurnPlace ==
  ASSUME TypeOK, PlaceInv, NEW a \in Platform, Turn(a)
  PROVE  PlaceInv'
<1>. USE DEF InStep, In
<1>0. /\ a \in Agent /\ Platform \subseteq Agent /\ at \in [Platform -> {"start", "replying", "over"}]
      /\ job \in [Agent -> JobStates] /\ astate \in [Agent -> AgentStates] /\ Place(a)
  BY PlatformAssumption DEF TypeOK, PlaceInv
<1>1. \/ /\ job[a] = "running" /\ UNCHANGED inTick
         /\ at' = [at EXCEPT ![a] = at'[a]] /\ at'[a] \in {"start", "replying", "over"}
         /\ astate' = [astate EXCEPT ![a] = astate'[a]]
         /\ job' = [job EXCEPT ![a] = job'[a]] /\ job'[a] \in {"running", "ok", "failed"}
         /\ Place(a)'
      \/ UNCHANGED << at, job, astate, inTick >>
  <2>1. CASE Idle(a)
    BY <1>0, <2>1 DEF Idle, Wait, Place, Alive, Casualties, jobVars
  <2>2. CASE PlatformRaises(a)
    BY <1>0, <2>2 DEF PlatformRaises, Raise, Place, Alive, Casualties, platVars, turnVars
  <2>3. CASE Dispatch(a)
    BY <1>0, <2>3 DEF Dispatch, Broadcast, Send, jobVars
  <2>4. CASE Undeliverable(a)
    BY <1>0, <2>4 DEF Undeliverable, Raise, Place, Alive, Casualties
  <2>5. CASE Complete(a)
    BY <1>0, <2>5 DEF Complete, Exit, Wait, Place, Alive, Casualties, jobVars
  <2>6. CASE EndTurn(a)
    BY <1>0, <2>6 DEF EndTurn, Return, Place, Alive, Casualties
  <2>7. ASSUME NEW result \in Results, Invoke(a, result)
        PROVE  /\ job[a] = "running" /\ UNCHANGED << inTick, astate, job >>
               /\ at' = [at EXCEPT ![a] = "replying"] /\ Place(a)'
    BY <1>0, <2>7 DEF Invoke, Place, Alive, Casualties, vars, jobVars
  <2>. QED  BY <1>0, <2>1, <2>2, <2>3, <2>4, <2>5, <2>6, <2>7 DEF Turn
<1>2. \A b \in Platform : Place(b)'
  BY <1>0, <1>1 DEF PlaceInv, Place, Alive
<1>3. /\ \A b \in Agent : job'[b] # "none" => inTick'
      /\ \A b \in Agent : job'[b] = "running" => job[b] = "running"
      /\ at' \in [Platform -> {"start", "replying", "over"}]
  BY <1>0, <1>1 DEF PlaceInv
<1>. QED  BY <1>2, <1>3 DEF PlaceInv

\* No other step makes an agent of a platform DONE, or undoes it.
LEMMA OthersPlace ==
  ASSUME TypeOK, TypeOK', PlaceInv, Others, UNCHANGED platVars
  PROVE  PlaceInv' /\ \A a \in Platform : astate'[a] = "done" <=> astate[a] = "done"
<1>. USE DEF Casualties
<1>. DEFINE DoneStays == \A a \in Platform : astate'[a] = "done" <=> astate[a] = "done"
<1>0. /\ Platform \subseteq Agent /\ at' = at /\ job \in [Agent -> JobStates]
      /\ astate \in [Agent -> AgentStates] /\ regno \in [Agent -> Nat]
  BY PlatformAssumption DEF TypeOK, platVars, turnVars
<1>1. ASSUME Aside PROVE PlaceInv' /\ DoneStays
  BY <1>0, <1>1 DEF Aside, PlaceInv, Place, Alive
<1>2. ASSUME UNCHANGED astate, \A a \in Platform : at[a] = "start",
             \A a \in Platform : job'[a] # "none" => Place(a)',
             \A a \in Agent : (job'[a] # "none" => inTick') /\ job'[a] # "running"
      PROVE  PlaceInv' /\ DoneStays
  BY <1>0, <1>2 DEF PlaceInv, Place
<1>3. CASE BeginTick
  <2>1. \A a \in Agent : job[a] = "none"
    BY <1>3 DEF BeginTick, StepCalled, PlaceInv
  <2>2. \A a \in Platform : at[a] = "start"
    BY <1>0, <2>1 DEF PlaceInv, Place
  <2>3. UNCHANGED astate /\ \A a \in Agent : job'[a] \in {"none", "queued", "skipped"} /\ inTick'
    BY <1>3 DEF BeginTick
  <2>4. \A a \in Agent : /\ job'[a] = "queued" => Alive(a)
                         /\ job'[a] = "skipped" => astate[a] = "waiting"
    BY <1>3 DEF BeginTick, Scheduled, Live
  <2>5. \A a \in Platform : Place(a)'
    BY <1>0, <2>2, <2>3, <2>4 DEF Place, Alive
  <2>. QED  BY <1>2, <2>2, <2>3, <2>5
<1>4. ASSUME NEW a \in Agent, Abort(a), a \notin Platform PROVE PlaceInv' /\ DoneStays
  <2>1. \A b \in Agent : job'[b] = "none"
    BY <1>4 DEF Abort, StepRaises
  <2>2. \A b \in Platform : at[b] = "start"
    BY <1>0, <1>4 DEF Abort, InStep, PlaceInv, Place
  <2>3. UNCHANGED astate
    BY <1>4 DEF Abort
  <2>. QED  BY <1>0, <1>2, <2>1, <2>2, <2>3
<1>5. CASE RefuseTick \/ Reclaim
           \/ \E a \in Agent : EscalateRaises(a) \/ OnRestartRaises(a)
  <2>1. /\ UNCHANGED astate /\ \A a \in Agent : job[a] # "running" /\ job'[a] = "none"
    BY <1>5 DEF RefuseTick, StepCalled, Reclaim, EscalateRaises, NextFallen, OnRestartRaises, NextCasualty,
                AtBarrier, JobsIn, StepRaises, PlaceInv
  <2>2. \A a \in Platform : at[a] = "start"
    BY <1>0, <2>1 DEF PlaceInv, Place
  <2>. QED  BY <1>0, <1>2, <2>1, <2>2
<1>6. ASSUME NEW a \in Agent, StartAgent(a) PROVE PlaceInv' /\ DoneStays
  <2>1. /\ job[a] = "queued" /\ WorkerFor(a) /\ UNCHANGED inTick
        /\ job' = [job EXCEPT ![a] = "running"] /\ astate' = [astate EXCEPT ![a] = "running"]
    BY <1>6 DEF StartAgent
  <2>2. MaxWorkers = 1 => \A b \in Agent : job[b] # "running"
    BY <2>1, OneWorker
  <2>3. \A b \in Platform : Place(b)'
    BY <1>0, <2>1 DEF PlaceInv, Place, Alive, Finished
  <2>4. DoneStays
    BY <1>0, <2>1 DEF PlaceInv, Place, Alive, Finished
  <2>. QED  BY <1>0, <2>1, <2>2, <2>3, <2>4 DEF PlaceInv
<1>7. ASSUME NEW a \in Agent \ Platform, Wait(a) \/ Exit(a) \/ Return(a) \/ Raise(a)
      PROVE  PlaceInv' /\ DoneStays
  <2>1. /\ job[a] = "running" /\ UNCHANGED inTick /\ job'[a] # "none"
        /\ job' = [job EXCEPT ![a] = job'[a]] /\ astate' = [astate EXCEPT ![a] = astate'[a]]
    BY <1>0, <1>7 DEF Wait, Exit, Return, Raise, InStep, jobVars
  <2>2. \A b \in Platform : Place(b)' /\ astate'[b] = astate[b]
    BY <1>0, <2>1 DEF PlaceInv, Place, Alive
  <2>3. \A b \in Agent : job'[b] = "running" => job[b] = "running"
    BY <1>0, <2>1
  <2>. QED  BY <1>0, <2>1, <2>2, <2>3 DEF PlaceInv
<1>8. ASSUME NEW a \in Agent, SuperviseRestarts(a) \/ SuperviseGivesUp(a) \/ Escalate(a)
      PROVE  PlaceInv' /\ DoneStays
  <2>1. /\ job[a] \in {"failed", "fallen"} /\ UNCHANGED inTick /\ inTick
        /\ job' = [job EXCEPT ![a] = job'[a]]
        /\ \/ job'[a] = "restarted" /\ astate' = [astate EXCEPT ![a] = "ready"]
           \/ job'[a] \in {"fallen", "told"} /\ UNCHANGED astate
    BY <1>0, <1>8 DEF SuperviseRestarts, SuperviseGivesUp, Escalate, NextCasualty, NextFallen,
                      IsFirst, JobsIn, AtBarrier
  <2>2. \A b \in Platform : Place(b)'
    BY <1>0, <2>1 DEF PlaceInv, Place, Alive
  <2>3. DoneStays
    BY <1>0, <2>1 DEF PlaceInv, Place
  <2>4. \A b \in Agent : job'[b] = "running" => job[b] = "running"
    BY <1>0, <2>1
  <2>. QED  BY <1>0, <2>1, <2>2, <2>3, <2>4 DEF PlaceInv
<1>. HIDE DEF DoneStays
<1>9. CASE OperatorStep \/ RunStep
  BY <1>1, <1>9, AsideSteps DEF DoneStays
<1>10. ASSUME NEW a \in Agent \ Platform, UserCode(a) \/ WorkerStep(a) PROVE PlaceInv' /\ DoneStays
  BY <1>1, <1>4, <1>6, <1>7, <1>10, AsideSteps DEF UserCode, WorkerStep
<1>. QED
  BY <1>3, <1>5, <1>6, <1>8, <1>9, <1>10 DEF Others, BarrierStep, DoneStays

LEMMA PlaceStep ==
  ASSUME TypeOK, TypeOK', PlaceInv, [NextPlatform]_<< allVars, platVars >>
  PROVE  PlaceInv'
<1>1. CASE SaveAll \/ UNCHANGED << allVars, platVars >>
  <2>1. UNCHANGED << job, astate, inTick, at >>
    BY <1>1 DEF SaveAll, Snapshot, allVars, platVars, turnVars, vars, jobVars
  <2>. QED  BY <2>1 DEF PlaceInv, Place, Alive
<1>2. CASE LoadAll
  <2>1. /\ \A a \in Agent : job'[a] = "none"
        /\ at' = [a \in Platform |-> "start"]
    BY <1>2 DEF LoadAll, CrashAndRestore
  <2>. QED  BY <2>1, PlatformAssumption DEF PlaceInv, Place, Casualties
<1>. QED
  BY <1>1, <1>2, TurnPlace, OthersPlace DEF NextPlatform, Others

\* An agent is DONE when its turns are, and so is what a snapshot has of it.
Counted(a, t, s) ==
  /\ MaxTurns[a] # 0 => t <= MaxTurns[a]
  /\ s = "done" <=> (MaxTurns[a] # 0 /\ t = MaxTurns[a])

CountInv ==
  /\ turns \in [Platform -> Nat]
  /\ \A a \in Platform : Counted(a, turns[a], astate[a])
  /\ snap # None =>
       /\ data.turns \in [Platform -> Nat]
       /\ \A a \in Platform \cap snap.agents : Counted(a, data.turns[a], snap.state[a])

LEMMA TurnCount ==
  ASSUME TypeOK, PlaceInv, CountInv, NEW a \in Platform, Turn(a)
  PROVE  CountInv'
<1>. USE DEF InStep, In
<1>0. /\ a \in Agent /\ Platform \subseteq Agent /\ astate \in [Agent -> AgentStates] /\ Place(a)
      /\ turns \in [Platform -> Nat] /\ MaxTurns \in [Platform -> Nat]
  BY PlatformAssumption DEF TypeOK, PlaceInv, CountInv
<1>1. ASSUME UNCHANGED << turns, data, snap >>, astate[a] # "done",
             astate' = [astate EXCEPT ![a] = astate'[a]], astate'[a] # "done"
      PROVE  CountInv'
  <2>1. \A b \in Platform : astate'[b] = "done" <=> astate[b] = "done"
    BY <1>0, <1>1
  <2>. QED  BY <1>1, <2>1 DEF CountInv, Counted
<1>2. CASE Complete(a)
  <2>1. /\ turns' = [turns EXCEPT ![a] = @ + 1] /\ UNCHANGED << data, snap >>
        /\ astate' = [astate EXCEPT ![a] = IF LastTurn(a) THEN "done" ELSE "waiting"]
        /\ astate[a] = "running"
    BY <1>0, <1>2 DEF Complete, Exit, Wait, Place, pvars
  <2>2. Counted(a, turns'[a], astate'[a])
    BY <1>0, <2>1 DEF CountInv, Counted, LastTurn
  <2>3. \A b \in Platform : Counted(b, turns'[b], astate'[b])
    BY <1>0, <2>1, <2>2 DEF CountInv
  <2>4. turns' \in [Platform -> Nat]
    BY <1>0, <2>1
  <2>. QED  BY <2>1, <2>3, <2>4 DEF CountInv
<1>3. CASE Idle(a)
  BY <1>0, <1>1, <1>3 DEF Idle, Wait, Place, countVars, pvars
<1>4. CASE PlatformRaises(a)
  BY <1>0, <1>1, <1>4 DEF PlatformRaises, Raise, Place, platVars, countVars, pvars
<1>5. CASE Undeliverable(a)
  BY <1>0, <1>1, <1>5 DEF Undeliverable, Raise, Place, countVars, pvars
<1>6. CASE \/ Dispatch(a) \/ EndTurn(a)
           \/ \E result \in Results : Invoke(a, result)
  <2>1. UNCHANGED << turns, data, snap >> /\ astate' = astate
    BY <1>0, <1>6 DEF Dispatch, Broadcast, Send, EndTurn, Return, Invoke, Place, countVars, pvars,
                      vars
  <2>. QED  BY <2>1 DEF CountInv
<1>. QED  BY <1>2, <1>3, <1>4, <1>5, <1>6 DEF Turn

LEMMA CountStep ==
  ASSUME TypeOK, TypeOK', SnapType, PlaceInv, CountInv, [NextPlatform]_<< allVars, platVars >>
  PROVE  CountInv'
<1>0. Platform \subseteq Agent /\ MaxTurns \in [Platform -> Nat]
  BY PlatformAssumption
<1>1. CASE Others /\ UNCHANGED << platVars, pvars >>
  <2>1. UNCHANGED << turns, data, snap >>
    BY <1>1 DEF platVars, countVars, pvars
  <2>2. \A a \in Platform : astate'[a] = "done" <=> astate[a] = "done"
    BY <1>1, OthersPlace
  <2>. QED  BY <2>1, <2>2 DEF CountInv, Counted
<1>2. CASE UNCHANGED << allVars, platVars >>
  BY <1>2 DEF CountInv, allVars, platVars, countVars, pvars, vars
<1>3. CASE SaveAll
  <2>1. /\ UNCHANGED << turns, astate >> /\ data'.turns = turns /\ snap'.agents = registered
        /\ snap'.state = [a \in registered |-> astate[a]]
    BY <1>3 DEF SaveAll, Snapshot, countVars, vars
  <2>. QED  BY <2>1 DEF CountInv
<1>4. CASE LoadAll
  <2>1. /\ snap # None /\ UNCHANGED << data, snap >> /\ turns' = LoadedTurns
        /\ astate' = [a \in Agent |-> IF a \in snap.agents THEN snap.state[a] ELSE "ready"]
    BY <1>4 DEF LoadAll, CrashAndRestore, RestoredState
  <2>2. turns' \in [Platform -> Nat]
    BY <2>1 DEF LoadedTurns, CountInv
  <2>3. \A a \in Platform : Counted(a, turns'[a], astate'[a])
    BY <1>0, <2>1 DEF LoadedTurns, CountInv, Counted
  <2>. QED  BY <2>1, <2>2, <2>3 DEF CountInv
<1>. QED
  BY <1>1, <1>2, <1>3, <1>4, TurnCount DEF NextPlatform, Others

LEMMA CountInit == InitPlatform => CountInv
<1>. SUFFICES ASSUME InitPlatform PROVE CountInv
  OBVIOUS
<1>1. /\ turns = [a \in Platform |-> 0] /\ snap = None
      /\ astate = [a \in Agent |-> "ready"]
  BY DEF InitPlatform, InitP, Init
<1>2. \A a \in Platform : turns[a] = 0 /\ astate[a] = "ready" /\ MaxTurns[a] \in Nat
  BY <1>1, PlatformAssumption
<1>. QED  BY <1>1, <1>2 DEF CountInv, Counted

\* An agent has made its last turn if and only if it is DONE: none more, and a
\* failed or repeated turn counts for nothing, through crashes and restores, with
\* any number of workers and hooks and calls of any kind.
THEOREM TurnsAreCounted == SpecPlatform => []TurnsEnd
<1>1. InitPlatform => TypeOK /\ SnapType
  BY InitType DEF InitPlatform, InitP, SnapType
<1>2. TypeOK /\ SnapType /\ [NextPlatform]_<< allVars, platVars >> => TypeOK' /\ SnapType'
  BY StepIsStep, TypeStepP
<1>3. TypeOK /\ TypeOK' /\ PlaceInv /\ [NextPlatform]_<< allVars, platVars >> => PlaceInv'
  BY PlaceStep
<1>4. TypeOK /\ TypeOK' /\ SnapType /\ PlaceInv /\ CountInv
        /\ [NextPlatform]_<< allVars, platVars >> => CountInv'
  BY CountStep
<1>5. CountInv => TurnsEnd
  BY DEF CountInv, Counted, TurnsEnd
<1>. QED  BY PlaceInit, CountInit, <1>1, <1>2, <1>3, <1>4, <1>5, PTL DEF SpecPlatform

-----------------------------------------------------------------------------
(* Nobody runs for nothing, and no turn is forgotten.                      *)

\* An agent that has had its say and failed or completed a turn since the
\* factory made it.
Due(flag, t, r) == flag /\ (t > 0 \/ r > 0)

\* An agent in a turn, or out of one that failed, has what the turn is about;
\* one that is READY and due has mail, when the kernel is through with it.
DueOf(a) ==
  /\ at[a] = "replying" \/ job[a] = "failed" => HasTurn(a)
  /\ regno[a] = 0 => turns[a] = 0 /\ restarts[a] = 0
  /\ /\ a \in registered /\ Due(seeded[a], turns[a], restarts[a])
     /\ astate[a] = "ready" /\ job[a] \in {"none", "restarted"}
     => Pending(bus, NameOf[a]) # << >>

SnapDue ==
  snap # None =>
    \A a \in Platform \cap snap.agents :
      Due(data.seeded[a], data.turns[a], snap.restarts[a]) /\ snap.state[a] = "ready"
        => Pending(snap.mail, NameOf[a]) # << >>

DueInv == (\A a \in Platform : DueOf(a)) /\ SnapDue

\* What a step leaves alone of an agent that it is not about.
StillDue(a) ==
  /\ UNCHANGED << at[a], turns[a], seeded[a], job[a], astate[a], inbox[a], restarts[a] >>
  /\ regno'[a] = 0 => regno[a] = 0
  /\ a \in registered' => a \in registered \/ regno[a] = 0
  /\ a \in registered' /\ Pending(bus, NameOf[a]) # << >> => Pending(bus, NameOf[a])' # << >>

LEMMA DueKeeps ==
  ASSUME NEW a \in Platform, DueOf(a), StillDue(a)
  PROVE  DueOf(a)'
BY DEF DueOf, StillDue, Due, HasTurn

\* Mail that arrives takes none away.
LEMMA MailGathers ==
  ASSUME TypeOK, NEW m \in Message, NEW M,
         \/ UNCHANGED bus \/ bus' = DeliverAll(bus, m)
         \/ \E N : bus' = Deliver(bus, N, m) \/ bus' = RegisterBox(bus, N)
  PROVE  Pending(bus, M) # << >> => Pending(bus, M)' # << >>
<1>1. Pending(bus, M) \in Seq(Message)
  BY PendingBus
<1>2. Append(Pending(bus, M), m) # << >>
  BY <1>1
<1>3. Pending(bus', M) \in {Pending(bus, M), Append(Pending(bus, M), m)}
  BY PendingOps, PendingDeliver
<1>. QED  BY <1>2, <1>3

LEMMA MailSent ==
  ASSUME TypeOK,
         \/ \E a \in Agent : Broadcast(a) \/ Escalate(a) \/ \E N \in Name : Send(a, N)
         \/ \E N \in Name : OperatorPosts(N)
  PROVE  \A M : Pending(bus, M) # << >> => Pending(bus, M)' # << >>
<1>1. ASSUME NEW a \in Agent, Broadcast(a) \/ Escalate(a) \/ \E N \in Name : Send(a, N)
      PROVE  \A M : Pending(bus, M) # << >> => Pending(bus, M)' # << >>
  <2>1. /\ NextMail(NameOf[a]) \in Message
        /\ [id |-> posted + 1, from |-> NameOf[a], kind |-> "child_failed"] \in Message
    BY NamesAssumption DEF NextMail, Message, TypeOK
  <2>. QED  BY <1>1, <2>1, MailGathers DEF Broadcast, Escalate, Send
<1>2. ASSUME NEW N \in Name, OperatorPosts(N)
      PROVE  \A M : Pending(bus, M) # << >> => Pending(bus, M)' # << >>
  <2>1. NextMail(Operator) \in Message
    BY NamesAssumption DEF NextMail, Message, TypeOK
  <2>. QED  BY <1>2, <2>1, MailGathers DEF OperatorPosts
<1>. QED  BY <1>1, <1>2

LEMMA TurnDue ==
  ASSUME TypeOK, RegInv, PlaceInv, SeedInv, DueInv, NEW a \in Platform, Turn(a)
  PROVE  DueInv'
<1>. USE DEF InStep, In
<1>0. /\ a \in Agent /\ Platform \subseteq Agent /\ Place(a) /\ DueOf(a)
      /\ job \in [Agent -> JobStates] /\ inbox \in [Agent -> Seq(Message)]
      /\ astate \in [Agent -> AgentStates] /\ at \in [Platform -> {"start", "replying", "over"}]
      /\ turns \in [Platform -> Nat] /\ seeded \in [Platform -> BOOLEAN]
  BY PlatformAssumption DEF TypeOK, PlaceInv, SeedInv, DueInv
<1>1. regno[a] # 0
  <2>1. job[a] = "running" \/ \E result \in Results : Invoke(a, result)
    BY DEF Turn, Idle, PlatformRaises, Dispatch, Undeliverable, Complete, EndTurn
  <2>2. job[a] = "running"
    BY <2>1 DEF Invoke
  <2>. QED  BY <1>0, <2>2 DEF RegInv
<1>2. UNCHANGED << registered, regno, restarts, snap, data >>
  BY DEF Turn, Idle, PlatformRaises, Dispatch, Undeliverable, Complete, EndTurn, Invoke, Wait, Exit,
         Raise, Return, Send, Broadcast, agentVars, failVars, pvars, platVars, vars
<1>3. \A M : Pending(bus, M) # << >> => Pending(bus, M)' # << >>
  <2>1. CASE UNCHANGED bus
    BY <2>1
  <2>2. CASE Dispatch(a)
    <3>1. Broadcast(a) \/ \E N \in Name : Send(a, N)
      BY <2>2 DEF Dispatch, Send, CanDeliver, TypeOK
    <3>. QED  BY <1>0, <3>1, MailSent
  <2>. QED
    BY <2>1, <2>2 DEF Turn, Idle, PlatformRaises, Undeliverable, Complete, EndTurn, Invoke, Wait,
                      Exit, Raise, Return, mailVars, vars
<1>4. \A b \in Platform : b # a =>
        UNCHANGED << at[b], turns[b], seeded[b], job[b], astate[b], inbox[b] >>
  <2>1. CASE Idle(a) \/ Complete(a)
    BY <1>0, <2>1 DEF Idle, Complete, Wait, Exit, jobVars, countVars
  <2>2. CASE PlatformRaises(a) \/ Undeliverable(a) \/ EndTurn(a)
    BY <1>0, <2>2 DEF PlatformRaises, Undeliverable, EndTurn, Raise, Return, countVars, platVars,
                      turnVars
  <2>3. CASE Dispatch(a) \/ \E result \in Results : Invoke(a, result)
    BY <1>0, <2>3 DEF Dispatch, Invoke, Send, Broadcast, jobVars, countVars, vars
  <2>. QED  BY <2>1, <2>2, <2>3 DEF Turn
<1>5. \A b \in Platform : b # a => DueOf(b)'
  BY <1>2, <1>3, <1>4, DueKeeps DEF StillDue, DueInv
<1>6. DueOf(a)'
  <2>1. job'[a] \in {"running", "ok", "failed"}
    BY <1>0 DEF Turn, Idle, PlatformRaises, Dispatch, Undeliverable, Complete, EndTurn, Invoke,
                Wait, Exit, Raise, Return, Send, Broadcast, jobVars, vars
  <2>2. at'[a] = "replying" \/ job'[a] = "failed" => HasTurn(a)'
    <3>1. CASE Idle(a) \/ Complete(a) \/ EndTurn(a)
      BY <1>0, <3>1 DEF Idle, Complete, EndTurn, Wait, Exit, Return, jobVars
    <3>2. CASE PlatformRaises(a) \/ Dispatch(a) \/ Undeliverable(a)
               \/ \E result \in Results : Invoke(a, result)
      <4>1. HasTurn(a) /\ UNCHANGED << inbox, seeded >>
        BY <1>0, <3>2 DEF PlatformRaises, Dispatch, Undeliverable, Invoke, Raise, Send, Broadcast,
                          DueOf, jobVars, platVars, countVars, vars
      <4>. QED  BY <4>1 DEF HasTurn
    <3>. QED  BY <3>1, <3>2 DEF Turn
  <2>. QED  BY <1>1, <1>2, <2>1, <2>2 DEF DueOf
<1>. QED  BY <1>2, <1>5, <1>6 DEF DueInv, SnapDue

LEMMA OthersDue ==
  ASSUME NoneUnregisters, HooksReturn, StepsRun, InvMail, TypeOK', WholeInv, PlaceInv, DueInv,
         Others, UNCHANGED << platVars, pvars >>
  PROVE  DueInv'
<1>. USE DEF Casualties, agentVars, mailVars, runVars, jobVars, failVars
<1>0. /\ TypeOK /\ Platform \subseteq Agent /\ BoxInv /\ RegInv /\ NamesUnique
      /\ UNCHANGED << at, turns, seeded, data, snap >>
      /\ job \in [Agent -> JobStates] /\ inbox \in [Agent -> Seq(Message)]
      /\ astate \in [Agent -> AgentStates] /\ registered \subseteq Agent
      /\ restarts \in [Agent -> Nat] /\ regno \in [Agent -> Nat]
      /\ \A a \in Platform : Place(a) /\ DueOf(a)
  BY PlatformAssumption
  DEF InvMail, TypeOK, WholeInv, PlaceInv, DueInv, platVars, turnVars, countVars, pvars
<1>. SUFFICES \A a \in Platform : DueOf(a)'
  BY <1>0 DEF DueInv, SnapDue
<1>1. ASSUME \A a \in Platform : StillDue(a) PROVE \A a \in Platform : DueOf(a)'
  BY <1>0, <1>1, DueKeeps
<1>2. ASSUME NEW a \in Agent, NEW p, Register(a, p), UNCHANGED << astate, jobVars, failVars >>
      PROVE  \A b \in Platform : DueOf(b)'
  <2>1. \A b \in Agent : regno'[b] = 0 => regno[b] = 0
    BY <1>0, <1>2 DEF Register
  <2>2. \A b \in registered' : b \in registered \/ regno[b] = 0
    BY <1>2 DEF Register
  <2>3. \A M : Pending(bus, M)' = Pending(bus, M)
    BY <1>2, PendingOps DEF Register
  <2>4. \A b \in Platform : StillDue(b)
    BY <1>0, <1>2, <2>1, <2>2, <2>3 DEF StillDue
  <2>. QED  BY <1>1, <2>4
<1>3. ASSUME NEW a \in Agent, NEW p \in Name \cup {None},
             OperatorRegisters(a, p) \/ \E b \in Agent : Spawn(b, a)
      PROVE  \A b \in Platform : DueOf(b)'
  <2>1. CASE OperatorRegisters(a, p)
    BY <1>2, <2>1 DEF OperatorRegisters
  <2>2. ASSUME NEW b \in Agent, Spawn(b, a) PROVE \A c \in Platform : DueOf(c)'
    BY <1>2, <2>2 DEF Spawn
  <2>. QED  BY <1>3, <2>1, <2>2
<1>4. CASE \/ \E N \in Name : OperatorPosts(N) \/ \E a \in Agent : Send(a, N)
           \/ \E a \in Agent : Broadcast(a)
           \/ \E n \in RunLimits : OperatorRuns(n)
           \/ RunStep
  <2>1. UNCHANGED << registered, regno, astate, job, inbox, restarts >>
    BY <1>4 DEF OperatorPosts, Send, Broadcast, OperatorRuns, RunStep, ReadLive, AskPending,
                RunReturns
  <2>2. \A M : Pending(bus, M) # << >> => Pending(bus, M)' # << >>
    <3>1. CASE UNCHANGED bus
      BY <3>1
    <3>. QED
      BY <1>0, <1>4, <3>1, MailSent DEF OperatorRuns, RunStep, ReadLive, AskPending, RunReturns
  <2>3. \A a \in Platform : StillDue(a)
    BY <1>0, <2>1, <2>2 DEF StillDue
  <2>. QED  BY <1>1, <2>3
<1>5. ASSUME NEW N \in Name, OperatorUnregisters(N) PROVE \A a \in Platform : DueOf(a)'
  <2>1. /\ UNCHANGED << regno, astate, job, inbox, restarts >>
        /\ registered' = {b \in registered : NameOf[b] # N}
        /\ bus' = UnregisterBoxes(bus, {N})
    BY <1>5 DEF OperatorUnregisters
  <2>2. \A a \in registered' : Pending(bus', NameOf[a]) = Pending(bus, NameOf[a])
    BY <2>1 DEF Pending, UnregisterBoxes
  <2>. QED  BY <1>0, <1>1, <2>1, <2>2 DEF StillDue
<1>6. ASSUME NEW a \in Agent \ Platform, Wait(a) \/ Exit(a) \/ Return(a) \/ Raise(a)
      PROVE  \A b \in Platform : DueOf(b)'
  <2>1. /\ UNCHANGED << registered, regno, bus, restarts >>
        /\ job' = [job EXCEPT ![a] = job'[a]] /\ astate' = [astate EXCEPT ![a] = astate'[a]]
        /\ inbox' = [inbox EXCEPT ![a] = inbox'[a]]
    BY <1>0, <1>6 DEF Wait, Exit, Return, Raise
  <2>2. \A b \in Platform : StillDue(b)
    BY <1>0, <2>1 DEF StillDue
  <2>. QED  BY <1>1, <2>2
<1>7. ASSUME NEW a \in Agent, StartAgent(a) PROVE \A b \in Platform : DueOf(b)'
  <2>1. /\ UNCHANGED << registered, regno, bus, restarts, inbox >> /\ job[a] = "queued"
        /\ job' = [job EXCEPT ![a] = "running"] /\ astate' = [astate EXCEPT ![a] = "running"]
    BY <1>7 DEF StartAgent
  <2>2. \A b \in Platform : b # a => DueOf(b)'
    BY <1>0, <2>1, DueKeeps DEF StillDue
  <2>3. a \in Platform => DueOf(a)'
    BY <1>0, <2>1 DEF DueOf, Place
  <2>. QED  BY <2>2, <2>3
<1>8. CASE BeginTick
  <2>1. /\ UNCHANGED << registered, regno, restarts, astate >> /\ \A a \in Agent : job[a] = "none"
        /\ job' = [a \in Agent |-> IF a \in Scheduled THEN "queued"
                                   ELSE IF a \in Live THEN "skipped" ELSE "none"]
    BY <1>0, <1>8 DEF BeginTick, StepCalled, BoxInv
  <2>2. \A a \in Platform : at'[a] = "start" /\ job'[a] # "failed"
    BY <1>0, <2>1 DEF Place
  <2>3. \A a \in Platform : a \in registered /\ astate[a] = "ready" => job'[a] = "queued"
    BY <1>0, <2>1 DEF Scheduled, Live, Alive, Finished
  <2>4. \A a \in Platform : regno'[a] = 0 => turns'[a] = 0 /\ restarts'[a] = 0
    BY <1>0, <2>1 DEF DueOf
  <2>. QED  BY <2>1, <2>2, <2>3, <2>4 DEF DueOf
<1>9. ASSUME NEW a \in Agent, SuperviseRestarts(a) PROVE \A b \in Platform : DueOf(b)'
  <2>1. /\ UNCHANGED << registered, regno >> /\ job[a] = "failed" /\ a \in registered
        /\ NameOf[a] \in DOMAIN bus
        /\ restarts' = [restarts EXCEPT ![a] = @ + 1] /\ astate' = [astate EXCEPT ![a] = "ready"]
        /\ job' = [job EXCEPT ![a] = "restarted"] /\ inbox' = [inbox EXCEPT ![a] = << >>]
        /\ bus' = Requeue(bus, NameOf[a], inbox[a])
    BY <1>0, <1>9
    DEF SuperviseRestarts, NextCasualty, IsFirst, JobsIn, BoxInv, LiveHaveMailbox, CanDeliver
  <2>2. \A b \in registered : b # a => Pending(bus', NameOf[b]) = Pending(bus, NameOf[b])
    BY <1>0, <2>1, PendingRequeue DEF NamesUnique
  <2>3. \A b \in Platform : b # a => DueOf(b)'
    BY <1>0, <2>1, <2>2, DueKeeps DEF StillDue
  <2>4. ASSUME a \in Platform PROVE DueOf(a)'
    <3>1. at'[a] = "start" /\ regno'[a] # 0 /\ job'[a] = "restarted"
      BY <1>0, <2>1, <2>4 DEF Place, RegInv
    <3>2. inbox[a] # << >> \/ ~seeded[a]
      BY <1>0, <2>1, <2>4 DEF DueOf, HasTurn
    <3>3. Pending(bus', NameOf[a]) = inbox[a] \o Pending(bus, NameOf[a])
      BY <2>1, PendingRequeue
    <3>4. inbox[a] \in Seq(Message) /\ Pending(bus, NameOf[a]) \in Seq(Message)
      BY <1>0, PendingBus
    <3>5. inbox[a] # << >> => Pending(bus', NameOf[a]) # << >>
      BY <3>3, <3>4
    <3>. QED  BY <1>0, <3>1, <3>2, <3>5 DEF DueOf, Due
  <2>. QED  BY <2>3, <2>4
<1>10. ASSUME NEW a \in Agent, SuperviseGivesUp(a) \/ Escalate(a)
       PROVE  \A b \in Platform : DueOf(b)'
  <2>1. /\ UNCHANGED << registered, regno, astate, restarts, inbox >>
        /\ job[a] \in {"failed", "fallen"}
        /\ job' = [job EXCEPT ![a] = job'[a]] /\ job'[a] \in {"fallen", "told"}
    BY <1>0, <1>10 DEF SuperviseGivesUp, Escalate, NextCasualty, NextFallen, IsFirst, JobsIn
  <2>2. \A M : Pending(bus, M) # << >> => Pending(bus, M)' # << >>
    BY <1>0, <1>10, MailSent DEF SuperviseGivesUp
  <2>3. \A b \in Platform : b # a => DueOf(b)'
    BY <1>0, <2>1, <2>2, DueKeeps DEF StillDue
  <2>4. a \in Platform => DueOf(a)'
    BY <1>0, <2>1 DEF DueOf, Place
  <2>. QED  BY <2>3, <2>4
<1>11. CASE Reclaim
  <2>1. /\ UNCHANGED << registered, regno, astate, restarts >>
        /\ \A a \in Agent : job'[a] = "none" /\ job[a] \notin {"queued", "running", "failed", "fallen"}
        /\ bus' = UnregisterBoxes(bus, Names(ToReclaim))
    BY <1>11 DEF Reclaim, AtBarrier, JobsIn
  <2>2. \A a \in Platform : at'[a] = "start"
    BY <1>0, <2>1 DEF Place
  <2>3. \A a \in registered : Alive(a) => NameOf[a] \notin Names(ToReclaim)
    BY <1>0 DEF Names, ToReclaim, JobsIn, BoxInv, NamesUnique
  <2>4. \A a \in registered : Alive(a) => Pending(bus', NameOf[a]) = Pending(bus, NameOf[a])
    BY <2>1, <2>3 DEF Pending, UnregisterBoxes
  <2>5. \A a \in Platform : astate[a] = "ready" => job[a] \in {"none", "restarted"} /\ Alive(a)
    BY <1>0, <2>1 DEF Place, JobStates, Alive, Finished
  <2>6. ASSUME NEW a \in Platform, a \in registered, Due(seeded[a], turns[a], restarts[a]),
               astate[a] = "ready"
        PROVE  Pending(bus', NameOf[a]) # << >>
    BY <1>0, <2>4, <2>5, <2>6 DEF DueOf
  <2>7. \A a \in Platform : regno'[a] = 0 => turns'[a] = 0 /\ restarts'[a] = 0
    BY <1>0, <2>1 DEF DueOf
  <2>. QED  BY <1>0, <2>1, <2>2, <2>6, <2>7 DEF DueOf, Due
<1>12. CASE RefuseTick \/ \E a \in Agent : \/ UnregisterMailbox(a) \/ OnRestartRaises(a)
                                           \/ EscalateRaises(a) \/ Abort(a)
                                           \/ \E N \in Name : UnregisterAgent(a, N)
  <2>1. \A a \in Agent : ~EscalateRaises(a)
    BY <1>0 DEF EscalateRaises, HasLiveParent, Live, BoxInv, LiveHaveMailbox
  <2>. QED
    BY <1>0, <1>12, <2>1
    DEF RefuseTick, Refused, StepsRun, UnregisterMailbox, BoxInv, OnRestartRaises, HooksReturn,
        Abort, UnregisterAgent, NoneUnregisters
<1>13. CASE OperatorStep \/ RunStep
  BY <1>3, <1>4, <1>5, <1>13 DEF OperatorStep
<1>14. CASE BeginTick \/ RefuseTick \/ BarrierStep \/ \E a \in Agent : StartAgent(a)
  BY <1>7, <1>8, <1>9, <1>10, <1>11, <1>12, <1>14 DEF BarrierStep
<1>15. ASSUME NEW a \in Agent \ Platform, UserCode(a) \/ WorkerStep(a)
       PROVE  \A b \in Platform : DueOf(b)'
  BY <1>3, <1>4, <1>6, <1>7, <1>12, <1>15, NamesAssumption DEF UserCode, WorkerStep
<1>. QED  BY <1>13, <1>14, <1>15 DEF Others

LEMMA SaveDue ==
  ASSUME AtBoundaries, TypeOK, BoxInv, DueInv, SaveAll
  PROVE  DueInv'
<1>1. /\ ~inTick /\ UNCHANGED << vars, turnVars, countVars >> /\ Platform \subseteq Agent
      /\ data' = [turns |-> turns, seeded |-> seeded, seeds |-> seeds]
      /\ snap'.agents = registered /\ snap'.state = [a \in registered |-> astate[a]]
      /\ snap'.restarts = [a \in registered |-> restarts[a]]
      /\ snap'.mail = [N \in {M \in DOMAIN bus : bus[M] # << >>} |-> bus[N]]
  BY PlatformAssumption DEF SaveAll, Snapshot, AtBoundaries
<1>2. \A a \in Platform : DueOf(a)'
  BY <1>1 DEF DueInv, DueOf, HasTurn, vars, agentVars, mailVars, jobVars, failVars, turnVars, countVars
<1>3. \A a \in Platform : job[a] = "none"
  BY <1>1 DEF BoxInv
<1>4. ASSUME NEW a \in Platform, a \in registered, Due(seeded[a], turns[a], restarts[a]),
             astate[a] = "ready"
      PROVE  Pending(snap'.mail, NameOf[a]) # << >>
  <2>1. Pending(bus, NameOf[a]) # << >>
    BY <1>3, <1>4 DEF DueInv, DueOf
  <2>. QED  BY <1>1, <2>1 DEF Pending
<1>5. SnapDue'
  BY <1>1, <1>4 DEF SnapDue
<1>. QED  BY <1>2, <1>5 DEF DueInv

LEMMA LoadDue ==
  ASSUME SnapType, SnapReg, DueInv, LoadAll
  PROVE  DueInv'
<1>1. /\ snap # None /\ UNCHANGED << snap, data >> /\ Platform \subseteq Agent
      /\ snap.agents \subseteq Agent /\ registered' = snap.agents /\ regno' = snap.order
      /\ astate' = [a \in Agent |-> IF a \in snap.agents THEN snap.state[a] ELSE "ready"]
      /\ restarts' = [a \in Agent |-> IF a \in snap.agents THEN snap.restarts[a] ELSE 0]
      /\ job' = [a \in Agent |-> "none"] /\ bus' = RestoredBus(snap)
      /\ turns' = LoadedTurns /\ seeded' = LoadedSeeded /\ at' = [a \in Platform |-> "start"]
  BY PlatformAssumption DEF LoadAll, CrashAndRestore, RestoredState, SnapType
<1>2. ASSUME NEW a \in Platform PROVE DueOf(a)'
  <2>1. CASE a \notin snap.agents
    BY <1>1, <1>2, <2>1 DEF DueOf, LoadedTurns
  <2>2. CASE a \in snap.agents
    <3>1. snap.order[a] # 0
      BY <1>1, <2>2 DEF SnapReg
    <3>2. /\ turns'[a] = data.turns[a] /\ (seeded'[a] <=> data.seeded[a])
          /\ restarts'[a] = snap.restarts[a] /\ astate'[a] = snap.state[a]
          /\ at'[a] = "start" /\ job'[a] = "none"
      BY <1>1, <2>2 DEF LoadedTurns, LoadedSeeded
    <3>3. Pending(snap.mail, NameOf[a]) # << >> => Pending(bus', NameOf[a]) # << >>
      BY <1>1 DEF Pending, RestoredBus
    <3>4. Due(data.seeded[a], data.turns[a], snap.restarts[a]) /\ snap.state[a] = "ready"
            => Pending(snap.mail, NameOf[a]) # << >>
      BY <1>1, <2>2 DEF DueInv, SnapDue
    <3>. QED  BY <1>1, <3>1, <3>2, <3>3, <3>4 DEF DueOf, Due
  <2>. QED  BY <2>1, <2>2
<1>. QED  BY <1>1, <1>2 DEF DueInv, SnapDue

LEMMA DueStep ==
  ASSUME NoneUnregisters, HooksReturn, StepsRun, AtBoundaries, InvMail, TypeOK', SnapType, WholeInv,
         PlaceInv, SeedInv, DueInv, [NextPlatform]_<< allVars, platVars >>
  PROVE  DueInv'
<1>1. CASE UNCHANGED << allVars, platVars >>
  BY <1>1 DEF DueInv, SnapDue, DueOf, HasTurn, allVars, pvars, platVars, turnVars, countVars, vars,
              agentVars, mailVars, jobVars, failVars
<1>2. TypeOK /\ RegInv /\ BoxInv /\ SnapReg
  BY DEF InvMail, WholeInv
<1>. QED
  BY <1>1, <1>2, TurnDue, OthersDue, SaveDue, LoadDue DEF NextPlatform, Others

\* Between ticks an agent that has had its say is scheduled with mail to act on,
\* that of a failed turn included: it costs no idle call, and a failed turn is
\* never forgotten, through crashes and restores.
THEOREM ReadyHaveMail ==
  ASSUME NoneUnregisters, HooksReturn, StepsRun, AtBoundaries
  PROVE  SpecPlatform => []ReadyHasMail
<1>1. InitPlatform => DueInv
  BY PlatformAssumption DEF InitPlatform, InitP, Init, DueInv, DueOf, SnapDue, Due
<1>2. TypeOK /\ TypeOK' /\ PlaceInv /\ [NextPlatform]_<< allVars, platVars >> => PlaceInv'
  BY PlaceStep
<1>3. InvMail /\ TypeOK' /\ SnapType /\ WholeInv /\ PlaceInv /\ SeedInv /\ DueInv
        /\ [NextPlatform]_<< allVars, platVars >> => DueInv'
  BY DueStep
<1>4. InvMail => TypeOK
  BY DEF InvMail
<1>5. InvMail /\ WholeInv /\ DueInv => ReadyHasMail
  BY PlatformAssumption DEF InvMail, WholeInv, BoxInv, DueInv, DueOf, Due, ReadyHasMail
<1>6. SeedInv /\ [NextPlatform]_<< allVars, platVars >> => SeedInv'
  BY SeedStep
<1>. QED
  BY PlatformIsProgram, AlwaysWhole, PlaceInit, SeedInit, <1>6, <1>1, <1>2, <1>3, <1>4, <1>5, PTL DEF SpecPlatform

=============================================================================
