----------------------- MODULE KernelDelivery_proofs -----------------------
(***************************************************************************)
(* The scheduler implements ReliableMail, for any agents, names, policies, *)
(* numbers of workers and bounds.                                          *)
(***************************************************************************)
EXTENDS KernelDelivery, KernelAgents_proofs

-----------------------------------------------------------------------------
(* The ids of a sequence of messages.                                      *)

LEMMA IdsOfSeq ==
  ASSUME NEW s \in Seq(Message)
  PROVE  /\ IdsOf(s) \in Seq(Nat) /\ Len(IdsOf(s)) = Len(s)
         /\ \A i \in 1..Len(s) : IdsOf(s)[i] = s[i].id
<1>1. \A i \in 1..Len(s) : s[i].id \in Nat
  BY IdsAreNumbers
<1>2. IdsOf(s) = [i \in 1..Len(s) |-> s[i].id]
  BY DEF IdsOf
<1>. QED  BY <1>1, <1>2

LEMMA SeqEqual ==
  ASSUME NEW s \in Seq(Nat), NEW t \in Seq(Nat), Len(s) = Len(t),
         \A i \in 1..Len(s) : s[i] = t[i]
  PROVE  s = t
OBVIOUS

LEMMA IdsAppend ==
  ASSUME NEW s \in Seq(Message), NEW m \in Message
  PROVE  IdsOf(Append(s, m)) = Append(IdsOf(s), m.id)
<1>1. Append(s, m) \in Seq(Message) /\ Len(Append(s, m)) = Len(s) + 1
      /\ \A i \in 1..Len(s) : Append(s, m)[i] = s[i]
      /\ Append(s, m)[Len(s) + 1] = m
  OBVIOUS
<1>2. m.id \in Nat
  BY DEF Message
<1>. DEFINE v == Append(s, m)
<1>. HIDE DEF v
<1>3. /\ IdsOf(s) \in Seq(Nat) /\ Len(IdsOf(s)) = Len(s)
      /\ \A i \in 1..Len(s) : IdsOf(s)[i] = s[i].id
  BY IdsOfSeq
<1>4. /\ IdsOf(v) \in Seq(Nat) /\ Len(IdsOf(v)) = Len(v)
      /\ \A i \in 1..Len(v) : IdsOf(v)[i] = v[i].id
  BY <1>1, IdsOfSeq DEF v
<1>5. /\ Len(v) = Len(s) + 1 /\ v[Len(s) + 1] = m
      /\ \A i \in 1..Len(s) : v[i] = s[i]
  BY <1>1 DEF v
<1>6. Append(IdsOf(s), m.id) \in Seq(Nat) /\ Len(Append(IdsOf(s), m.id)) = Len(s) + 1
      /\ \A i \in 1..Len(s) : Append(IdsOf(s), m.id)[i] = s[i].id
      /\ Append(IdsOf(s), m.id)[Len(s) + 1] = m.id
  BY <1>2, <1>3
<1>7. \A i \in 1..Len(s) + 1 : IdsOf(v)[i] = Append(IdsOf(s), m.id)[i]
  <2>1. Len(s) \in Nat
    OBVIOUS
  <2>2. ASSUME NEW i \in 1..Len(s) PROVE IdsOf(v)[i] = Append(IdsOf(s), m.id)[i]
    <3>1. i \in 1..Len(v) /\ v[i] = s[i]
      BY <1>5, <2>1
    <3>. QED  BY <1>4, <1>6, <3>1
  <2>3. IdsOf(v)[Len(s) + 1] = Append(IdsOf(s), m.id)[Len(s) + 1]
    <3>1. Len(s) + 1 \in 1..Len(v)
      BY <1>5, <2>1
    <3>. QED  BY <1>4, <1>5, <1>6, <3>1
  <2>4. \A i \in 1..Len(s) + 1 : i \in 1..Len(s) \/ i = Len(s) + 1
    BY <2>1
  <2>. QED  BY <2>2, <2>3, <2>4
<1>8. IdsOf(v) = Append(IdsOf(s), m.id)
  BY <1>4, <1>5, <1>6, <1>7, SeqEqual
<1>. QED  BY <1>8 DEF v

\* What is left of a queue when its first part is done.
LEMMA IdsAfter ==
  ASSUME NEW s \in Seq(Message), NEW t \in Seq(Message)
  PROVE  SubSeq(IdsOf(s \o t), Len(s) + 1, Len(IdsOf(s \o t))) = IdsOf(t)
<1>. DEFINE u == s \o t
            n == Len(s)
            rest == SubSeq(IdsOf(u), n + 1, Len(IdsOf(u)))
<1>1. u \in Seq(Message) /\ Len(u) = n + Len(t) /\ n \in Nat /\ Len(t) \in Nat
  OBVIOUS
<1>2. \A i \in 1..Len(t) : u[n + i] = t[i]
  OBVIOUS
<1>3. /\ IdsOf(u) \in Seq(Nat) /\ Len(IdsOf(u)) = Len(u)
      /\ \A i \in 1..Len(u) : IdsOf(u)[i] = u[i].id
  BY <1>1, IdsOfSeq
<1>4. /\ IdsOf(t) \in Seq(Nat) /\ Len(IdsOf(t)) = Len(t)
      /\ \A i \in 1..Len(t) : IdsOf(t)[i] = t[i].id
  BY IdsOfSeq
<1>. HIDE DEF u, n
<1>5. rest \in Seq(Nat) /\ Len(rest) = Len(t)
      /\ \A i \in 1..Len(t) : rest[i] = IdsOf(u)[n + i]
  BY <1>1, <1>3
<1>6. \A i \in 1..Len(t) : rest[i] = IdsOf(t)[i]
  <2>1. \A i \in 1..Len(t) : n + i \in 1..Len(u)
    BY <1>1
  <2>. HIDE DEF rest
  <2>. QED  BY <1>2, <1>3, <1>4, <1>5, <2>1
<1>. HIDE DEF rest
<1>7. rest = IdsOf(t)
  BY <1>4, <1>5, <1>6, SeqEqual
<1>. QED  BY <1>7 DEF rest, u, n

-----------------------------------------------------------------------------
(* The refinement mapping.                                                 *)

Working(N) == HasOwner(N, {"queued", "running"})
Fallen(N)  == HasOwner(N, Casualties)

\* The queue of a name, as messages.
Whole(N) == InHand(N) \o Pending(bus, N)

Queue == [N \in DOMAIN bus |-> IdsOf(InHand(N) \o bus[N])]
Taken == [N \in Name |-> IF N \in DOMAIN bus THEN Len(InHand(N)) ELSE 0]
Owner == [N \in Name |-> IF HasOwner(N, {"queued", "running"}) THEN "working"
                         ELSE IF HasOwner(N, {"failed", "fallen", "told"}) THEN "failed"
                         ELSE "idle"]

\* In hand are the messages of agents that have not returned ...
HandInv == \A a \in Agent : inbox[a] # << >> => job[a] \in {"queued", "running"} \cup Casualties

\* ... and of the messages sent, those that user code did not send are notices of
\* a failure, one for an agent.
Notices == {a \in Agent : told[a] = 1}
SentInv == posted <= MaxPosts + Cardinality(Notices)

LEMMA InHandOf ==
  ASSUME InvMail, NEW a \in Agent, job[a] # "none"
  PROVE  InHand(NameOf[a]) = inbox[a]
<1>. DEFINE owners == {b \in Agent : NameOf[b] = NameOf[a] /\ inbox[b] # << >>}
<1>1. owners \subseteq {a}
  BY DEF InvMail, InHandOfJobs, JobsUnique
<1>2. CASE inbox[a] = << >>
  BY <1>1, <1>2 DEF InHand
<1>3. CASE inbox[a] # << >>
  <2>1. owners = {a}
    BY <1>1, <1>3
  <2>2. (CHOOSE b \in owners : TRUE) = a
    BY <2>1
  <2>. QED  BY <2>1, <2>2 DEF InHand
<1>. QED  BY <1>2, <1>3

LEMMA InHandType ==
  ASSUME TypeOK, NEW N
  PROVE  InHand(N) \in Seq(Message)
<1>. DEFINE owners == {a \in Agent : NameOf[a] = N /\ inbox[a] # << >>}
<1>1. CASE owners = {}
  BY <1>1 DEF InHand
<1>2. CASE owners # {}
  <2>1. (CHOOSE a \in owners : TRUE) \in Agent
    BY <1>2
  <2>. QED  BY <1>2, <2>1 DEF InHand, TypeOK
<1>. QED  BY <1>1, <1>2

LEMMA NoneInHand ==
  ASSUME NEW N, \A a \in Agent : NameOf[a] = N => inbox[a] = << >>
  PROVE  InHand(N) = << >>
BY DEF InHand

-----------------------------------------------------------------------------
(* The kinds of steps.                                                     *)

\* Each name keeps its owner's state.
SameWork ==
  \A a \in Agent : /\ job'[a] \in {"queued", "running"} <=> job[a] \in {"queued", "running"}
                   /\ job'[a] \in Casualties <=> job[a] \in Casualties

LEMMA OwnersStay ==
  ASSUME SameWork
  PROVE  Owner' = Owner
<1>1. \A N : /\ HasOwner(N, {"queued", "running"})' <=> HasOwner(N, {"queued", "running"})
             /\ HasOwner(N, {"failed", "fallen", "told"})'
                <=> HasOwner(N, {"failed", "fallen", "told"})
  BY DEF SameWork, HasOwner, Casualties
<1>. QED  BY <1>1 DEF Owner

LEMMA HandsStay ==
  ASSUME inbox' = inbox
  PROVE  /\ \A N : InHand(N)' = InHand(N)
         /\ DOMAIN bus' = DOMAIN bus => Taken' = Taken
<1>1. \A N : InHand(N)' = InHand(N)
  BY DEF InHand
<1>. QED  BY <1>1 DEF Taken

\* Nothing that has to do with mail.
LEMMA Quiet ==
  ASSUME SameWork, UNCHANGED << bus, inbox >>
  PROVE  UNCHANGED << Queue, Taken, Owner >>
BY OwnersStay, HandsStay DEF Queue

LEMMA Accepts ==
  ASSUME TypeOK, SameWork, inbox' = inbox, NEW m \in Message, m.id \in SentIds,
         NEW S, S \subseteq DOMAIN bus,
         bus' = [N \in DOMAIN bus |-> IF N \in S THEN Append(bus[N], m) ELSE bus[N]]
  PROVE  \E T \in SUBSET Name, i \in SentIds : Mail!Accept(T, i)
<1>1. DOMAIN bus' = DOMAIN bus /\ DOMAIN Queue = DOMAIN bus
  BY DEF Queue
<1>2. ASSUME NEW N \in DOMAIN bus
      PROVE  Queue'[N] = IF N \in S THEN Append(Queue[N], m.id) ELSE Queue[N]
  <2>1. InHand(N) \in Seq(Message) /\ bus[N] \in Seq(Message) /\ InHand(N)' = InHand(N)
    BY InHandType, HandsStay DEF TypeOK
  <2>2. CASE N \in S
    <3>1. Queue'[N] = IdsOf(InHand(N) \o Append(bus[N], m))
      BY <1>1, <2>1, <2>2 DEF Queue
    <3>2. InHand(N) \o Append(bus[N], m) = Append(InHand(N) \o bus[N], m)
      BY <2>1
    <3>3. InHand(N) \o bus[N] \in Seq(Message)
      BY <2>1
    <3>. QED  BY <2>2, <3>1, <3>2, <3>3, IdsAppend DEF Queue
  <2>3. CASE N \notin S
    BY <1>1, <2>1, <2>3 DEF Queue
  <2>. QED  BY <2>2, <2>3
<1>3. Queue' = [N \in DOMAIN Queue |-> IF N \in S THEN Append(Queue[N], m.id) ELSE Queue[N]]
  BY <1>1, <1>2 DEF Queue
<1>4. UNCHANGED << Taken, Owner >>
  BY <1>1, OwnersStay, HandsStay
<1>5. S \in SUBSET Name
  BY DEF TypeOK
<1>6. Mail!Accept(S, m.id)
  BY <1>1, <1>3, <1>4 DEF Mail!Accept, Queue, Taken, Owner
<1>. QED  BY <1>5, <1>6

\* What is posted, and by whom it may be.
LEMMA PostIds ==
  ASSUME TypeOK, posted < MaxPosts
  PROVE  posted + 1 \in SentIds
<1>1. Cardinality(Agent) \in Nat
  BY NamesAssumption, FS_CardinalityType
<1>. QED  BY <1>1, BoundsAssumption DEF TypeOK, SentIds

LEMMA DeliverIs ==
  ASSUME NEW N \in DOMAIN bus, NEW m
  PROVE  Deliver(bus, N, m) = [M \in DOMAIN bus |-> IF M \in {N} THEN Append(bus[M], m) ELSE bus[M]]
BY DEF Deliver

\* A mailbox that is not there has no mail in hand: opening it adds an empty queue.
LEMMA Opens ==
  ASSUME InvMail, BoxInv, RegInv, SameWork, inbox' = inbox, NEW a \in Agent, NEW p, Register(a, p)
  PROVE  UNCHANGED << Queue, Taken, Owner >> \/ \E N \in Name : Mail!Open(N)
<1>. DEFINE N0 == NameOf[a]
<1>1. /\ N0 \in Name /\ bus' = RegisterBox(bus, N0) /\ N0 \notin Names(registered)
      /\ DOMAIN bus' = DOMAIN bus \cup {N0}
  BY NamesAssumption, BoxDomains DEF Register
<1>2. CASE N0 \in DOMAIN bus
  <2>1. \A N \in DOMAIN bus : bus'[N] = bus[N]
    BY <1>1 DEF RegisterBox
  <2>2. Queue' = Queue
    BY <1>1, <1>2, <2>1, HandsStay DEF Queue
  <2>. QED  BY <1>1, <1>2, <2>2, HandsStay, OwnersStay
<1>3. CASE N0 \notin DOMAIN bus
  <2>1. InHand(N0) = << >> /\ InHand(N0)' = << >>
    <3>1. \A b \in Agent : NameOf[b] = N0 => inbox[b] = << >>
      BY <1>1 DEF InvMail, InHandOfJobs, BoxInv, Names
    <3>. QED  BY <3>1, NoneInHand, HandsStay
  <2>2. /\ DOMAIN Queue' = DOMAIN Queue \cup {N0} /\ N0 \notin DOMAIN Queue
        /\ \A N \in DOMAIN Queue : Queue'[N] = Queue[N]
    BY <1>1, <1>3, HandsStay DEF Queue, RegisterBox
  <2>3. Queue'[N0] = << >>
    <3>1. IdsOf(<< >>) = << >>
      BY DEF IdsOf
    <3>2. Queue'[N0] = IdsOf(<< >> \o << >>)
      BY <1>1, <1>3, <2>1 DEF Queue, RegisterBox
    <3>. QED  BY <3>1, <3>2
  <2>4. Queue' = [M \in DOMAIN Queue \cup {N0} |-> IF M = N0 THEN << >> ELSE Queue[M]]
    BY <2>2, <2>3 DEF Queue
  <2>5. Taken' = Taken
    BY <1>1, <1>3, <2>1, HandsStay DEF Taken
  <2>6. Mail!Open(N0)
    BY <2>2, <2>4, <2>5, OwnersStay DEF Mail!Open, Queue, Taken, Owner
  <2>. QED  BY <1>1, <2>6
<1>. QED  BY <1>2, <1>3

-----------------------------------------------------------------------------
(* The steps that change who works, or close a queue.                      *)

\* A name with an agent in the tick has that agent's state.
LEMMA OwnerOf ==
  ASSUME InvMail, NEW a \in Agent, job[a] # "none"
  PROVE  /\ Working(NameOf[a]) <=> job[a] \in {"queued", "running"}
         /\ Fallen(NameOf[a]) <=> job[a] \in Casualties
BY DEF InvMail, JobsUnique, Working, Fallen, HasOwner, Casualties

\* One agent's work is settled: nobody else's state or mail in hand changes.
LEMMA OnlyOne ==
  ASSUME InvMail, InvMail', NEW a \in Agent, job[a] # "none", job'[a] # "none",
         job' = [job EXCEPT ![a] = job'[a]]
  PROVE  /\ \A N \in Name \ {NameOf[a]} : /\ Working(N)' <=> Working(N)
                                          /\ Fallen(N)' <=> Fallen(N)
         /\ Owner' = [Owner EXCEPT ![NameOf[a]] =
                        IF job'[a] \in {"queued", "running"} THEN "working"
                        ELSE IF job'[a] \in Casualties THEN "failed" ELSE "idle"]
<1>. DEFINE N0 == NameOf[a]
<1>1. job \in [Agent -> JobStates] /\ N0 \in Name
  BY NamesAssumption DEF InvMail, TypeOK
<1>2. \A N \in Name \ {N0} : (Working(N)' <=> Working(N)) /\ (Fallen(N)' <=> Fallen(N))
  BY <1>1 DEF Working, Fallen, HasOwner
<1>3. /\ Working(N0)' <=> job'[a] \in {"queued", "running"}
      /\ Fallen(N0)' <=> job'[a] \in Casualties
  BY DEF InvMail, JobsUnique, Working, Fallen, HasOwner, Casualties
<1>. QED  BY <1>1, <1>2, <1>3 DEF Owner, Working, Fallen, Casualties

LEMMA OnlyHand ==
  ASSUME TypeOK, NEW a \in Agent, inbox' = [inbox EXCEPT ![a] = << >>]
  PROVE  \A N \in Name \ {NameOf[a]} : InHand(N)' = InHand(N)
<1>. SUFFICES ASSUME NEW N \in Name \ {NameOf[a]} PROVE InHand(N)' = InHand(N)
  OBVIOUS
<1>1. \A b \in Agent : NameOf[b] = N => inbox'[b] = inbox[b]
  BY DEF TypeOK
<1>2. {b \in Agent : NameOf[b] = N /\ inbox'[b] # << >>}
        = {b \in Agent : NameOf[b] = N /\ inbox[b] # << >>}
  BY <1>1
<1>. DEFINE owners == {b \in Agent : NameOf[b] = N /\ inbox[b] # << >>}
<1>3. CASE owners = {}
  BY <1>2, <1>3 DEF InHand
<1>4. CASE owners # {}
  <2>1. (CHOOSE b \in owners : TRUE) \in owners
    BY <1>4
  <2>. QED  BY <1>1, <1>2, <1>4, <2>1 DEF InHand
<1>. QED  BY <1>3, <1>4

LEMMA TakenSettles ==
  ASSUME NEW N0 \in Name, InHand(N0)' = << >>, DOMAIN bus' = DOMAIN bus,
         \A N \in Name \ {N0} : InHand(N)' = InHand(N)
  PROVE  Taken' = [Taken EXCEPT ![N0] = 0]
<1>1. \A N \in Name : Taken'[N] = IF N \in DOMAIN bus' THEN Len(InHand(N)') ELSE 0
  BY DEF Taken
<1>2. \A N \in Name : Taken'[N] = IF N = N0 THEN 0 ELSE Taken[N]
  BY <1>1 DEF Taken
<1>. QED  BY <1>2 DEF Taken

LEMMA ReturnCompletes ==
  ASSUME InvMail, InvMail', BoxInv, NEW a \in Agent, Return(a)
  PROVE  Mail!Complete(NameOf[a])
<1>. DEFINE N0 == NameOf[a]
<1>1. /\ job[a] = "running" /\ job' = [job EXCEPT ![a] = "ok"] /\ bus' = bus
      /\ inbox' = [inbox EXCEPT ![a] = << >>]
      /\ job \in [Agent -> JobStates] /\ inbox \in [Agent -> Seq(Message)]
  BY DEF Return, InStep, mailVars, InvMail, TypeOK
<1>2. N0 \in Name /\ N0 \in DOMAIN bus /\ bus[N0] \in Seq(Message) /\ TypeOK
  BY <1>1, NamesAssumption DEF BoxInv, LiveHaveMailbox, CanDeliver, InvMail, TypeOK
<1>3. InHand(N0) = inbox[a] /\ InHand(N0)' = << >> /\ inbox[a] \in Seq(Message)
  <2>1. InHand(N0) = inbox[a]
    BY <1>1, InHandOf
  <2>2. \A b \in Agent : NameOf[b] = N0 => inbox'[b] = << >>
    BY <1>1 DEF InvMail, InHandOfJobs, JobsUnique
  <2>3. InHand(N0)' = << >>
    BY <2>2 DEF InHand
  <2>. QED  BY <1>1, <2>1, <2>3
<1>4. Owner[N0] = "working" /\ Owner' = [Owner EXCEPT ![N0] = "idle"]
  <2>1. Owner[N0] = "working"
    BY <1>1, <1>2, OwnerOf DEF Owner, Working
  <2>2. Owner' = [Owner EXCEPT ![N0] = "idle"]
    BY <1>1, OnlyOne DEF Casualties
  <2>. QED  BY <2>1, <2>2
<1>5. \A N \in Name \ {N0} : InHand(N)' = InHand(N)
  BY <1>1, <1>2, OnlyHand
<1>6. Taken' = [Taken EXCEPT ![N0] = 0] /\ Taken[N0] = Len(inbox[a])
  BY <1>1, <1>2, <1>3, <1>5, TakenSettles DEF Taken
<1>7. Queue' = [Queue EXCEPT ![N0] = SubSeq(@, Taken[N0] + 1, Len(@))]
  <2>1. SubSeq(Queue[N0], Taken[N0] + 1, Len(Queue[N0])) = IdsOf(bus[N0])
    BY <1>2, <1>3, <1>6, IdsAfter DEF Queue
  <2>2. Queue'[N0] = IdsOf(bus[N0])
    <3>1. Queue'[N0] = IdsOf(InHand(N0)' \o bus'[N0])
      BY <1>1, <1>2 DEF Queue
    <3>2. << >> \o bus[N0] = bus[N0]
      BY <1>2
    <3>. QED  BY <1>1, <1>3, <3>1, <3>2
  <2>3. \A N \in DOMAIN bus \ {N0} : Queue'[N] = Queue[N]
    BY <1>1, <1>2, <1>5 DEF Queue, TypeOK
  <2>. QED  BY <1>1, <2>1, <2>2, <2>3 DEF Queue
<1>. QED
  BY <1>2, <1>4, <1>6, <1>7 DEF Mail!Complete, Mail!Settle, Queue, Taken, Owner

LEMMA RaiseFails ==
  ASSUME InvMail, InvMail', NEW a \in Agent, Raise(a)
  PROVE  Mail!Fail(NameOf[a])
<1>1. job[a] = "running" /\ job' = [job EXCEPT ![a] = "failed"] /\ UNCHANGED << bus, inbox >>
      /\ job \in [Agent -> JobStates] /\ NameOf[a] \in Name
  BY NamesAssumption DEF Raise, InStep, mailVars, InvMail, TypeOK
<1>2. Owner[NameOf[a]] = "working"
  BY <1>1, OwnerOf DEF Owner, Working
<1>3. Owner' = [Owner EXCEPT ![NameOf[a]] = "failed"]
  BY <1>1, OnlyOne DEF Casualties
<1>4. UNCHANGED << Queue, Taken >>
  BY <1>1, HandsStay DEF Queue
<1>. QED  BY <1>2, <1>3, <1>4 DEF Mail!Fail, Queue, Taken, Owner

\* The mail of a restarted agent is put back where it was in the queue.
LEMMA RestartRetries ==
  ASSUME InvMail, InvMail', BoxInv, NEW a \in Agent, SuperviseRestarts(a)
  PROVE  Mail!Retry(NameOf[a])
<1>. DEFINE N0 == NameOf[a]
<1>1. /\ job[a] = "failed" /\ job' = [job EXCEPT ![a] = "restarted"]
      /\ bus' = Requeue(bus, N0, inbox[a])
      /\ inbox' = [inbox EXCEPT ![a] = << >>]
      /\ job \in [Agent -> JobStates] /\ inbox \in [Agent -> Seq(Message)]
  BY DEF SuperviseRestarts, NextCasualty, IsFirst, JobsIn, InvMail, TypeOK
<1>2. N0 \in Name /\ N0 \in DOMAIN bus /\ bus[N0] \in Seq(Message) /\ TypeOK
  BY <1>1, NamesAssumption DEF BoxInv, LiveHaveMailbox, CanDeliver, InvMail, TypeOK
<1>3. InHand(N0) = inbox[a] /\ InHand(N0)' = << >> /\ inbox[a] \in Seq(Message)
  <2>1. InHand(N0) = inbox[a]
    BY <1>1, InHandOf
  <2>2. \A b \in Agent : NameOf[b] = N0 => inbox'[b] = << >>
    BY <1>1 DEF InvMail, InHandOfJobs, JobsUnique
  <2>3. InHand(N0)' = << >>
    BY <2>2 DEF InHand
  <2>. QED  BY <1>1, <2>1, <2>3
<1>4. Owner[N0] = "failed" /\ Owner' = [Owner EXCEPT ![N0] = "idle"]
  <2>1. Owner[N0] = "failed"
    BY <1>1, <1>2, OwnerOf DEF Owner, Working, Fallen, Casualties
  <2>2. Owner' = [Owner EXCEPT ![N0] = "idle"]
    BY <1>1, OnlyOne DEF Casualties
  <2>. QED  BY <2>1, <2>2
<1>5. \A N \in Name \ {N0} : InHand(N)' = InHand(N)
  BY <1>1, <1>2, OnlyHand
<1>6. /\ DOMAIN bus' = DOMAIN bus /\ bus'[N0] = inbox[a] \o bus[N0]
      /\ \A N \in DOMAIN bus \ {N0} : bus'[N] = bus[N]
  BY <1>1, <1>2 DEF Requeue
<1>7. Taken' = [Taken EXCEPT ![N0] = 0]
  BY <1>2, <1>3, <1>5, <1>6, TakenSettles
<1>8. Queue' = Queue
  <2>1. << >> \o (inbox[a] \o bus[N0]) = inbox[a] \o bus[N0]
    BY <1>2, <1>3
  <2>2. Queue'[N0] = Queue[N0]
    BY <1>2, <1>3, <1>6, <2>1 DEF Queue
  <2>3. \A N \in DOMAIN bus \ {N0} : Queue'[N] = Queue[N]
    BY <1>2, <1>5, <1>6 DEF Queue, TypeOK
  <2>. QED  BY <1>6, <2>2, <2>3 DEF Queue
<1>. QED  BY <1>4, <1>7, <1>8 DEF Mail!Retry, Mail!Settle, Queue, Taken, Owner

\* Mailboxes go with what is in hand of them, under nobody at work.
LEMMA Closes ==
  ASSUME TypeOK, NEW S \in SUBSET Name, bus' = UnregisterBoxes(bus, S),
         \A a \in Agent : /\ job[a] \notin {"queued", "running"}
                          /\ (NameOf[a] \in S \/ (inbox[a] = << >> /\ job[a] \notin Casualties))
                          /\ job'[a] = "none" /\ inbox'[a] = << >>
  PROVE  Mail!Close(S)
<1>1. DOMAIN bus' = DOMAIN bus \ S /\ \A N \in DOMAIN bus \ S : bus'[N] = bus[N]
  BY DEF UnregisterBoxes
<1>2. \A N : InHand(N)' = << >>
  BY DEF InHand
<1>3. \A N \in Name \ S : InHand(N) = << >>
  BY NoneInHand
<1>4. \A N \in Name : Owner[N] # "working" /\ (N \notin S => Owner[N] = "idle")
  BY DEF Owner, HasOwner, Casualties
<1>5. Owner' = [N \in Name |-> "idle"]
  BY DEF Owner, HasOwner
<1>6. Owner' = [N \in Name |-> IF N \in S THEN "idle" ELSE Owner[N]]
  BY <1>4, <1>5
<1>7. Taken' = [N \in Name |-> IF N \in S THEN 0 ELSE Taken[N]]
  <2>1. \A N \in Name : Taken'[N] = 0
    BY <1>2 DEF Taken
  <2>2. \A N \in Name \ S : Taken[N] = 0
    BY <1>3 DEF Taken
  <2>. QED  BY <2>1, <2>2 DEF Taken
<1>8. Queue' = [N \in DOMAIN Queue \ S |-> Queue[N]]
  <2>1. DOMAIN Queue = DOMAIN bus /\ DOMAIN Queue' = DOMAIN bus \ S /\ DOMAIN bus \subseteq Name
    BY <1>1 DEF Queue, TypeOK
  <2>2. \A N \in DOMAIN bus \ S : Queue'[N] = Queue[N]
    BY <1>1, <1>2, <1>3, <2>1 DEF Queue
  <2>. QED  BY <2>1, <2>2 DEF Queue
<1>. QED  BY <1>4, <1>6, <1>7, <1>8 DEF Mail!Close, Queue, Taken, Owner

LEMMA UnregisterCloses ==
  ASSUME InvMail, BoxInv, NEW N \in Name, OperatorUnregisters(N)
  PROVE  Mail!Close({N})
<1>1. ~inTick /\ bus' = UnregisterBoxes(bus, {N}) /\ UNCHANGED << job, inbox >>
  BY DEF OperatorUnregisters, jobVars
<1>2. \A a \in Agent : job[a] = "none" /\ inbox[a] = << >>
  BY <1>1 DEF BoxInv, InvMail, InHandOfJobs
<1>. QED  BY <1>1, <1>2, Closes DEF InvMail, Casualties

\* Reclaiming takes the mailbox of each agent that failed for good, so nothing is
\* left in hand of a queue that stays.
LEMMA ReclaimCloses ==
  ASSUME InvMail, BudgetInv, HandInv, Reclaim
  PROVE  \E S \in SUBSET Name : Mail!Close(S)
<1>0. PICK S \in SUBSET Name : S = Names(ToReclaim)
  BY NamesAssumption DEF Names, ToReclaim, JobsIn
<1>1. /\ bus' = UnregisterBoxes(bus, S) /\ job \in [Agent -> JobStates]
      /\ \A a \in Agent : /\ job[a] \notin {"queued", "running", "failed", "fallen"}
                          /\ job'[a] = "none" /\ inbox'[a] = << >>
  BY <1>0 DEF Reclaim, AtBarrier, JobsIn, InvMail, TypeOK
<1>3. \A a \in Agent : job[a] = "told" => NameOf[a] \in S
  BY <1>0 DEF BudgetInv, Casualties, Names, ToReclaim, JobsIn, Alive, Finished
<1>4. \A a \in Agent : inbox[a] # << >> => job[a] = "told"
  BY <1>1 DEF HandInv, Casualties
<1>5. \A a \in Agent : /\ job[a] \notin {"queued", "running"}
                      /\ (NameOf[a] \in S \/ (inbox[a] = << >> /\ job[a] \notin Casualties))
                      /\ job'[a] = "none" /\ inbox'[a] = << >>
  BY <1>1, <1>3, <1>4 DEF Casualties
<1>6. TypeOK
  BY DEF InvMail
<1>. QED  BY <1>1, <1>5, <1>6, Closes

\* The drain gives each agent of the tick its whole queue.
LEMMA DrainHandsOut ==
  ASSUME InvMail, InvMail', BoxInv, BeginTick
  PROVE  \E S \in SUBSET Name : Mail!HandOut(S)
<1>0. PICK S \in SUBSET Name : S = Names(Scheduled)
  <2>1. Names(Scheduled) \in SUBSET Name
    BY NamesAssumption DEF Names, Scheduled, Live, InvMail, TypeOK
  <2>. QED  BY <2>1
<1>1. /\ ~inTick /\ bus' = Drain(bus, Names(Live)) /\ registered \subseteq Agent
      /\ inbox' = [a \in Agent |-> IF a \in Scheduled THEN Pending(bus, NameOf[a]) ELSE << >>]
      /\ job' = [a \in Agent |-> IF a \in Scheduled THEN "queued"
                                 ELSE IF a \in Live THEN "skipped" ELSE "none"]
  BY DEF BeginTick, StepCalled, InvMail, TypeOK
<1>2. \A a \in Agent : job[a] = "none" /\ inbox[a] = << >>
  BY <1>1 DEF BoxInv, InvMail, InHandOfJobs
<1>3. Scheduled \subseteq Live /\ Live \subseteq registered /\ Scheduled \subseteq Agent
  BY <1>1 DEF Scheduled, Live
<1>4. S \subseteq DOMAIN bus /\ S \subseteq Name
  BY <1>0, <1>3, NamesAssumption DEF Names, BoxInv, LiveHaveMailbox, CanDeliver, Live
<1>5. \A N : InHand(N) = << >>
  BY <1>2, NoneInHand
<1>6. ASSUME NEW N \in Name, N \in S
      PROVE  /\ InHand(N)' = bus[N] /\ Pending(bus, N)' = << >> /\ Working(N)'
  <2>1. PICK a \in Scheduled : NameOf[a] = N
    BY <1>0, <1>6 DEF Names
  <2>2. job'[a] = "queued" /\ inbox'[a] = Pending(bus, N) /\ a \in Live /\ a \in Agent
    BY <1>1, <1>3, <2>1
  <2>3. InHand(N)' = inbox'[a]
    <3>1. {b \in Agent : NameOf[b] = N /\ inbox'[b] # << >>} \subseteq {a}
      BY <2>1, <2>2 DEF InvMail, InHandOfJobs, JobsUnique
    <3>2. CASE inbox'[a] = << >>
      BY <3>1, <3>2 DEF InHand
    <3>3. CASE inbox'[a] # << >>
      <4>1. {b \in Agent : NameOf[b] = N /\ inbox'[b] # << >>} = {a}
        BY <2>1, <2>2, <3>1, <3>3
      <4>2. (CHOOSE b \in {a} : TRUE) = a
        OBVIOUS
      <4>. QED  BY <4>1, <4>2 DEF InHand
    <3>. QED  BY <3>2, <3>3
  <2>4. N \in Names(Live)
    BY <2>1, <2>2 DEF Names
  <2>5. Pending(bus, N)' = << >>
    BY <1>1, <2>4 DEF Pending, Drain
  <2>6. Working(N)'
    BY <2>1, <2>2 DEF Working, HasOwner
  <2>. QED  BY <1>4, <1>6, <2>2, <2>3, <2>5, <2>6 DEF Pending
<1>7. ASSUME NEW N \in Name, N \notin S
      PROVE  /\ InHand(N)' = << >> /\ Pending(bus, N)' = Pending(bus, N)
             /\ ~Working(N)' /\ ~Fallen(N)'
  <2>1. \A a \in Agent : NameOf[a] = N => a \notin Scheduled
    BY <1>0, <1>7 DEF Names
  <2>2. \A a \in Agent : NameOf[a] = N => inbox'[a] = << >> /\ job'[a] \in {"skipped", "none"}
    BY <1>1, <2>1
  <2>3. InHand(N)' = << >> /\ ~Working(N)' /\ ~Fallen(N)'
    BY <2>2 DEF InHand, Working, Fallen, HasOwner, Casualties
  <2>4. N \in Names(Live) => Pending(bus, N) = << >>
    BY <1>1, <1>3, <2>1 DEF Names, Scheduled, Live
  <2>5. Pending(bus, N)' = Pending(bus, N)
    BY <1>1, <2>4 DEF Pending, Drain
  <2>. QED  BY <2>3, <2>5
<1>8. DOMAIN bus' = DOMAIN bus /\ DOMAIN bus \subseteq Name /\ bus \in [DOMAIN bus -> Seq(Message)]
  BY <1>1 DEF Drain, InvMail, TypeOK
<1>9. \A N \in Name : Owner[N] = "idle"
  BY <1>2 DEF Owner, HasOwner
<1>10. Owner' = [N \in Name |-> IF N \in S THEN "working" ELSE "idle"]
  BY <1>6, <1>7 DEF Owner, Working, Fallen, Casualties
<1>11. Queue' = Queue /\ \A N \in DOMAIN bus : Len(Queue[N]) = Len(bus[N])
  <2>1. ASSUME NEW N \in DOMAIN bus
        PROVE  Queue'[N] = IdsOf(bus[N]) /\ Queue[N] = IdsOf(bus[N])
    <3>1. bus[N] \in Seq(Message) /\ bus'[N] = Pending(bus, N)' /\ bus[N] = Pending(bus, N)
      BY <1>8 DEF Pending
    <3>2. << >> \o bus[N] = bus[N] /\ bus[N] \o << >> = bus[N]
      BY <3>1
    <3>3. Queue'[N] = IdsOf(InHand(N)' \o bus'[N]) /\ Queue[N] = IdsOf(InHand(N) \o bus[N])
      BY <1>8 DEF Queue
    <3>4. N \in Name
      BY <1>8
    <3>. QED  BY <1>5, <1>6, <1>7, <3>1, <3>2, <3>3, <3>4
  <2>2. \A N \in DOMAIN bus : Len(IdsOf(bus[N])) = Len(bus[N])
    BY <1>8, IdsOfSeq
  <2>. QED  BY <1>8, <2>1, <2>2 DEF Queue
<1>12. Taken' = [N \in Name |-> IF N \in S THEN Len(Queue[N]) ELSE 0]
  <2>1. \A N \in Name : Taken'[N] = IF N \in DOMAIN bus' THEN Len(InHand(N)') ELSE 0
    BY DEF Taken
  <2>2. \A N \in Name : Taken'[N] = IF N \in S THEN Len(Queue[N]) ELSE 0
    BY <1>4, <1>6, <1>7, <1>8, <1>11, <2>1
  <2>. QED  BY <2>2 DEF Taken
<1>13. S \subseteq DOMAIN Queue
  BY <1>4 DEF Queue
<1>. QED
  BY <1>9, <1>10, <1>11, <1>12, <1>13 DEF Mail!HandOut, Queue, Taken, Owner

-----------------------------------------------------------------------------
(* What else holds of the mail in hand and of the messages sent.           *)

LEMMA HandInit == Init => HandInv
BY DEF Init, HandInv

LEMMA HandStep ==
  ASSUME HooksReturn, TypeOK, BoxInv, HandInv, [Next]_vars
  PROVE  HandInv'
<1>. USE DEF Casualties
<1>0. job \in [Agent -> JobStates] /\ inbox \in [Agent -> Seq(Message)]
  BY DEF TypeOK
<1>1. CASE UNCHANGED << job, inbox >>
  BY <1>1 DEF HandInv
<1>2. CASE BeginTick \/ RefuseTick \/ Reclaim
  BY <1>2 DEF BeginTick, RefuseTick, StepRaises, Reclaim, HandInv
<1>3. ASSUME NEW a \in Agent, \/ StartAgent(a) \/ Return(a) \/ Raise(a) \/ SuperviseRestarts(a)
                              \/ SuperviseGivesUp(a) \/ Escalate(a)
      PROVE  HandInv'
  <2>1. /\ job' = [job EXCEPT ![a] = job'[a]]
        /\ \/ job'[a] \in {"running"} \cup Casualties /\ inbox' = inbox
           \/ inbox' = [inbox EXCEPT ![a] = << >>]
    BY <1>0, <1>3
    DEF StartAgent, Return, Raise, SuperviseRestarts, SuperviseGivesUp, Escalate
  <2>. QED  BY <1>0, <2>1 DEF HandInv
<1>4. ASSUME NEW a \in Agent, Abort(a) \/ OnRestartRaises(a) \/ EscalateRaises(a) PROVE HandInv'
  BY <1>4 DEF Abort, OnRestartRaises, EscalateRaises, StepRaises, HandInv
<1>. QED
  BY <1>1, <1>2, <1>3, <1>4
  DEF Next, OperatorStep, OperatorPosts, OperatorRegisters, OperatorUnregisters, OperatorRuns,
      RunStep, ReadLive, AskPending, RunReturns, UserCode, Send, UnregisterAgent, Spawn,
      Broadcast, Wait, Exit, WorkerStep, UnregisterMailbox, BarrierStep, vars, jobVars

LEMMA NoticesFinite ==
  /\ IsFiniteSet(Notices) /\ Cardinality(Notices) \in Nat
  /\ Cardinality(Notices) <= Cardinality(Agent) /\ Cardinality(Agent) \in Nat
<1>1. Notices \subseteq Agent
  BY DEF Notices
<1>. QED  BY <1>1, NamesAssumption, FS_Subset, FS_CardinalityType

LEMMA SentInit == Init => SentInv
<1>. SUFFICES ASSUME Init PROVE SentInv
  OBVIOUS
<1>. QED  BY NoticesFinite, BoundsAssumption DEF Init, SentInv

\* An escalation is the only notice of its agent.
LEMMA EscalateSent ==
  ASSUME TypeOK, ToldInv, SentInv, NEW a \in Agent, Escalate(a), HasLiveParent(a)
  PROVE  SentInv' /\ posted + 1 \in SentIds
<1>1. /\ posted' = posted + 1 /\ told' = [told EXCEPT ![a] = @ + 1] /\ job[a] = "fallen"
      /\ told \in [Agent -> Nat] /\ posted \in Nat
  BY DEF Escalate, NextFallen, IsFirst, JobsIn, TypeOK
<1>2. told[a] = 0
  BY <1>1 DEF ToldInv, Given
<1>3. Notices' = Notices \cup {a} /\ a \notin Notices
  BY <1>1, <1>2 DEF Notices
<1>4. Cardinality(Notices)' = Cardinality(Notices) + 1
  BY <1>3, NoticesFinite, FS_AddElement
<1>5. Cardinality(Notices)' <= Cardinality(Agent)
  <2>1. Notices' \subseteq Agent
    BY DEF Notices
  <2>. QED  BY <2>1, NamesAssumption, FS_Subset
<1>. QED  BY <1>1, <1>4, <1>5, NoticesFinite, BoundsAssumption DEF SentInv, SentIds

LEMMA SentStep ==
  ASSUME TypeOK, ToldInv, SentInv, [Next]_vars
  PROVE  SentInv'
<1>1. CASE UNCHANGED << posted, told >>
  BY <1>1 DEF SentInv, Notices
<1>2. CASE posted < MaxPosts /\ posted' = posted + 1
  <2>1. Cardinality(Notices)' \in Nat
    <3>1. Notices' \subseteq Agent
      BY DEF Notices
    <3>. QED  BY <3>1, NamesAssumption, FS_Subset, FS_CardinalityType
  <2>. QED  BY <1>2, <2>1, BoundsAssumption DEF SentInv, TypeOK
<1>3. ASSUME NEW a \in Agent, Escalate(a), HasLiveParent(a) PROVE SentInv'
  BY <1>3, EscalateSent
<1>4. ASSUME NEW a \in Agent, Escalate(a), ~HasLiveParent(a) PROVE SentInv'
  BY <1>1, <1>4 DEF Escalate
<1>. QED
  BY <1>1, <1>2, <1>3, <1>4
  DEF Next, OperatorStep, OperatorPosts, OperatorRegisters, OperatorUnregisters, OperatorRuns,
      RunStep, ReadLive, AskPending, RunReturns, BeginTick, RefuseTick, UserCode, Send,
      UnregisterAgent, Spawn, Broadcast, Wait, Exit, WorkerStep, StartAgent, UnregisterMailbox, Return, Raise, Abort, BarrierStep,
      SuperviseRestarts, OnRestartRaises, SuperviseGivesUp, EscalateRaises, Reclaim, vars,
      mailVars, failVars

-----------------------------------------------------------------------------
(* The refinement.                                                         *)

LEMMA InitMaps == Init => Mail!Init
<1>. SUFFICES ASSUME Init PROVE Mail!Init
  OBVIOUS
<1>1. /\ DOMAIN bus \in SUBSET Name /\ \A N \in DOMAIN bus : bus[N] = << >>
      /\ \A a \in Agent : job[a] = "none" /\ inbox[a] = << >>
  BY InitType DEF Init, TypeOK, EmptyBus
<1>2. \A N : InHand(N) = << >>
  BY <1>1, NoneInHand
<1>3. Queue = [N \in DOMAIN bus |-> << >>]
  <2>1. << >> \o << >> = << >> /\ IdsOf(<< >>) = << >>
    BY DEF IdsOf
  <2>2. \A N \in DOMAIN bus : Queue[N] = << >>
    BY <1>1, <1>2, <2>1 DEF Queue
  <2>. QED  BY <2>2 DEF Queue
<1>4. Taken = [N \in Name |-> 0] /\ Owner = [N \in Name |-> "idle"]
  BY <1>1, <1>2 DEF Taken, Owner, HasOwner
<1>. QED  BY <1>1, <1>3, <1>4 DEF Mail!Init, Queue, Taken, Owner

\* A step of the abstract specification, or none.
Maps == \/ UNCHANGED << Queue, Taken, Owner >>
        \/ \E N \in Name : Mail!Open(N) \/ Mail!Complete(N) \/ Mail!Fail(N) \/ Mail!Retry(N)
        \/ \E S \in SUBSET Name :
             Mail!HandOut(S) \/ Mail!Close(S) \/ \E i \in SentIds : Mail!Accept(S, i)

LEMMA StepMaps ==
  ASSUME NoneUnregisters, HooksReturn, StepsRun, InvMail, InvMail', RegInv, BoxInv, BudgetInv,
         ToldInv, HandInv, SentInv, [Next]_vars
  PROVE  Maps
<1>. USE DEF jobVars
<1>0. /\ job \in [Agent -> JobStates] /\ TypeOK /\ NameOf \in [Agent -> Name]
      /\ posted \in Nat /\ DOMAIN bus \subseteq Name
  BY NamesAssumption DEF InvMail, TypeOK
<1>1. CASE UNCHANGED vars
  BY <1>1, Quiet DEF vars, mailVars, SameWork, Maps
<1>2. CASE RunStep \/ \E n \in RunLimits : OperatorRuns(n)
  BY <1>2, Quiet
  DEF RunStep, ReadLive, AskPending, RunReturns, OperatorRuns, mailVars, SameWork, Maps
<1>3. ASSUME NEW N \in Name, NEW sender \in Name \cup {Operator}, CanDeliver(bus, N),
             bus' = Deliver(bus, N, NextMail(sender)), UNCHANGED << job, inbox >>,
             posted < MaxPosts
      PROVE  Maps
  <2>1. NextMail(sender) \in Message /\ NextMail(sender).id \in SentIds
    BY <1>0, <1>3, NextMailType, PostIds DEF NextMail
  <2>2. {N} \subseteq DOMAIN bus /\ SameWork
    BY <1>3 DEF CanDeliver, SameWork
  <2>3. bus' = [M \in DOMAIN bus |-> IF M \in {N} THEN Append(bus[M], NextMail(sender))
                                     ELSE bus[M]]
    BY <1>3, DeliverIs DEF CanDeliver
  <2>. QED  BY <1>0, <1>3, <2>1, <2>2, <2>3, Accepts DEF Maps
<1>4. ASSUME NEW N \in Name, OperatorPosts(N) PROVE Maps
  BY <1>3, <1>4 DEF OperatorPosts
<1>5. ASSUME NEW a \in Agent, NEW N \in Name, Send(a, N) PROVE Maps
  BY <1>0, <1>3, <1>5 DEF Send
<1>6. ASSUME NEW a \in Agent, Broadcast(a) PROVE Maps
  <2>. DEFINE S == DOMAIN bus \ {NameOf[a]}
  <2>1. NextMail(NameOf[a]) \in Message /\ NextMail(NameOf[a]).id \in SentIds
    BY <1>0, <1>6, NextMailType, PostIds DEF NextMail, Broadcast
  <2>2. bus' = [M \in DOMAIN bus |-> IF M \in S THEN Append(bus[M], NextMail(NameOf[a]))
                                     ELSE bus[M]]
    BY <1>6 DEF Broadcast, DeliverAll, NextMail
  <2>3. S \subseteq DOMAIN bus /\ SameWork /\ inbox' = inbox
    BY <1>6 DEF SameWork, Broadcast
  <2>. HIDE DEF S
  <2>. QED  BY <1>0, <2>1, <2>2, <2>3, Accepts DEF Maps
<1>7. ASSUME NEW a \in Agent, NEW p, Register(a, p), UNCHANGED << job, inbox >> PROVE Maps
  BY <1>7, Opens DEF SameWork, Maps
<1>8. ASSUME NEW a \in Agent, NEW p \in Name \cup {None},
             OperatorRegisters(a, p) \/ \E b \in Agent : Spawn(b, a)
      PROVE  Maps
  BY <1>7, <1>8 DEF OperatorRegisters, Spawn
<1>9. ASSUME NEW N \in Name, OperatorUnregisters(N) PROVE Maps
  BY <1>9, UnregisterCloses DEF Maps
<1>10. CASE BeginTick
  BY <1>10, DrainHandsOut DEF Maps
<1>11. ASSUME NEW a \in Agent, StartAgent(a) \/ Wait(a) \/ Exit(a) \/ SuperviseGivesUp(a)
       PROVE  Maps
  <2>1. SameWork
    BY <1>0, <1>11
    DEF StartAgent, Wait, Exit, SuperviseGivesUp, NextCasualty, IsFirst, JobsIn, SameWork,
        Casualties
  <2>2. UNCHANGED << bus, inbox >>
    BY <1>11 DEF StartAgent, Wait, Exit, SuperviseGivesUp, mailVars
  <2>. QED  BY <2>1, <2>2, Quiet DEF Maps
<1>12. ASSUME NEW a \in Agent, Return(a) \/ Raise(a) \/ SuperviseRestarts(a) PROVE Maps
  BY <1>0, <1>12, ReturnCompletes, RaiseFails, RestartRetries DEF Maps
<1>13. ASSUME NEW a \in Agent, Escalate(a) PROVE Maps
  <2>1. SameWork /\ inbox' = inbox
    BY <1>0, <1>13 DEF Escalate, NextFallen, IsFirst, JobsIn, SameWork, Casualties
  <2>2. CASE HasLiveParent(a)
    <3>. DEFINE m == [id |-> posted + 1, from |-> NameOf[a], kind |-> "child_failed"]
    <3>1. bus' = Deliver(bus, parent[a], m) /\ parent[a] \in DOMAIN bus
      BY <1>13, <2>2 DEF Escalate, CanDeliver
    <3>2. m \in Message /\ m.id \in SentIds
      BY <1>0, <1>13, <2>2, EscalateSent DEF Message
    <3>3. bus' = [M \in DOMAIN bus |-> IF M \in {parent[a]} THEN Append(bus[M], m) ELSE bus[M]]
      BY <3>1, DeliverIs
    <3>4. {parent[a]} \subseteq DOMAIN bus
      BY <3>1
    <3>. HIDE DEF m
    <3>. QED  BY <1>0, <2>1, <3>2, <3>3, <3>4, Accepts DEF Maps
  <2>3. CASE ~HasLiveParent(a)
    BY <1>13, <2>1, <2>3, Quiet DEF Escalate, Maps
  <2>. QED  BY <2>2, <2>3
<1>14. CASE Reclaim
  BY <1>14, ReclaimCloses DEF Maps
\* What the hypotheses leave out.
<1>15. ~RefuseTick
  BY DEF RefuseTick, Refused, StepsRun
<1>16. ASSUME NEW a \in Agent
       PROVE  ~UnregisterMailbox(a) /\ ~Abort(a) /\ ~OnRestartRaises(a) /\ ~EscalateRaises(a)
              /\ \A N \in Name : ~UnregisterAgent(a, N)
  BY DEF UnregisterMailbox, Abort, OnRestartRaises, EscalateRaises, UnregisterAgent,
         NoneUnregisters, HooksReturn, BoxInv, LiveHaveMailbox, HasLiveParent, Live
<1>. QED
  BY <1>1, <1>2, <1>4, <1>5, <1>6, <1>8, <1>9, <1>10, <1>11, <1>12, <1>13, <1>14, <1>15, <1>16,
     NamesAssumption
  DEF Next, OperatorStep, UserCode, WorkerStep, BarrierStep

\* Mail accepted for an agent leaves its queue only by a step that returns, in
\* order and once, or with its agent: the scheduler, with its ticks, its workers
\* and its barrier, implements ReliableMail (README "rather than losing it").
THEOREM DeliversReliably ==
  ASSUME NoneUnregisters, HooksReturn, StepsRun
  PROVE  Spec => Delivery
<1>1. InvMail /\ TypeOK' /\ RegInv /\ BoxInv /\ [Next]_vars => BoxInv'
  BY BoxStep
<1>2. TypeOK /\ BudgetInv /\ [Next]_vars => BudgetInv'
  BY BudgetStep
<1>3. TypeOK /\ RegInv /\ BoxInv /\ BudgetInv /\ ToldInv /\ [Next]_vars => ToldInv'
  BY ToldStep
<1>4. TypeOK /\ BoxInv /\ HandInv /\ [Next]_vars => HandInv'
  BY HandStep
<1>5. TypeOK /\ ToldInv /\ SentInv /\ [Next]_vars => SentInv'
  BY SentStep
<1>6. /\ InvMail /\ InvMail' /\ RegInv /\ BoxInv /\ BudgetInv /\ ToldInv /\ HandInv /\ SentInv
      /\ [Next]_vars
      => [Mail!Next]_(Mail!mail)
  BY StepMaps DEF Maps, Mail!Next, Mail!mail, Queue, Taken, Owner
<1>. QED
  BY InitMaps, BoxInit, BudgetInit, ToldInit, HandInit, SentInit, TypeCorrect, MailInvariant,
     Registry, <1>1, <1>2, <1>3, <1>4, <1>5, <1>6, PTL
  DEF Spec, Delivery, Mail!Spec

=============================================================================
