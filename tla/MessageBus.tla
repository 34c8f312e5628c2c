----------------------------- MODULE MessageBus -----------------------------
(***************************************************************************)
(* The mailboxes of titoos/bus.py.                                         *)
(*                                                                         *)
(* A bus is a partial function from names to sequences of messages: its    *)
(* domain is the set of mailboxes that exist.  Every method of MessageBus  *)
(* holds the bus lock from its first read to its last write, so each one   *)
(* is an operator on the whole bus and one atomic step of whoever calls    *)
(* it.  A method that raises (an unknown recipient) changes nothing; its   *)
(* condition is CanDeliver.                                                *)
(***************************************************************************)
EXTENDS Naturals, Sequences

\* A bus in which exactly the names in S have a mailbox, all of them empty.
EmptyBus(S) == [N \in S |-> << >>]

\* register(): an existing mailbox keeps its messages.
RegisterBox(bus, N) ==
  [M \in DOMAIN bus \cup {N} |-> IF M \in DOMAIN bus THEN bus[M] ELSE << >>]

\* unregister(), for every name in S: the mailboxes go with their messages.
UnregisterBoxes(bus, S) == [M \in DOMAIN bus \ S |-> bus[M]]

\* send() and post() to one recipient raise KeyError unless this holds.
CanDeliver(bus, N) == N \in DOMAIN bus

\* send() of m to one recipient.
Deliver(bus, N, m) == [bus EXCEPT ![N] = Append(@, m)]

\* send() of a broadcast: one copy for every mailbox but the sender's.
DeliverAll(bus, m) ==
  [M \in DOMAIN bus |-> IF M = m.from THEN bus[M] ELSE Append(bus[M], m)]

\* What receive() would hand out: nothing for a name without a mailbox.
Pending(bus, N) == IF N \in DOMAIN bus THEN bus[N] ELSE << >>

\* any_pending()
AnyPending(bus, S) == \E N \in S : Pending(bus, N) # << >>

\* Fault: the oldest message alone, as receive() takes it with a limit of one.
Drain_One(bus, S) ==
  [M \in DOMAIN bus |-> IF M \in S /\ bus[M] # << >> THEN Tail(bus[M]) ELSE bus[M]]

\* What receive_many() leaves behind: the mailboxes of S exist and are empty.
Drain(bus, S) == [M \in DOMAIN bus |-> IF M \in S THEN << >> ELSE bus[M]]

\* Faults for the mutation checks: requeue() not called; with extend() for
\* extendleft(); with appendleft() of the whole list.
Requeue_Nothing(bus, N, mail) == bus
Requeue_AtBack(bus, N, mail) ==
  IF N \in DOMAIN bus THEN [bus EXCEPT ![N] = @ \o mail] ELSE bus
Requeue_Nested(bus, N, mail) ==
  IF N \in DOMAIN bus THEN [bus EXCEPT ![N] = << mail >> \o @] ELSE bus

\* requeue(): back to the front, and dropped when the mailbox is gone.
Requeue(bus, N, mail) ==
  IF N \in DOMAIN bus THEN [bus EXCEPT ![N] = mail \o @] ELSE bus

=============================================================================
