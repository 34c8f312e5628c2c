---------------------------- MODULE ReliableMail ----------------------------
(***************************************************************************)
(* What the kernel promises about mail, with no ticks, workers or barrier. *)
(*                                                                         *)
(* Each open name has a queue.  A message accepted for a name joins the    *)
(* end of its queue.  The owner of a name works with a prefix of its queue *)
(* in hand.  The prefix leaves the queue when the owner completes its      *)
(* work; when the work fails it stays in the queue, in its place, and the  *)
(* owner tries again or its name closes.  There is no other way out.       *)
(***************************************************************************)
EXTENDS Naturals, Sequences

CONSTANTS Name, Message

VARIABLES
  queue,  \* a partial function: the messages of each open name, in order
  taken,  \* how many of each name's messages its owner has in hand
  owner   \* "idle", "working" or "failed"

mail == << queue, taken, owner >>

TypeInvariant ==
  /\ DOMAIN queue \subseteq Name
  /\ \A N \in DOMAIN queue : queue[N] \in Seq(Message) /\ taken[N] \in 0..Len(queue[N])
  /\ taken \in [Name -> Nat] /\ owner \in [Name -> {"idle", "working", "failed"}]

Init ==
  /\ \E S \in SUBSET Name : queue = [N \in S |-> << >>]
  /\ taken = [N \in Name |-> 0] /\ owner = [N \in Name |-> "idle"]

Open(N) ==
  /\ N \notin DOMAIN queue
  /\ queue' = [M \in DOMAIN queue \cup {N} |-> IF M = N THEN << >> ELSE queue[M]]
  /\ UNCHANGED << taken, owner >>

Accept(S, m) ==
  /\ S \subseteq DOMAIN queue
  /\ UNCHANGED << taken, owner >>
  /\ queue' = [N \in DOMAIN queue |-> IF N \in S THEN Append(queue[N], m) ELSE queue[N]]

\* The owners of S set to work with all that is in their queues, at one instant.
HandOut(S) ==
  /\ S \subseteq DOMAIN queue
  /\ \A N \in Name : owner[N] = "idle"
  /\ taken' = [N \in Name |-> IF N \in S THEN Len(queue[N]) ELSE 0]
  /\ owner' = [N \in Name |-> IF N \in S THEN "working" ELSE "idle"]
  /\ UNCHANGED queue

Settle(N) == owner' = [owner EXCEPT ![N] = "idle"] /\ taken' = [taken EXCEPT ![N] = 0]

Complete(N) ==
  /\ owner[N] = "working" /\ N \in DOMAIN queue
  /\ queue' = [queue EXCEPT ![N] = SubSeq(@, taken[N] + 1, Len(@))]
  /\ Settle(N)

Fail(N) ==
  /\ owner[N] = "working"
  /\ owner' = [owner EXCEPT ![N] = "failed"]
  /\ UNCHANGED << queue, taken >>

Retry(N) == owner[N] = "failed" /\ Settle(N) /\ UNCHANGED queue

\* Not under an owner at work.
Close(S) ==
  /\ \A N \in S : owner[N] # "working"
  /\ queue' = [N \in DOMAIN queue \ S |-> queue[N]]
  /\ taken' = [N \in Name |-> IF N \in S THEN 0 ELSE taken[N]]
  /\ owner' = [N \in Name |-> IF N \in S THEN "idle" ELSE owner[N]]

\* What does nothing to the mail is no step of it.
Next ==
  /\ mail' # mail
  /\ \/ \E N \in Name : Open(N) \/ Complete(N) \/ Fail(N) \/ Retry(N)
     \/ \E S \in SUBSET Name : HandOut(S) \/ Close(S) \/ \E m \in Message : Accept(S, m)

Spec == Init /\ [][Next]_mail

=============================================================================
