--------------------------- MODULE KernelDelivery ---------------------------
(***************************************************************************)
(* The kernel keeps the promise of ReliableMail.                           *)
(*                                                                         *)
(* The queue of a name is what its agent has in hand this tick followed by *)
(* its mailbox; a step that returns completes the messages, a restart puts *)
(* them back, and only reclaiming or unregistering closes a queue.         *)
(***************************************************************************)
EXTENDS Kernel

InHand(N) ==
  LET owners == {a \in Agent : NameOf[a] = N /\ inbox[a] # << >>}
  IN  IF owners = {} THEN << >> ELSE inbox[CHOOSE a \in owners : TRUE]

HasOwner(N, states) == \E a \in Agent : job[a] \in states /\ NameOf[a] = N

\* A message is known by its id: user code sends at most MaxPosts, and the
\* kernel one for each agent.
SentIds == 1..(MaxPosts + Cardinality(Agent))
IdsOf(mail) == [i \in DOMAIN mail |-> mail[i].id]

Mail == INSTANCE ReliableMail WITH
          Name    <- Name,
          Message <- SentIds,
          queue   <- [N \in DOMAIN bus |-> IdsOf(InHand(N) \o bus[N])],
          taken   <- [N \in Name |-> IF N \in DOMAIN bus THEN Len(InHand(N)) ELSE 0],
          owner   <- [N \in Name |->
                        IF HasOwner(N, {"queued", "running"}) THEN "working"
                        ELSE IF HasOwner(N, {"failed", "fallen", "told"}) THEN "failed"
                        ELSE "idle"]

\* Mail accepted for an agent leaves only by a step of it that returns, in order
\* and once, whatever failures, restarts and interleavings of workers come
\* before, unless the agent finishes (README "keeping its mailbox ... rather than losing it").
Delivery == Mail!Spec

=============================================================================
