------------------------------ MODULE MCKernel ------------------------------
(* Instances of the kernel for TLC: the constants a cfg cannot write.      *)
EXTENDS KernelDelivery, TLC

CONSTANTS a1, a2, a3, n1, n2, n3

MCNameOf   == a1 :> n1 @@ a2 :> n2 @@ a3 :> n3
MCTwoNames == a1 :> n1 @@ a2 :> n2

\* Two agents that have one name in turn.
MCSuccessor == a1 :> n1 @@ a2 :> n2 @@ a3 :> n2

BootTwo == << a1, a2 >>

\* The child is registered before its parent.
ChildFirst == [a \in Agent |-> IF a = a1 THEN n2 ELSE None]
Orphans    == [a \in Agent |-> None]

MCMaxRestarts == [a \in Agent |-> 1]
=============================================================================
