--------------------------- MODULE MCPersistence ----------------------------
(* An instance of KernelPersistence for TLC.                               *)
EXTENDS KernelPersistence, TLC

CONSTANTS a1, a2, n1, n2

MCNameOf == a1 :> n1 @@ a2 :> n2
BootTwo == << a1, a2 >>
ParentFirst == [a \in Agent |-> IF a = a2 THEN n1 ELSE None]
MCMaxRestarts == [a \in Agent |-> 1]
=============================================================================
