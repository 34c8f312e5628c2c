----------------------------- MODULE MCPlatform -----------------------------
(* Instances of PlatformAgents for TLC.                                    *)
EXTENDS PlatformAgents, TLC

CONSTANTS a1, a2, a3, n1, n2, n3

MCNameOf      == a1 :> n1 @@ a2 :> n2 @@ a3 :> n3
MCTwoNames    == a1 :> n1 @@ a2 :> n2
BootTwo       == << a1, a2 >>
ParentFirst   == [a \in Agent |-> IF a = a2 THEN n1 ELSE None]
PlatformFirst == [a \in Agent |-> IF a = a1 THEN n2 ELSE None]
MCMaxRestarts == [a \in Agent |-> 1]

\* Nothing, a broadcast, and a reply to the sender with one to a1 after it.
MCResults  == {<< >>, << Everyone >>, << None, n1 >>}
MCReplyTo  == [a \in Platform |-> None]
MCMaxTurns == [a \in Platform |-> 2]
=============================================================================
