--------------------------- MODULE PlatformAgents ---------------------------
(***************************************************************************)
(* The agents of titoos/platforms/base.py: PlatformAgent.step() in the     *)
(* place of user code, under the kernel's ticks, supervision, snapshots    *)
(* and restores.                                                           *)
(*                                                                         *)
(* One step is one turn: the platform is invoked on the mail of the tick,  *)
(* its replies are dispatched one at a time, and only then does the turn   *)
(* count.  A platform may answer anything in Results, or raise.  Agents    *)
(* that are no platform agents behave as in Kernel.                        *)
(***************************************************************************)
EXTENDS KernelPersistence

CONSTANTS
  Platform,    \* the agents that are PlatformAgents
  WithSeed,    \* those with a seed
  ReplyTo,     \* reply_to
  Broadcasts,  \* those with broadcast=True
  MaxTurns,    \* max_turns, 0 for none
  Everyone,    \* the address of an Outbound with broadcast=True
  Results      \* what from_platform() may return: Outbounds, by their address,
               \* None for "whoever wrote to us"

ASSUME PlatformAssumption ==
  /\ Platform \subseteq Agent /\ WithSeed \subseteq Platform /\ Broadcasts \subseteq Platform
  /\ ReplyTo \in [Platform -> Name \cup {None}] /\ \A a \in Broadcasts : ReplyTo[a] = None
  /\ MaxTurns \in [Platform -> Nat]
  /\ Everyone \notin Name \cup {None, Operator}
  /\ Results \subseteq Seq(Name \cup {None, Everyone})

VARIABLES
  at,       \* where an agent's step() is: "start", "replying" or "over"
  replies,  \* the Outbounds it has still to dispatch
  turns,    \* agent.turns
  seeded,   \* agent._seeded
  seeds,    \* history: how many completed turns had the seed
  data      \* what save_state() put into the last snapshot

turnVars  == << at, replies >>
countVars == << turns, seeded, seeds >>
platVars  == << turnVars, countVars, data >>

InitPlatform ==
  /\ InitP /\ data = None
  /\ at = [a \in Platform |-> "start"] /\ replies = [a \in Platform |-> << >>]
  /\ turns = [a \in Platform |-> 0] /\ seeds = [a \in Platform |-> 0]
  /\ seeded = [a \in Platform |-> a \notin WithSeed]

-----------------------------------------------------------------------------
(* step()                                                                  *)

In(a, place) == InStep(a) /\ at[a] = place
HasTurn(a)   == inbox[a] # << >> \/ ~seeded[a]

\* _begin() finds neither mail nor a seed.
Idle(a) ==
  /\ In(a, "start") /\ ~HasTurn(a)
  /\ Wait(a)
  /\ at' = [at EXCEPT ![a] = "over"]
  /\ UNCHANGED << replies, countVars, data, pvars >>

\* The platform answers.
Invoke(a, result) ==
  /\ In(a, "start") /\ HasTurn(a)
  /\ result = << >> \/ posted + Len(result) <= MaxPosts
  /\ at' = [at EXCEPT ![a] = "replying"] /\ replies' = [replies EXCEPT ![a] = result]
  /\ UNCHANGED << vars, countVars, data, pvars >>

\* A hook of the adapter raises, or returns what cannot be awaited.
PlatformRaises(a) ==
  /\ In(a, "start") /\ HasTurn(a)
  /\ Raise(a)
  /\ UNCHANGED << platVars, pvars >>

\* Where _dispatch() sends the next reply: its own address, reply_to, or the
\* sender of the turn, in that order; None when there is none of them.
Address(a) ==
  LET to     == Head(replies[a])
      sender == IF inbox[a] = << >> THEN None ELSE Head(inbox[a]).from
  IN  CASE to = None /\ a \in Broadcasts -> Everyone
        [] to # None                     -> to
        [] ReplyTo[a] # None             -> ReplyTo[a]
        [] OTHER                         -> sender

Dispatch(a) ==
  /\ In(a, "replying") /\ replies[a] # << >>
  /\ IF Address(a) = Everyone THEN Broadcast(a) ELSE Send(a, Address(a))
  /\ replies' = [replies EXCEPT ![a] = Tail(@)]
  /\ UNCHANGED << at, countVars, data, pvars >>

\* No destination (PlatformError), or one without a mailbox (KeyError).
Undeliverable(a) ==
  /\ In(a, "replying") /\ replies[a] # << >>
  /\ Address(a) # Everyone /\ ~CanDeliver(bus, Address(a))
  /\ Raise(a)
  /\ at' = [at EXCEPT ![a] = "start"] /\ replies' = [replies EXCEPT ![a] = << >>]
  /\ UNCHANGED << countVars, data, pvars >>

LastTurn(a) == MaxTurns[a] # 0 /\ turns[a] + 1 >= MaxTurns[a]

\* The end of _finish().
Complete(a) ==
  /\ In(a, "replying") /\ replies[a] = << >>
  /\ turns' = [turns EXCEPT ![a] = @ + 1] /\ seeded' = [seeded EXCEPT ![a] = TRUE]
  /\ seeds' = [seeds EXCEPT ![a] = IF seeded[a] THEN @ ELSE @ + 1]
  /\ IF LastTurn(a) THEN Exit(a) ELSE Wait(a)
  /\ at' = [at EXCEPT ![a] = "over"]
  /\ UNCHANGED << replies, data, pvars >>

EndTurn(a) ==
  /\ In(a, "over")
  /\ Return(a)
  /\ at' = [at EXCEPT ![a] = "start"]
  /\ UNCHANGED << replies, countVars, data, pvars >>

Turn(a) ==
  \/ Idle(a) \/ PlatformRaises(a) \/ Dispatch(a) \/ Undeliverable(a) \/ Complete(a) \/ EndTurn(a)
  \/ \E result \in Results : Invoke(a, result)

-----------------------------------------------------------------------------
(* save_state() and load_state()                                           *)

SaveAll ==
  /\ Snapshot
  /\ data' = [turns |-> turns, seeded |-> seeded, seeds |-> seeds]
  /\ UNCHANGED << turnVars, countVars >>

\* Faults: load_state() forgets the count, or the flag.
LoadedTurns_Fresh  == [a \in Platform |-> 0]
LoadedSeeded_Fresh == [a \in Platform |-> a \notin WithSeed]

\* What the factory makes, then load_state() if the agent was in the snapshot.
LoadedTurns == [a \in Platform |-> IF a \in snap.agents THEN data.turns[a] ELSE 0]
LoadedSeeded ==
  [a \in Platform |-> IF a \in snap.agents THEN data.seeded[a] ELSE a \notin WithSeed]

LoadAll ==
  /\ CrashAndRestore
  /\ turns' = LoadedTurns /\ seeded' = LoadedSeeded
  /\ seeds' = [a \in Platform |-> IF a \in snap.agents THEN data.seeds[a] ELSE 0]
  /\ at' = [a \in Platform |-> "start"] /\ replies' = [a \in Platform |-> << >>]
  /\ UNCHANGED data

NextPlatform ==
  \/ \E a \in Platform : Turn(a)
  \/ /\ \/ OperatorStep \/ BeginTick \/ RefuseTick \/ BarrierStep \/ RunStep
        \/ \E a \in Agent : StartAgent(a)
        \/ \E a \in Agent \ Platform : UserCode(a) \/ WorkerStep(a)
     /\ UNCHANGED << platVars, pvars >>
  \/ SaveAll \/ LoadAll

SpecPlatform == InitPlatform /\ [][NextPlatform]_<< allVars, platVars >>

-----------------------------------------------------------------------------
\* The seed is in the first completed turn and in no later one, whatever
\* failures, restarts, crashes and restores lie between (_finish()'s order).
SeedOnce ==
  \A a \in Platform : seeds[a] = IF a \in WithSeed /\ turns[a] > 0 THEN 1 ELSE 0

\* Between ticks an agent has made its last turn if and only if it is DONE;
\* a failed or repeated turn counts for nothing (README "max_turns= ends the agent").
TurnsEnd ==
  ~inTick => \A a \in Platform \cap registered :
    /\ MaxTurns[a] # 0 => turns[a] <= MaxTurns[a]
    /\ astate[a] = "done" <=> (MaxTurns[a] # 0 /\ turns[a] = MaxTurns[a])

\* Between ticks an agent that has had its say is scheduled only with mail to
\* act on, that of a failed turn included: it never costs an idle call, and a
\* failed turn is never forgotten (README "an idle foreign agent never costs a
\* model call", "redelivers the job rather than losing it").
ReadyHasMail ==
  ~inTick => \A a \in Platform \cap registered :
    astate[a] = "ready" /\ seeded[a] /\ (turns[a] > 0 \/ restarts[a] > 0)
      => Pending(bus, NameOf[a]) # << >>

\* A child that failed does not fail its parent: answering the notice of it is
\* no reason for a turn to fail ("one bad agent cannot take down the rest").
NoticeIsNoFailure ==
  [][\A a \in Platform : at[a] = "replying" /\ job[a] = "running" /\ job'[a] = "failed"
       => inbox[a] = << >> \/ Head(inbox[a]).kind # "child_failed"]_vars

=============================================================================
