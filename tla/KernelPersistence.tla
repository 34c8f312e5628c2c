------------------------- MODULE KernelPersistence --------------------------
(***************************************************************************)
(* Kernel.snapshot() and Kernel.restore(), and a process that crashes.     *)
(*                                                                         *)
(* A crash may come at any point.  What survives it is the last snapshot   *)
(* (saving it, to JSON or otherwise, is the program's, and taken to keep   *)
(* it).  The operator restores it in a new process, with agents that the   *)
(* factories build anew; an Agent of the model stands for the objects of   *)
(* its name and kind before and after.  What the program keeps with        *)
(* save_state() and load_state() is data the kernel only carries.          *)
(***************************************************************************)
EXTENDS Kernel

CONSTANTS
  NoFactory,        \* the agents whose kind has no factory at restore
  SnapshotInTick,   \* whether an agent calls snapshot() from its step()
  MaxCrashes        \* bound

ASSUME PersistenceAssumption ==
  NoFactory \subseteq Agent /\ SnapshotInTick \in BOOLEAN /\ MaxCrashes \in Nat

VARIABLES
  snap,     \* the last snapshot: None before the first
  taken,    \* history: the bus and the live agents when it was taken
  crashes   \* how many times the process has crashed

pvars == << snap, taken, crashes >>
allVars == << vars, pvars >>

InitP == Init /\ snap = None /\ taken = None /\ crashes = 0

\* Raises RuntimeError while a registered agent is RUNNING.
Snapshot ==
  /\ inTick => SnapshotInTick /\ \E a \in Agent : InStep(a)
  /\ \A a \in registered : astate[a] # "running"
  /\ snap' = [tick |-> tick, agents |-> registered, order |-> regno,
              state |-> [a \in registered |-> astate[a]],
              parent |-> [a \in registered |-> parent[a]],
              restarts |-> [a \in registered |-> restarts[a]],
              mail |-> [N \in {M \in DOMAIN bus : bus[M] # << >>} |-> bus[N]]]
  /\ taken' = [bus |-> bus, live |-> Live]
  /\ UNCHANGED << vars, crashes >>

LiveIn(s) == {a \in s.agents : s.state[a] \notin Finished}

\* Faults: only what load() brings; a mailbox for every agent.
RestoredBus_LoadOnly(s) == s.mail
RestoredBus_All(s) ==
  [N \in DOMAIN s.mail \cup Names(s.agents) |->
     IF N \in DOMAIN s.mail THEN s.mail[N] ELSE << >>]

\* load() of the saved mail, then an empty mailbox for each live agent without.
RestoredBus(s) ==
  [N \in DOMAIN s.mail \cup Names(LiveIn(s)) |->
     IF N \in DOMAIN s.mail THEN s.mail[N] ELSE << >>]

\* Fault: the lifecycle state left as the factory made it.
RestoredState_Ready(s) == [a \in Agent |-> "ready"]

RestoredState(s) == [a \in Agent |-> IF a \in s.agents THEN s.state[a] ELSE "ready"]

\* The crash and the restore.  With a live agent's factory missing restore()
\* raises KeyError and there is no kernel, hence no step.
CrashAndRestore ==
  /\ crashes < MaxCrashes /\ crashes' = crashes + 1
  /\ snap # None /\ LiveIn(snap) \cap NoFactory = {}
  /\ tick' = snap.tick
  /\ registered' = snap.agents /\ regno' = snap.order
  /\ astate' = RestoredState(snap)
  /\ parent' = [a \in Agent |-> IF a \in snap.agents THEN snap.parent[a] ELSE None]
  /\ restarts' = [a \in Agent |-> IF a \in snap.agents THEN snap.restarts[a] ELSE 0]
  /\ bus' = RestoredBus(snap)
  /\ errors' = [a \in Agent |-> 0] /\ told' = [a \in Agent |-> 0]
  /\ inTick' = FALSE /\ job' = [a \in Agent |-> "none"]
  /\ inbox' = [a \in Agent |-> << >>] /\ dropping' = [a \in Agent |-> None]
  /\ inRun' = FALSE /\ budget' = 0 /\ stopReason' = None /\ Forget
  /\ horizon' = posted
  /\ UNCHANGED << posted, snap, taken >>

NextP ==
  \/ Next /\ UNCHANGED pvars
  \/ Snapshot \/ CrashAndRestore

SpecP == InitP /\ [][NextP]_allVars

-----------------------------------------------------------------------------
\* A snapshot of a tick boundary leaves nothing out: the restored kernel has
\* the live agents, waiting or ready, and the mailboxes with their mail that
\* the saved one had, though only the mail was saved (restore()'s comment on
\* mailboxes, README "Persistence").
RestoreIsExact ==
  [][crashes' # crashes =>
       /\ bus' = taken.bus
       /\ Live' = taken.live
       /\ \A a \in Live' : (astate'[a] = "waiting") <=> (snap.state[a] = "waiting")]_allVars

\* "The kernel refuses to snapshot at any other time" than a tick boundary.
SnapshotAtBoundary == [][snap' # snap => ~inTick]_allVars

=============================================================================
