----------------------------- MODULE MCShutdown -----------------------------
(***************************************************************************)
(* The programs of the runs on Shutdown.                                   *)
(***************************************************************************)
EXTENDS Shutdown

\* One that may find a tick running, in which a step may raise SystemExit; one
\* that takes no care; and one whose calls Ctrl-C may interrupt, of which there
\* are enough to start a deferred shutdown, forsake it and start another.
AllPrograms ==
  { [when |-> "in a tick", interrupts |-> FALSE, aborts |-> TRUE, sizes |-> {2}, calls |-> 3,
     ticks |-> 2],
    [when |-> "any time", interrupts |-> FALSE, aborts |-> FALSE, sizes |-> {1, 2},
     calls |-> 2, ticks |-> 1],
    [when |-> "in a tick", interrupts |-> TRUE, aborts |-> FALSE, sizes |-> {2},
     calls |-> 3, ticks |-> 1] }

\* The careful one, with two threads to call shutdown() from.
CarefulProgram ==
  { [when |-> "in a tick", interrupts |-> FALSE, aborts |-> FALSE, sizes |-> {2},
     calls |-> 3, ticks |-> 2] }
=============================================================================
