------------------------------- MODULE Drivers -------------------------------
(***************************************************************************)
(* The drivers an agent may call, ShellRun and FileDriver.  They share     *)
(* nothing, so a behaviour is one of either: the other stays as it is.     *)
(***************************************************************************)
EXTENDS ShellRun, FileDriver

VARIABLE driver   \* the one that is called

Paths == {<<"d">>, <<"d", "f">>}

vars == << shellVars, fileVars, driver >>

TypeOK == ShellTypeOK /\ FileTypeOK /\ driver \in {"shell", "files"}

Init == driver \in {"shell", "files"} /\ ShellInit /\ FileInit

InShell == driver = "shell" /\ UNCHANGED << fileVars, driver >>
InFiles == driver = "files" /\ UNCHANGED << shellVars, driver >>

Next ==
  \/ Run /\ InShell
  \/ (\E s \in Stream : Read(s)) /\ InShell
  \/ Child /\ InShell
  \/ FileNext /\ InFiles

\* Time passes and the threads of run() go on.
Spec ==
  /\ Init /\ [][Next]_vars
  /\ WF_vars(Run /\ InShell) /\ \A s \in Stream : WF_vars(Read(s) /\ InShell)
=============================================================================
