------------------------------ MODULE ShellRun ------------------------------
(***************************************************************************)
(* ShellIntegration.run() of titoos/integrations/shell.py: one command,    *)
(* the thread that runs it, and the two readers that drain its output.     *)
(*                                                                         *)
(* The child, what it forks, the pipes and the passing of time are         *)
(* external.  Text is counted in units, of which a read asks for Chunk; of *)
(* its encoding remains whether a unit decodes and an input can be encoded.*)
(***************************************************************************)
EXTENDS Naturals, FiniteSets

CONSTANTS
  Stream,     \* the child's output pipes: its stdout and stderr
  Inputs,     \* how many units of text are given as stdin; 0: none
  PipeSize,   \* the units a pipe holds
  Chunk,      \* _CHUNK
  MaxOutput,  \* max_output
  Behaviour,  \* what the child may do: "read", "shut stdin", "fork", "garble"
  MaxOut      \* bound on the units the child writes to a stream

ASSUME ShellAssumption ==
  /\ IsFiniteSet(Stream) /\ Inputs \subseteq Nat /\ MaxOut \in Nat
  /\ PipeSize \in Nat \ {0} /\ Chunk \in Nat \ {0} /\ MaxOutput \in Nat \ {0}

VARIABLES
  runpc,     \* where run() is
  unsent,    \* the units of the input not yet in the pipe
  unjoined,  \* the readers not yet joined
  unclosed,  \* the streams not yet closed
  outcome,   \* how run() ends
  reader,    \* where each reader is: before, in or after a read()
  got,       \* the units its read() has
  kept,      \* the units it has kept
  child,     \* "none", "running" or "dead"
  family,    \* whether a process the child forked holds the pipes
  stdinEnd,  \* whether the child holds the other end of its stdin
  inPipe, outPipe,
  written,   \* history: the units the child wrote to each stream
  bad,       \* history: which of them is the first that does not decode; 0: none
  hasty      \* history: a join timed out

mainVars   == << runpc, unsent, unjoined, unclosed, outcome, hasty >>
readerVars == << reader, got, kept >>
childVars  == << child, family, stdinEnd, inPipe, outPipe, written, bad >>
shellVars  == << mainVars, readerVars, childVars >>

ShellTypeOK ==
  /\ runpc \in {"idle", "write", "close stdin", "wait", "join", "exit", "reap", "leave",
              "done"}
  /\ unsent \in Nat /\ unjoined \subseteq Stream /\ unclosed \subseteq Stream
  /\ outcome \in {"none", "result", "timeout", "error"}
  /\ reader \in [Stream -> {"none", "before", "in", "after", "ended"}]
  /\ got \in [Stream -> 0..Chunk] /\ kept \in [Stream -> 0..MaxOutput]
  /\ child \in {"none", "running", "dead"} /\ family \in BOOLEAN /\ stdinEnd \in BOOLEAN
  /\ inPipe \in 0..PipeSize /\ outPipe \in [Stream -> 0..PipeSize]
  /\ written \in [Stream -> 0..MaxOut] /\ bad \in [Stream -> 0..MaxOut] /\ hasty \in BOOLEAN

ShellInit ==
  /\ runpc = "idle" /\ unsent = 0 /\ unjoined = {} /\ unclosed = {} /\ outcome = "none"
  /\ reader = [s \in Stream |-> "none"] /\ got = [s \in Stream |-> 0]
  /\ kept = [s \in Stream |-> 0]
  /\ child = "none" /\ family = FALSE /\ stdinEnd = FALSE
  /\ inPipe = 0 /\ outPipe = [s \in Stream |-> 0] /\ written = [s \in Stream |-> 0]
  /\ bad = [s \in Stream |-> 0] /\ hasty = FALSE

\* Somebody may still write to the output, or read the input.
Writers == child = "running" \/ family
Readers == (child = "running" /\ stdinEnd) \/ family

-----------------------------------------------------------------------------
(* run()                                                                   *)

\* Popen() and the start of the readers; without input there is no stdin.  The
\* UnicodeEncodeError of an input that cannot be encoded leaves write() before
\* anything is sent.
Popen ==
  /\ runpc = "idle"
  /\ child' = "running" /\ stdinEnd' = TRUE
  /\ reader' = [s \in Stream |-> "before"]
  /\ unjoined' = Stream /\ unclosed' = Stream
  /\ \E n \in Inputs :
       \/ /\ unsent' = n /\ outcome' = outcome
          /\ runpc' = IF n = 0 THEN "wait" ELSE IF n < Chunk THEN "close stdin" ELSE "write"
       \/ n > 0 /\ unsent' = 0 /\ runpc' = "join" /\ outcome' = "error"
  /\ UNCHANGED << hasty, got, kept, family, inPipe, outPipe, written, bad >>

\* stdin.write() sends what fills its buffer, stdin.close() the rest: a short
\* input is sent by close(), a long one by write().
Send ==
  /\ runpc \in {"write", "close stdin"} /\ unsent > 0 /\ Readers /\ inPipe < PipeSize
  /\ inPipe' = inPipe + 1 /\ unsent' = unsent - 1
  /\ UNCHANGED << runpc, unjoined, unclosed, outcome, hasty, readerVars,
                  child, family, stdinEnd, outPipe, written, bad >>

\* The OSError of a broken pipe is passed over in write(), not in close().
Broken ==
  /\ runpc \in {"write", "close stdin"} /\ unsent > 0 /\ ~Readers
  /\ unsent' = 0
  /\ IF runpc = "write" THEN runpc' = "close stdin" /\ UNCHANGED outcome
                        ELSE runpc' = "join" /\ outcome' = "error"
  /\ UNCHANGED << unjoined, unclosed, hasty, readerVars, childVars >>

Sent ==
  /\ runpc \in {"write", "close stdin"} /\ unsent = 0
  /\ runpc' = IF runpc = "write" THEN "close stdin" ELSE "wait"
  /\ UNCHANGED << unsent, unjoined, unclosed, outcome, hasty, readerVars, childVars >>

Exited ==
  /\ runpc = "wait" /\ child = "dead"
  /\ runpc' = "join" /\ outcome' = "result"
  /\ UNCHANGED << unsent, unjoined, unclosed, hasty, readerVars, childVars >>

\* Fault: the child is left to itself when the time is up.
AfterKill_Spares == child

\* kill() and wait(), which SIGKILL does not keep waiting.
AfterKill == "dead"

TimeoutExpired ==
  /\ runpc = "wait" /\ child = "running"
  /\ child' = AfterKill
  /\ runpc' = "reap" /\ outcome' = "timeout"
  /\ UNCHANGED << unsent, unjoined, unclosed, hasty, readerVars,
                  family, stdinEnd, inPipe, outPipe, written, bad >>

Reap ==
  /\ runpc = "reap" /\ child = "dead"
  /\ runpc' = "join"
  /\ UNCHANGED << unsent, unjoined, unclosed, outcome, hasty, readerVars, childVars >>

\* Each reader is joined until it has ended or the grace period has.
Join(s) ==
  /\ runpc = "join" /\ s \in unjoined
  /\ unjoined' = unjoined \ {s}
  /\ hasty' = (hasty \/ reader[s] # "ended")
  /\ runpc' = IF unjoined = {s} THEN "exit" ELSE "join"
  /\ UNCHANGED << unsent, unclosed, outcome, readerVars, childVars >>

\* Popen.__exit__() closes the streams, which waits for a read() in progress ...
CloseStream(s) ==
  /\ runpc = "exit" /\ s \in unclosed /\ reader[s] # "in"
  /\ unclosed' = unclosed \ {s}
  /\ runpc' = IF unclosed = {s} THEN "leave" ELSE "exit"
  /\ UNCHANGED << unsent, unjoined, outcome, hasty, readerVars, childVars >>

\* ... and waits for the child, however long it takes.
Leave ==
  /\ runpc = "leave" /\ child = "dead"
  /\ runpc' = "done"
  /\ UNCHANGED << unsent, unjoined, unclosed, outcome, hasty, readerVars, childVars >>

Run ==
  \/ Popen \/ Send \/ Broken \/ Sent \/ Exited \/ TimeoutExpired \/ Reap \/ Leave
  \/ \E s \in Stream : Join(s) \/ CloseStream(s)

-----------------------------------------------------------------------------
(* _BoundedReader.run()                                                    *)

\* Fault: reading stops once enough is kept.
Enough_AtLimit(s) == kept[s] = MaxOutput

Enough(s) == FALSE

\* A stream closed meanwhile raises ValueError, which ends the reader.
BeginRead(s) ==
  /\ reader[s] = "before"
  /\ reader' = [reader EXCEPT ![s] = IF Enough(s) \/ s \notin unclosed THEN "ended" ELSE "in"]
  /\ UNCHANGED << mainVars, got, kept, childVars >>

\* The units that were read from the pipe, and whether the next one decodes.
Taken(s) == written[s] - outPipe[s]
Sound(s) == bad[s] # Taken(s) + 1

Receive(s) ==
  /\ reader[s] = "in" /\ outPipe[s] > 0 /\ got[s] < Chunk /\ Sound(s)
  /\ outPipe' = [outPipe EXCEPT ![s] = @ - 1] /\ got' = [got EXCEPT ![s] = @ + 1]
  /\ UNCHANGED << mainVars, reader, kept, child, family, stdinEnd, inPipe, written, bad >>

\* A block that does not decode raises UnicodeDecodeError, a ValueError as well: the
\* reader ends with the pipe open, and what this read() had is lost.
DecodeFails(s) ==
  /\ reader[s] = "in" /\ got[s] < Chunk /\ bad[s] > Taken(s)
  /\ \E left \in 0..(written[s] - bad[s]) : outPipe' = [outPipe EXCEPT ![s] = left]
  /\ reader' = [reader EXCEPT ![s] = "ended"] /\ got' = [got EXCEPT ![s] = 0]
  /\ UNCHANGED << mainVars, kept, child, family, stdinEnd, inPipe, written, bad >>

\* read() returns a whole chunk, or what there is at the end of the file.
EndRead(s) ==
  /\ reader[s] = "in"
  /\ got[s] = Chunk \/ (outPipe[s] = 0 /\ ~Writers)
  /\ reader' = [reader EXCEPT ![s] = IF got[s] = 0 THEN "ended" ELSE "after"]
  /\ UNCHANGED << mainVars, got, kept, childVars >>

\* Fault: the last chunk is kept only when all of it fits.
Kept_Whole(s) == IF kept[s] + got[s] > MaxOutput THEN kept[s] ELSE kept[s] + got[s]

\* Fault: max_output is not heeded.
Kept_Overfull(s) == kept[s] + got[s]

\* chunk[:room]
Kept(s) == IF kept[s] + got[s] > MaxOutput THEN MaxOutput ELSE kept[s] + got[s]

Keep(s) ==
  /\ reader[s] = "after"
  /\ kept' = [kept EXCEPT ![s] = Kept(s)] /\ got' = [got EXCEPT ![s] = 0]
  /\ reader' = [reader EXCEPT ![s] = "before"]
  /\ UNCHANGED << mainVars, childVars >>

Read(s) == BeginRead(s) \/ Receive(s) \/ DecodeFails(s) \/ EndRead(s) \/ Keep(s)

-----------------------------------------------------------------------------
(* The child                                                               *)

ChildReads ==
  /\ "read" \in Behaviour /\ child = "running" /\ stdinEnd /\ inPipe > 0
  /\ inPipe' = inPipe - 1
  /\ UNCHANGED << mainVars, readerVars, child, family, stdinEnd, outPipe, written, bad >>

ChildWrites(s) ==
  /\ child = "running" /\ written[s] < MaxOut /\ outPipe[s] < PipeSize
  /\ outPipe' = [outPipe EXCEPT ![s] = @ + 1]
  /\ written' = [written EXCEPT ![s] = @ + 1]
  /\ \/ bad' = bad
     \/ /\ "garble" \in Behaviour /\ bad[s] = 0
        /\ bad' = [bad EXCEPT ![s] = written[s] + 1]
  /\ UNCHANGED << mainVars, readerVars, child, family, stdinEnd, inPipe >>

ChildShutsStdin ==
  /\ "shut stdin" \in Behaviour /\ child = "running" /\ stdinEnd
  /\ stdinEnd' = FALSE
  /\ UNCHANGED << mainVars, readerVars, child, family, inPipe, outPipe, written, bad >>

\* What it forks inherits the pipes, and lives as long as it likes.
ChildForks ==
  /\ "fork" \in Behaviour /\ child = "running" /\ ~family
  /\ family' = TRUE
  /\ UNCHANGED << mainVars, readerVars, child, stdinEnd, inPipe, outPipe, written, bad >>

FamilyEnds ==
  /\ family /\ family' = FALSE
  /\ UNCHANGED << mainVars, readerVars, child, stdinEnd, inPipe, outPipe, written, bad >>

ChildExits ==
  /\ child = "running" /\ child' = "dead"
  /\ UNCHANGED << mainVars, readerVars, family, stdinEnd, inPipe, outPipe, written, bad >>

Child ==
  \/ ChildReads \/ ChildShutsStdin \/ ChildForks \/ FamilyEnds \/ ChildExits
  \/ \E s \in Stream : ChildWrites(s)

-----------------------------------------------------------------------------
ShellNext == Run \/ (\E s \in Stream : Read(s)) \/ Child

\* Time passes and the threads go on; the child need not do anything.
ShellFairness == WF_shellVars(Run) /\ \A s \in Stream : WF_shellVars(Read(s))

ShellSpec == ShellInit /\ [][ShellNext]_shellVars /\ ShellFairness

-----------------------------------------------------------------------------
\* A pipe is read to the end whatever is kept, so that the child is not blocked
\* by a full one (_BoundedReader's docstring), unless the child writes what does not
\* decode: from there on nobody reads, which the docstring does not say.
ReadToTheEnd ==
  \A s \in Stream : reader[s] = "ended" => ~Writers \/ s \notin unclosed \/ bad[s] # 0

\* When every reader was waited for, the output of a result is all the child
\* wrote, up to max_output; or less than what precedes the first of it that does not
\* decode, if there is any.
OutputTrue ==
  runpc = "done" /\ outcome = "result" /\ ~hasty =>
    \A s \in Stream :
      IF bad[s] # 0 THEN kept[s] < bad[s]
      ELSE kept[s] = IF written[s] > MaxOutput THEN MaxOutput ELSE written[s]

\* run() returns or raises, whatever the child does: "the timeout of run() has
\* to mean something".
RunReturns == runpc # "idle" ~> runpc = "done"

\* It does unless it is held up where no timeout applies: in writing to a child
\* that does not read, in closing a pipe that a forked process holds, or in
\* waiting for a child that runs on when its input failed, because it has shut its
\* stdin or because the text cannot be encoded.
HeldUp ==
  \/ family
  \/ child = "running" /\ (outcome = "error" \/ (unsent > 0 /\ inPipe = PipeSize))
ReturnsUnlessHeld == runpc # "idle" ~> runpc = "done" \/ HeldUp
=============================================================================
