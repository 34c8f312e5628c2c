--------------------------- MODULE Drivers_proofs ---------------------------
(***************************************************************************)
(* What holds of a command for any child, sizes of pipes and chunks, and   *)
(* limit: what of its output decodes is read to the end and truly kept.    *)
(* And that a program of both drivers has the properties of each.          *)
(***************************************************************************)
EXTENDS Drivers, FileDriver_proofs

\* The type invariant in two: where everything is, and how much of it.
PlaceTypes ==
  /\ runpc \in {"idle", "write", "close stdin", "wait", "join", "exit", "reap", "leave",
              "done"}
  /\ unjoined \subseteq Stream /\ unclosed \subseteq Stream
  /\ outcome \in {"none", "result", "timeout", "error"}
  /\ reader \in [Stream -> {"none", "before", "in", "after", "ended"}]
  /\ child \in {"none", "running", "dead"} /\ family \in BOOLEAN /\ stdinEnd \in BOOLEAN
  /\ hasty \in BOOLEAN

CountTypes ==
  /\ unsent \in Nat /\ inPipe \in 0..PipeSize
  /\ got \in [Stream -> 0..Chunk] /\ kept \in [Stream -> 0..MaxOutput]
  /\ outPipe \in [Stream -> 0..PipeSize] /\ written \in [Stream -> 0..MaxOut]
  /\ bad \in [Stream -> 0..MaxOut]

LEMMA TwoTypes == ShellTypeOK <=> PlaceTypes /\ CountTypes
BY DEF ShellTypeOK, PlaceTypes, CountTypes

LEMMA SizesNat ==
  /\ Inputs \subseteq Nat /\ MaxOut \in Nat /\ PipeSize \in Nat /\ Chunk \in Nat
  /\ MaxOutput \in Nat
BY ShellAssumption

LEMMA PlaceInit == ShellInit => PlaceTypes
BY DEF ShellInit, PlaceTypes

LEMMA PlaceKept == PlaceTypes /\ [ShellNext]_shellVars => PlaceTypes'
<1> SUFFICES ASSUME PlaceTypes, [ShellNext]_shellVars PROVE PlaceTypes'
  OBVIOUS
<1> USE DEF PlaceTypes, mainVars, readerVars, childVars
<1>1. CASE Run
  <2>1. CASE Popen
    BY <2>1 DEF Popen
  <2>2. CASE Send \/ Broken \/ Sent \/ Exited \/ Reap \/ Leave
    BY <2>2 DEF Send, Broken, Sent, Exited, Reap, Leave
  <2>3. CASE TimeoutExpired
    BY <2>3 DEF TimeoutExpired, AfterKill
  <2>4. CASE \E s \in Stream : Join(s) \/ CloseStream(s)
    BY <2>4 DEF Join, CloseStream
  <2> QED
    BY <1>1, <2>1, <2>2, <2>3, <2>4 DEF Run
<1>2. CASE \E s \in Stream : Read(s)
  BY <1>2, ZenonT(60) DEF Read, BeginRead, Receive, DecodeFails, EndRead, Keep
<1>3. CASE Child
  BY <1>3 DEF Child, ChildReads, ChildWrites, ChildShutsStdin, ChildForks, FamilyEnds,
              ChildExits
<1>4. CASE UNCHANGED shellVars
  BY <1>4 DEF shellVars
<1> QED
  BY <1>1, <1>2, <1>3, <1>4 DEF ShellNext

LEMMA CountInit == ShellInit => CountTypes
<1>1. \A n \in Nat : 0 \in 0..n
  OBVIOUS
<1>2. 0 \in 0..PipeSize /\ 0 \in 0..Chunk /\ 0 \in 0..MaxOutput /\ 0 \in 0..MaxOut
  BY <1>1, SizesNat
<1> QED
  BY <1>2 DEF ShellInit, CountTypes

\* The steps that count something, and the others.
LEMMA CountKept == CountTypes /\ [ShellNext]_shellVars => CountTypes'
<1> SUFFICES ASSUME CountTypes, [ShellNext]_shellVars PROVE CountTypes'
  OBVIOUS
<1> USE DEF mainVars, readerVars, childVars
<1>1. CASE UNCHANGED << got, kept, inPipe, outPipe, written, bad >> /\ unsent' \in Nat
  BY <1>1 DEF CountTypes
<1>2. CASE Run
  <2>1. CASE Popen
    <3>1. unsent' \in Inputs \cup {0}
      BY <2>1 DEF Popen
    <3>2. UNCHANGED << inPipe, outPipe, written, bad, got, kept >>
      BY <2>1 DEF Popen
    <3> QED
      BY <1>1, <3>1, <3>2, SizesNat
  <2>2. CASE Send
    <3>1. /\ unsent > 0 /\ inPipe < PipeSize /\ inPipe' = inPipe + 1 /\ unsent' = unsent - 1
          /\ UNCHANGED << got, kept, outPipe, written, bad >>
      BY <2>2 DEF Send
    <3> QED
      BY <3>1, SizesNat DEF CountTypes
  <2>3. CASE Broken
    BY <1>1, <2>3 DEF Broken
  <2>4. CASE Sent \/ Exited \/ TimeoutExpired \/ Reap \/ Leave
               \/ \E s \in Stream : Join(s) \/ CloseStream(s)
    <3>1. UNCHANGED << unsent, got, kept, inPipe, outPipe, written, bad >>
      BY <2>4 DEF Sent, Exited, TimeoutExpired, Reap, Leave, Join, CloseStream
    <3> QED
      BY <3>1 DEF CountTypes
  <2> QED
    BY <1>2, <2>1, <2>2, <2>3, <2>4 DEF Run
<1>3. ASSUME NEW s \in Stream, Read(s) PROVE CountTypes'
  <2>1. CASE BeginRead(s) \/ EndRead(s)
    <3>1. UNCHANGED << unsent, got, kept, inPipe, outPipe, written, bad >>
      BY <2>1 DEF BeginRead, EndRead
    <3> QED
      BY <3>1 DEF CountTypes
  <2>2. CASE Receive(s)
    <3>1. /\ outPipe[s] > 0 /\ got[s] < Chunk
          /\ outPipe' = [outPipe EXCEPT ![s] = @ - 1] /\ got' = [got EXCEPT ![s] = @ + 1]
          /\ UNCHANGED << unsent, kept, inPipe, written, bad >>
      BY <2>2 DEF Receive
    <3> QED
      BY <3>1, SizesNat DEF CountTypes
  <2>3. CASE Keep(s)
    <3>1. /\ kept' = [kept EXCEPT ![s] = Kept(s)] /\ got' = [got EXCEPT ![s] = 0]
          /\ UNCHANGED << unsent, inPipe, outPipe, written, bad >>
      BY <2>3 DEF Keep
    <3>2. Kept(s) \in 0..MaxOutput
      BY SizesNat DEF Kept, CountTypes
    <3> QED
      BY <3>1, <3>2, SizesNat DEF CountTypes
  <2>4. CASE DecodeFails(s)
    <3>1. PICK left \in 0..(written[s] - bad[s]) : outPipe' = [outPipe EXCEPT ![s] = left]
      BY <2>4 DEF DecodeFails
    <3>2. /\ bad[s] > Taken(s) /\ got' = [got EXCEPT ![s] = 0]
          /\ UNCHANGED << unsent, kept, inPipe, written, bad >>
      BY <2>4 DEF DecodeFails
    <3>3. left \in 0..PipeSize
      BY <3>1, <3>2, SizesNat DEF Taken, CountTypes
    <3> QED
      BY <3>1, <3>2, <3>3, SizesNat DEF CountTypes
  <2> QED
    BY <1>3, <2>1, <2>2, <2>3, <2>4 DEF Read
<1>4. CASE Child
  <2>1. CASE ChildReads
    <3>1. /\ inPipe > 0 /\ inPipe' = inPipe - 1
          /\ UNCHANGED << unsent, got, kept, outPipe, written, bad >>
      BY <2>1 DEF ChildReads
    <3> QED
      BY <3>1, SizesNat DEF CountTypes
  <2>2. ASSUME NEW s \in Stream, ChildWrites(s) PROVE CountTypes'
    <3>1. /\ written[s] < MaxOut /\ outPipe[s] < PipeSize
          /\ outPipe' = [outPipe EXCEPT ![s] = @ + 1]
          /\ written' = [written EXCEPT ![s] = @ + 1]
          /\ bad' = bad \/ bad' = [bad EXCEPT ![s] = written[s] + 1]
          /\ UNCHANGED << unsent, got, kept, inPipe >>
      BY <2>2 DEF ChildWrites
    <3> QED
      BY <3>1, SizesNat DEF CountTypes
  <2>3. CASE ChildShutsStdin \/ ChildForks \/ FamilyEnds \/ ChildExits
    <3>1. UNCHANGED << unsent, got, kept, inPipe, outPipe, written, bad >>
      BY <2>3 DEF ChildShutsStdin, ChildForks, FamilyEnds, ChildExits
    <3> QED
      BY <3>1 DEF CountTypes
  <2> QED
    BY <1>4, <2>1, <2>2, <2>3 DEF Child
<1>5. CASE UNCHANGED shellVars
  BY <1>5 DEF shellVars, CountTypes
<1> QED
  BY <1>2, <1>3, <1>4, <1>5 DEF ShellNext

\* Every variable of run(), its readers and the child keeps its type; no more
\* than max_output is ever kept of a stream.
THEOREM ShellTypeCorrect == ShellSpec => []ShellTypeOK
<1> QED
  BY PlaceInit, CountInit, PlaceKept, CountKept, TwoTypes, PTL DEF ShellSpec

-----------------------------------------------------------------------------
(* The output                                                              *)

Capped(n) == IF n > MaxOutput THEN MaxOutput ELSE n

\* What the child wrote is in the pipe, in hand, or was taken up, of which as
\* much is kept as the limit allows; until what does not decode is taken up, when
\* the reader has ended with less.
Tally(w, o, g, k, b, place) ==
  /\ o + g <= w /\ b <= w
  /\ place \in {"none", "before", "ended"} => g = 0
  /\ IF b # 0 /\ b <= w - o THEN place = "ended" /\ k < b
                             ELSE k = Capped(w - o - g)
Counted ==
  \A s \in Stream : Tally(written[s], outPipe[s], got[s], kept[s], bad[s], reader[s])

\* A reader that was joined without haste had ended, and until all are joined
\* nothing is closed.
Late == {"exit", "leave", "done"}
Joins ==
  /\ runpc = "idle" => \A s \in Stream : reader[s] = "none"
  /\ runpc \notin Late \cup {"idle"} => unclosed = Stream
  /\ runpc \notin Late \cup {"idle", "join"} => unjoined = Stream
  /\ runpc = "join" /\ ~hasty => \A s \in Stream \ unjoined : reader[s] = "ended"
  /\ runpc \in Late /\ ~hasty => \A s \in Stream : reader[s] = "ended"

\* A reader ends at the end of its pipe, because that was closed on one that was not
\* waited for, or because of what does not decode.
Drained(s) == ~Writers /\ outPipe[s] = 0
AtEnd ==
  \A s \in Stream :
    reader[s] = "ended" => Drained(s) \/ (s \notin unclosed /\ hasty) \/ bad[s] # 0

OutputInv == PlaceTypes /\ CountTypes /\ Counted /\ Joins /\ AtEnd

LEMMA OutputInit == ShellInit => OutputInv
<1> SUFFICES ASSUME ShellInit PROVE OutputInv
  OBVIOUS
<1>1. PlaceTypes
  BY DEF ShellInit, PlaceTypes
<1>2. Counted
  <2>1. \A s \in Stream : /\ outPipe[s] = 0 /\ got[s] = 0 /\ written[s] = 0 /\ kept[s] = 0
                            /\ bad[s] = 0
    BY DEF ShellInit
  <2> QED
    BY <2>1, SizesNat DEF Counted, Tally, Capped
<1>3. Joins /\ AtEnd
  BY DEF ShellInit, Joins, AtEnd, Late
<1> QED
  BY <1>1, <1>2, <1>3, CountInit DEF OutputInv

LEMMA CountedKept ==
  ASSUME CountTypes, PlaceTypes, Counted, Joins, [ShellNext]_shellVars
  PROVE  Counted'
<1> USE DEF mainVars, readerVars, childVars
<1>1. \A s \in Stream : /\ got[s] \in Nat /\ kept[s] \in Nat /\ outPipe[s] \in Nat
                         /\ written[s] \in Nat /\ bad[s] \in Nat
  BY SizesNat DEF CountTypes
<1>0. /\ DOMAIN reader = Stream /\ DOMAIN got = Stream /\ DOMAIN kept = Stream
      /\ DOMAIN outPipe = Stream /\ DOMAIN written = Stream /\ DOMAIN bad = Stream
  BY DEF CountTypes, PlaceTypes
<1>c. \A s \in Stream : Tally(written[s], outPipe[s], got[s], kept[s], bad[s], reader[s])
  BY DEF Counted
<1>2. CASE Run
  <2>1. CASE Popen
    <3>1. /\ UNCHANGED << got, kept, outPipe, written, bad >> /\ runpc = "idle"
          /\ \A s \in Stream : reader'[s] = "before"
      BY <2>1 DEF Popen
    <3>2. \A s \in Stream : reader[s] = "none"
      BY <3>1 DEF Joins
    <3> QED
      BY <1>c, <3>1, <3>2 DEF Counted, Tally
  <2>2. CASE ~Popen
    <3>1. UNCHANGED << got, kept, outPipe, written, bad, reader >>
      BY <1>2, <2>2 DEF Run, Send, Broken, Sent, Exited, TimeoutExpired, Reap, Leave, Join,
                       CloseStream
    <3> QED
      BY <1>c, <3>1 DEF Counted
  <2> QED
    BY <2>1, <2>2
<1>3. ASSUME NEW s \in Stream, Read(s) PROVE Counted'
  <2>1. \A r \in Stream \ {s} : /\ outPipe'[r] = outPipe[r] /\ got'[r] = got[r]
                                 /\ kept'[r] = kept[r] /\ reader'[r] = reader[r]
    BY <1>0, <1>3 DEF Read, BeginRead, Receive, DecodeFails, EndRead, Keep
  <2>2. UNCHANGED << written, bad >>
    BY <1>3 DEF Read, BeginRead, Receive, DecodeFails, EndRead, Keep
  <2>c. Tally(written[s], outPipe[s], got[s], kept[s], bad[s], reader[s])
    BY <1>c
  <2>3. CASE BeginRead(s)
    <3>1. /\ reader[s] = "before" /\ UNCHANGED << outPipe, got, kept >>
          /\ reader'[s] \in {"ended", "in"}
      BY <1>0, <2>3 DEF BeginRead
    <3>2. Tally(written[s], outPipe[s], got[s], kept[s], bad[s], reader'[s])
      BY <2>c, <3>1 DEF Tally
    <3> QED
      BY <1>c, <2>1, <2>2, <3>1, <3>2 DEF Counted
  <2>4. CASE Receive(s)
    <3>1. /\ outPipe[s] > 0 /\ outPipe' = [outPipe EXCEPT ![s] = @ - 1]
          /\ got' = [got EXCEPT ![s] = @ + 1] /\ kept' = kept
          /\ reader[s] = "in" /\ reader' = reader /\ bad[s] # written[s] - outPipe[s] + 1
      BY <2>4 DEF Receive, Sound, Taken
    <3>2. outPipe'[s] = outPipe[s] - 1 /\ got'[s] = got[s] + 1
      BY <1>0, <3>1
    <3>3. Tally(written[s], outPipe[s] - 1, got[s] + 1, kept[s], bad[s], reader[s])
      BY <1>1, <2>c, <3>1 DEF Tally, Capped
    <3> QED
      BY <1>c, <2>1, <2>2, <3>1, <3>2, <3>3 DEF Counted
  <2>5. CASE EndRead(s)
    <3>1. /\ UNCHANGED << outPipe, got, kept >> /\ reader[s] = "in"
          /\ reader'[s] = IF got[s] = 0 THEN "ended" ELSE "after"
      BY <1>0, <2>5 DEF EndRead
    <3>2. Tally(written[s], outPipe[s], got[s], kept[s], bad[s], reader'[s])
      BY <2>c, <3>1 DEF Tally
    <3> QED
      BY <1>c, <2>1, <2>2, <3>1, <3>2 DEF Counted
  <2>6. CASE Keep(s)
    <3>1. /\ kept' = [kept EXCEPT ![s] = Kept(s)] /\ got' = [got EXCEPT ![s] = 0]
          /\ outPipe' = outPipe /\ reader[s] = "after" /\ reader'[s] = "before"
      BY <1>0, <2>6 DEF Keep
    <3>2. kept'[s] = Kept(s) /\ got'[s] = 0
      BY <1>0, <3>1
    <3>3. Tally(written[s], outPipe[s], 0, Kept(s), bad[s], "before")
      BY <1>1, <2>c, <3>1, SizesNat DEF Tally, Capped, Kept
    <3> QED
      BY <1>c, <2>1, <2>2, <3>1, <3>2, <3>3 DEF Counted
\* What was kept had been taken up before.
  <2>7. CASE DecodeFails(s)
    <3>1. PICK left \in 0..(written[s] - bad[s]) : outPipe' = [outPipe EXCEPT ![s] = left]
      BY <2>7 DEF DecodeFails
    <3>2. /\ bad[s] > written[s] - outPipe[s] /\ kept' = kept /\ reader[s] = "in"
          /\ outPipe'[s] = left /\ got'[s] = 0 /\ reader'[s] = "ended"
      BY <1>0, <2>7, <3>1 DEF DecodeFails, Taken
    <3>3. kept[s] = Capped(written[s] - outPipe[s] - got[s]) /\ outPipe[s] + got[s] <= written[s]
          /\ bad[s] <= written[s]
      BY <1>1, <2>c, <3>2 DEF Tally
    <3>4. kept[s] < bad[s]
      BY <1>1, <3>2, <3>3, SizesNat DEF Capped
    <3>5. Tally(written[s], left, 0, kept[s], bad[s], "ended")
      BY <1>1, <3>1, <3>2, <3>3, <3>4 DEF Tally
    <3> QED
      BY <1>c, <2>1, <2>2, <3>2, <3>5 DEF Counted
  <2> QED
    BY <1>3, <2>3, <2>4, <2>5, <2>6, <2>7 DEF Read
<1>4. CASE Child
  <2>1. ASSUME NEW s \in Stream, ChildWrites(s) PROVE Counted'
    <3>1. /\ outPipe' = [outPipe EXCEPT ![s] = @ + 1]
          /\ written' = [written EXCEPT ![s] = @ + 1]
          /\ bad' = bad \/ (bad[s] = 0 /\ bad' = [bad EXCEPT ![s] = written[s] + 1])
          /\ UNCHANGED << got, kept, reader >>
      BY <2>1 DEF ChildWrites
    <3>2. /\ outPipe'[s] = outPipe[s] + 1 /\ written'[s] = written[s] + 1
          /\ bad'[s] = bad[s] \/ (bad[s] = 0 /\ bad'[s] = written[s] + 1)
          /\ \A r \in Stream \ {s} : /\ outPipe'[r] = outPipe[r] /\ written'[r] = written[r]
                                      /\ bad'[r] = bad[r]
      BY <1>0, <3>1
    <3>3. Tally(written[s], outPipe[s], got[s], kept[s], bad[s], reader[s])
      BY <1>c
    <3>4. Tally(written[s] + 1, outPipe[s] + 1, got[s], kept[s], bad[s], reader[s])
      BY <1>1, <3>3 DEF Tally, Capped
    <3>5. bad[s] = 0 =>
            Tally(written[s] + 1, outPipe[s] + 1, got[s], kept[s], written[s] + 1, reader[s])
      BY <1>1, <3>3 DEF Tally, Capped
    <3> QED
      BY <1>c, <3>1, <3>2, <3>4, <3>5 DEF Counted
  <2>2. CASE ChildReads \/ ChildShutsStdin \/ ChildForks \/ FamilyEnds \/ ChildExits
    <3>1. UNCHANGED << got, kept, outPipe, written, bad, reader >>
      BY <2>2 DEF ChildReads, ChildShutsStdin, ChildForks, FamilyEnds, ChildExits
    <3> QED
      BY <1>c, <3>1 DEF Counted
  <2> QED
    BY <1>4, <2>1, <2>2 DEF Child
<1>5. CASE UNCHANGED shellVars
  BY <1>c, <1>5 DEF shellVars, Counted
<1> QED
  BY <1>2, <1>3, <1>4, <1>5 DEF ShellNext

\* Once nobody may write, nobody comes to; what is closed stays so.
LEMMA Frame ==
  ASSUME PlaceTypes, CountTypes, Counted, [ShellNext]_shellVars, ~Popen
  PROVE  /\ Writers' => Writers
         /\ unclosed' \subseteq unclosed /\ (hasty => hasty')
         /\ \A s \in Stream : Drained(s) => outPipe'[s] = 0
<1> USE DEF mainVars, readerVars, childVars
<1>1. CASE Run
  <2> DEFINE Same == /\ child' = "running" => child = "running"
                     /\ UNCHANGED << family, outPipe >>
                     /\ unclosed' \subseteq unclosed /\ (hasty => hasty')
  <2>1. ASSUME Send \/ Broken \/ Sent \/ Exited \/ Reap \/ Leave PROVE Same
    <3>1. UNCHANGED << child, family, outPipe, unclosed, hasty >>
      BY <2>1 DEF Send, Broken, Sent, Exited, Reap, Leave
    <3> QED
      BY <3>1
  <2>2. ASSUME TimeoutExpired PROVE Same
    <3>1. UNCHANGED << family, outPipe, unclosed, hasty >> /\ child = "running"
      BY <2>2 DEF TimeoutExpired
    <3> QED
      BY <3>1
  <2>3. ASSUME NEW s \in Stream, Join(s) PROVE Same
    BY <2>3 DEF Join, PlaceTypes
  <2>4. ASSUME NEW s \in Stream, CloseStream(s) PROVE Same
    BY <2>4 DEF CloseStream
  <2>5. Same
    BY <1>1, <2>1, <2>2, <2>3, <2>4 DEF Run
  <2> QED
    BY <2>5 DEF Writers, Drained
<1>2. ASSUME NEW s \in Stream, Read(s)
      PROVE  /\ UNCHANGED << child, family, unclosed, hasty >>
             /\ \A r \in Stream : outPipe[r] = 0 => outPipe'[r] = 0
  <2>1. UNCHANGED << child, family, unclosed, hasty >>
    BY <1>2 DEF Read, BeginRead, Receive, DecodeFails, EndRead, Keep
  <2>2. outPipe' = outPipe \/ (outPipe[s] > 0 /\ \E n \in Nat : outPipe' = [outPipe EXCEPT ![s] = n])
    <3>1. CASE BeginRead(s) \/ EndRead(s) \/ Keep(s)
      BY <3>1 DEF BeginRead, EndRead, Keep
    <3>2. CASE Receive(s)
      <4>1. outPipe[s] > 0 /\ outPipe' = [outPipe EXCEPT ![s] = outPipe[s] - 1]
        BY <3>2 DEF Receive
      <4>2. outPipe[s] - 1 \in Nat
        BY <4>1, SizesNat DEF CountTypes
      <4> QED
        BY <4>1, <4>2
    <3>3. CASE DecodeFails(s)
      <4>1. PICK left \in 0..(written[s] - bad[s]) : outPipe' = [outPipe EXCEPT ![s] = left]
        BY <3>3 DEF DecodeFails
      <4>2. bad[s] > written[s] - outPipe[s] /\ bad[s] <= written[s]
        BY <3>3 DEF DecodeFails, Taken, Counted, Tally
      <4>3. outPipe[s] > 0
        BY <4>2, SizesNat DEF CountTypes
      <4>4. left \in Nat
        BY <4>1, <4>2, SizesNat DEF CountTypes
      <4> QED
        BY <4>1, <4>3, <4>4
    <3> QED
      BY <1>2, <3>1, <3>2, <3>3 DEF Read
  <2>3. DOMAIN outPipe = Stream
    BY DEF CountTypes
  <2> QED
    BY <2>1, <2>2, <2>3
<1>3. CASE Child
  <2>1. /\ child' = "running" => child = "running"
        /\ family' => family \/ child = "running"
        /\ UNCHANGED << unclosed, hasty >>
        /\ outPipe' = outPipe \/ child = "running"
    BY <1>3 DEF Child, ChildReads, ChildWrites, ChildShutsStdin, ChildForks, FamilyEnds,
                ChildExits
  <2> QED
    BY <2>1 DEF Writers, Drained
<1>4. CASE UNCHANGED shellVars
  BY <1>4 DEF shellVars, Writers, Drained
<1>5. CASE \E s \in Stream : Read(s)
  BY <1>2, <1>5 DEF Writers, Drained
<1> QED
  BY <1>1, <1>3, <1>4, <1>5 DEF ShellNext

LEMMA JoinsKept ==
  ASSUME PlaceTypes, Joins, [ShellNext]_shellVars
  PROVE  Joins'
<1> USE DEF mainVars, readerVars, childVars
<1>1. CASE Popen
  BY <1>1 DEF Popen, Joins, Late
<1>2. CASE Send \/ Broken \/ Sent \/ Exited \/ TimeoutExpired \/ Reap \/ Leave
  BY <1>2 DEF Send, Broken, Sent, Exited, TimeoutExpired, Reap, Leave, Joins, Late
<1>3. ASSUME NEW s \in Stream, Join(s) PROVE Joins'
  BY <1>3 DEF Join, Joins, Late
<1>4. ASSUME NEW s \in Stream, CloseStream(s) PROVE Joins'
  BY <1>4 DEF CloseStream, Joins, Late
<1>5. ASSUME NEW s \in Stream, Read(s) PROVE Joins'
  <2>1. /\ UNCHANGED << runpc, unclosed, unjoined, hasty >>
        /\ reader[s] \notin {"none", "ended"}
    BY <1>5 DEF Read, BeginRead, Receive, DecodeFails, EndRead, Keep
  <2>2. \A r \in Stream \ {s} : reader'[r] = reader[r]
    BY <1>5 DEF Read, BeginRead, Receive, DecodeFails, EndRead, Keep, PlaceTypes
  <2> QED
    BY <2>1, <2>2 DEF Joins, Late
<1>6. CASE Child \/ UNCHANGED shellVars
  <2>1. UNCHANGED << runpc, unclosed, unjoined, hasty, reader >>
    BY <1>6 DEF Child, ChildReads, ChildWrites, ChildShutsStdin, ChildForks, FamilyEnds,
                ChildExits, shellVars
  <2> QED
    BY <2>1 DEF Joins, Late
<1> QED
  BY <1>1, <1>2, <1>3, <1>4, <1>5, <1>6 DEF ShellNext, Run

LEMMA AtEndKept ==
  ASSUME PlaceTypes, CountTypes, Counted, Joins, AtEnd, [ShellNext]_shellVars
  PROVE  AtEnd'
<1> USE DEF mainVars, readerVars, childVars
<1>1. CASE Popen
  BY <1>1 DEF Popen, AtEnd
<1>2. CASE ~Popen
  <2> SUFFICES ASSUME NEW s \in Stream, reader'[s] = "ended"
               PROVE  Drained(s)' \/ (s \notin unclosed' /\ hasty') \/ bad'[s] # 0
    BY DEF AtEnd
  <2>1. Drained(s) => Drained(s)'
    BY <1>2, Frame DEF Drained
  <2>2. s \notin unclosed /\ hasty => s \notin unclosed' /\ hasty'
    BY <1>2, Frame
  <2>b. bad[s] # 0 => bad'[s] # 0
    <3>1. bad' = bad \/ \E r \in Stream : bad[r] = 0 /\ bad' = [bad EXCEPT ![r] = written[r] + 1]
      BY <1>2
      DEF ShellNext, Run, Send, Broken, Sent, Exited, TimeoutExpired, Reap, Leave, Join,
          CloseStream, Read, BeginRead, Receive, DecodeFails, EndRead, Keep, Child, ChildReads,
          ChildWrites, ChildShutsStdin, ChildForks, FamilyEnds, ChildExits, shellVars
    <3> QED
      BY <3>1 DEF CountTypes
  <2>3. CASE reader[s] = "ended"
    BY <2>1, <2>2, <2>b, <2>3 DEF AtEnd
  <2>4. CASE reader[s] # "ended"
    <3>1. BeginRead(s) \/ EndRead(s) \/ DecodeFails(s)
      <4>1. \A r \in Stream : Read(r) /\ r # s => reader'[s] = reader[s]
        BY DEF Read, BeginRead, Receive, DecodeFails, EndRead, Keep, PlaceTypes
      <4>2. Receive(s) \/ Keep(s) => reader'[s] # "ended"
        BY <2>4 DEF Receive, Keep, PlaceTypes
      <4>3. Run \/ Child \/ UNCHANGED shellVars => reader' = reader
        BY <1>2 DEF Run, Send, Broken, Sent, Exited, TimeoutExpired, Reap, Leave, Join,
                    CloseStream, Child, ChildReads, ChildWrites, ChildShutsStdin,
                    ChildForks, FamilyEnds, ChildExits, shellVars
      <4> QED
        BY <2>4, <4>1, <4>2, <4>3 DEF ShellNext, Read
    <3>2. CASE BeginRead(s)
      <4>1. s \notin unclosed /\ reader[s] = "before"
        BY <3>2 DEF BeginRead, Enough, PlaceTypes
      <4>2. hasty
        BY <4>1 DEF Joins
      <4> QED
        BY <2>2, <4>1, <4>2
    <3>3. CASE EndRead(s)
      <4>1. got[s] = 0 /\ Chunk # 0
        BY <3>3, ShellAssumption DEF EndRead, PlaceTypes
      <4>2. Drained(s)
        BY <3>3, <4>1 DEF EndRead, Drained
      <4> QED
        BY <2>1, <4>2
    <3>4. CASE DecodeFails(s)
      <4>1. bad[s] > written[s] - outPipe[s] /\ outPipe[s] <= written[s]
        <5>1. outPipe[s] + got[s] <= written[s]
          BY DEF Counted, Tally
        <5> QED
          BY <3>4, <5>1, SizesNat DEF DecodeFails, Taken, CountTypes
      <4>2. bad[s] # 0
        BY <4>1, SizesNat DEF CountTypes
      <4> QED
        BY <2>b, <4>2
    <3> QED
      BY <3>1, <3>2, <3>3, <3>4
  <2> QED
    BY <2>3, <2>4
<1> QED
  BY <1>1, <1>2

\* Every unit the child wrote is accounted for, and the end of each reader: by the
\* end of its pipe, its being closed, or what does not decode.
THEOREM OutputInvariant == ShellSpec => []OutputInv
<1>1. OutputInv /\ [ShellNext]_shellVars => OutputInv'
  BY PlaceKept, CountKept, CountedKept, JoinsKept, AtEndKept DEF OutputInv
<1> QED
  BY <1>1, OutputInit, PTL DEF ShellSpec

LEMMA OutputTells == OutputInv => ReadToTheEnd /\ OutputTrue
<1>1. OutputInv => ReadToTheEnd
  BY DEF OutputInv, AtEnd, Drained, ReadToTheEnd
<1>2. ASSUME OutputInv, runpc = "done", ~hasty, NEW s \in Stream
      PROVE  IF bad[s] # 0 THEN kept[s] < bad[s]
             ELSE kept[s] = IF written[s] > MaxOutput THEN MaxOutput ELSE written[s]
  <2>1. /\ written[s] \in Nat /\ bad[s] \in Nat /\ outPipe[s] \in Nat
        /\ MaxOutput \in Nat
    BY <1>2, SizesNat DEF OutputInv, CountTypes
  <2>2. /\ reader[s] = "ended" /\ (outPipe[s] = 0 \/ bad[s] # 0)
        /\ Tally(written[s], outPipe[s], got[s], kept[s], bad[s], reader[s])
    BY <1>2 DEF OutputInv, Joins, Late, AtEnd, Drained, Counted
  <2>3. got[s] = 0 /\ outPipe[s] + 0 <= written[s]
    BY <2>2 DEF Tally
  <2>4. CASE bad[s] # 0
    BY <2>1, <2>2, <2>3, <2>4 DEF Tally, Capped
  <2>5. CASE bad[s] = 0
    <3>1. kept[s] = Capped(written[s] - 0 - 0)
      BY <2>2, <2>3, <2>5 DEF Tally
    <3> QED
      BY <2>1, <2>5, <3>1 DEF Capped
  <2> QED
    BY <2>4, <2>5
<1> QED
  BY <1>1, <1>2 DEF OutputTrue

\* A pipe is read to its end whatever the limit, the child and the sizes, as long as
\* what the child writes decodes.
THEOREM ReadsToTheEnd == ShellSpec => []ReadToTheEnd
BY OutputTells, OutputInvariant, PTL

\* What a result has is what the child wrote, up to the limit, whenever both
\* readers were waited for to their end: all of it when it decodes, and less than
\* what comes before the first that does not otherwise.
THEOREM OutputIsTrue == ShellSpec => []OutputTrue
BY OutputTells, OutputInvariant, PTL

-----------------------------------------------------------------------------
(* Both drivers                                                            *)

\* A command takes its steps, whatever the file driver is called for.
LEMMA ShellSteps == Spec => ShellInit /\ [][ShellNext]_shellVars
<1>1. Init => ShellInit
  BY DEF Init
<1>2. [Next]_vars => [ShellNext]_shellVars
  BY DEF Next, vars, ShellNext, InShell, InFiles
<1>. QED  BY <1>1, <1>2, PTL DEF Spec

\* And the other way round.
LEMMA FileSteps == Spec => FileSpec
<1>1. Init => FileInit
  BY DEF Init
<1>2. [Next]_vars => [FileNext]_fileVars
  BY DEF Next, vars, InShell, InFiles
<1>. QED  BY <1>1, <1>2, PTL DEF Spec, FileSpec

\* Every variable of the two drivers keeps its type.
THEOREM TypeCorrect == Spec => []TypeOK
<1>1. Init => driver \in {"shell", "files"}
  BY DEF Init
<1>2. driver \in {"shell", "files"} /\ [Next]_vars => (driver \in {"shell", "files"})'
  BY DEF Next, vars, InShell, InFiles
<1>3. ShellTypeOK /\ FileTypeOK /\ driver \in {"shell", "files"} => TypeOK
  BY DEF TypeOK
<1>4. ShellInit => PlaceTypes /\ CountTypes
  BY PlaceInit, CountInit
<1>5. PlaceTypes /\ CountTypes /\ [ShellNext]_shellVars => PlaceTypes' /\ CountTypes'
  BY PlaceKept, CountKept
<1>6. PlaceTypes /\ CountTypes => ShellTypeOK
  BY TwoTypes
<1>. QED
  BY <1>1, <1>2, <1>3, <1>4, <1>5, <1>6, ShellSteps, FileSteps, FileTypeCorrect, PTL DEF Spec

\* What is promised of each driver holds of a program that has both, for any
\* streams, workers, paths, sizes and limits.
THEOREM DriversKeepTheirPromises ==
  Spec => [](ReadToTheEnd /\ OutputTrue /\ WithinLimit /\ WholeContents /\ WritersMakeParents)
<1>1. OutputInv /\ [ShellNext]_shellVars => OutputInv'
  BY PlaceKept, CountKept, CountedKept, JoinsKept, AtEndKept DEF OutputInv
<1>2. OutputInv => ReadToTheEnd /\ OutputTrue
  BY OutputTells
<1>. QED
  BY <1>1, <1>2, OutputInit, ShellSteps, FileSteps, WithinTheLimit, ContentsAreWhole,
     ParentsAreMade, PTL
=============================================================================
