-------------------------- MODULE FileDriver_proofs --------------------------
(***************************************************************************)
(* What holds of the file driver for any workers, paths and limits: the    *)
(* types, that a file is within max_bytes unless an append raced, that     *)
(* writers make the directories they need, and that contents are whole.    *)
(***************************************************************************)
EXTENDS FileDriver, SequenceTheorems, FiniteSetTheorems, TLAPS

LEMMA WiderSeq ==
  ASSUME NEW A, NEW B, A \subseteq B, NEW s \in Seq(A)
  PROVE  s \in Seq(B)
<1>1. \A i \in 1..Len(s) : s[i] \in B
  BY ElementOfSeq
<1> QED
  BY <1>1

LEMMA ExceptKeepsSeq ==
  ASSUME NEW S, NEW s \in Seq(S), NEW i \in DOMAIN s, NEW x \in S
  PROVE  /\ [s EXCEPT ![i] = x] \in Seq(S)
         /\ DOMAIN [s EXCEPT ![i] = x] = DOMAIN s
BY LenProperties

\* What is written over the beginning of a file is as long as the longer.
LEMMA OverBeginning ==
  ASSUME NEW S, NEW old \in Seq(S), NEW new \in Seq(S)
  PROVE  /\ Over(old, 0, new) \in Seq(S)
         /\ Len(Over(old, 0, new)) = IF Len(new) < Len(old) THEN Len(old) ELSE Len(new)
<1>1. SubSeq(old, 1, 0) = << >>
  BY SubSeqEmpty
<1>2. \A i \in 1..Len(old) : old[i] \in S
  BY ElementOfSeq
<1>3. \A i \in (Len(new) + 1)..Len(old) : old[i] \in S
  BY <1>2
<1>4. /\ SubSeq(old, Len(new) + 1, Len(old)) \in Seq(S)
      /\ Len(SubSeq(old, Len(new) + 1, Len(old)))
           = IF Len(new) + 1 <= Len(old) THEN Len(old) - Len(new) ELSE 0
  BY <1>3, SubSeqProperties
<1>5. Over(old, 0, new) = (<< >> \o new) \o SubSeq(old, Len(new) + 1, Len(old))
  BY <1>1 DEF Over
<1> DEFINE rest == SubSeq(old, Len(new) + 1, Len(old))
<1>6. Over(old, 0, new) = new \o rest
  BY <1>5
<1> HIDE DEF rest
<1>7. rest \in Seq(S) /\ Len(rest) = IF Len(new) + 1 <= Len(old) THEN Len(old) - Len(new) ELSE 0
  BY <1>4 DEF rest
<1>8. new \o rest \in Seq(S) /\ Len(new \o rest) = Len(new) + Len(rest)
  BY <1>7
<1>9. Len(old) \in Nat /\ Len(new) \in Nat
  BY LenProperties
<1>10. Len(new) + Len(rest) = IF Len(new) < Len(old) THEN Len(old) ELSE Len(new)
  BY <1>7, <1>9
<1> QED
  BY <1>6, <1>8, <1>10

LEMMA PieceType ==
  ASSUME FileTypeOK, NEW w \in Worker, filepc[w] # "idle"
  PROVE  /\ Piece(w) \in Seq(DOMAIN sizes) /\ Len(Piece(w)) = op[w].size
         /\ op[w].size \in Nat
<1>1. PICK n \in DOMAIN sizes : op[w] \in Calls(n)
  BY DEF FileTypeOK, Call
<1>2. op[w].id = n /\ op[w].size \in Nat
  BY <1>1, FileAssumption DEF Calls
<1> QED
  BY <1>2 DEF Piece

-----------------------------------------------------------------------------
(* Types                                                                   *)

LEMMA FileTypeInit == FileInit => FileTypeOK
BY DEF FileInit, FileTypeOK, File

LEMMA BeginTypes ==
  ASSUME FileTypeOK, NEW w \in Worker, NEW c \in Calls(Len(sizes) + 1), Begin(w, c)
  PROVE  FileTypeOK'
<1>1. c.size \in Nat
  BY FileAssumption DEF Calls
<1>2. sizes' \in Seq(Nat) /\ Len(sizes') = Len(sizes) + 1
  <2>1. sizes' = Append(sizes, c.size) /\ sizes \in Seq(Nat)
    BY DEF Begin, FileTypeOK
  <2> QED
    BY <1>1, <2>1, AppendProperties
<1>3. DOMAIN sizes \subseteq DOMAIN sizes' /\ Len(sizes) + 1 \in DOMAIN sizes'
  <2>1. sizes \in Seq(Nat) /\ DOMAIN sizes = 1..Len(sizes) /\ DOMAIN sizes' = 1..Len(sizes')
    BY <1>2, LenProperties DEF FileTypeOK
  <2> QED
    BY <1>2, <2>1
<1>4. Call \subseteq Call' /\ c \in Call'
  BY <1>3 DEF Call, Calls
<1>5. data' \in Seq(Seq(DOMAIN sizes'))
  <2>1. \A f \in 1..Len(data) : data[f] \in Seq(DOMAIN sizes')
    <3>1. data \in Seq(Seq(DOMAIN sizes))
      BY DEF FileTypeOK
    <3> QED
      BY <1>3, <3>1, WiderSeq, ElementOfSeq
  <2>2. data' = data /\ data \in Seq(Seq(DOMAIN sizes))
    BY DEF Begin, FileTypeOK
  <2> QED
    BY <2>1, <2>2
<1>6. text' \in [Worker -> Seq(DOMAIN sizes')]
  BY <1>3, WiderSeq, ZenonT(60) DEF Begin, FileTypeOK
<1>7. /\ op' \in [Worker -> {NoCall} \cup Call']
      /\ \A v \in Worker : filepc'[v] # "idle" => op'[v] \in Call'
      /\ filepc' \in [Worker -> {"idle", "walk", "check", "transfer"}]
      /\ \A v \in Worker : filepc'[v] \in {"check", "transfer"} => filepc'[v] = filepc[v]
  <2>1. /\ op \in [Worker -> {NoCall} \cup Call']
        /\ \A v \in Worker : filepc[v] # "idle" => op[v] \in Call'
        /\ filepc \in [Worker -> {"idle", "walk", "check", "transfer"}]
    BY <1>4 DEF FileTypeOK
  <2>2. CASE Refused(c)
    BY <2>1, <2>2 DEF Begin
  <2>3. CASE ~Refused(c)
    BY <1>4, <2>1, <2>3 DEF Begin
  <2> QED
    BY <2>2, <2>3
<1>8. /\ made' \in [Worker -> {"no", "made", "dir", "file"}]
      /\ result' \in [Worker -> {"none", "done", "missing", "not a directory", "exists",
                                 "is a directory", "too large", "refused"}]
  BY DEF Begin, FileTypeOK
<1> QED
  BY <1>2, <1>5, <1>6, <1>7, <1>8 DEF Begin, FileTypeOK, File, fileHistory

\* However a call ends, and whatever it did to the files before.
LEMMA EndedTypes ==
  ASSUME FileTypeOK, NEW w \in Worker,
         NEW how \in {"done", "missing", "not a directory", "exists", "is a directory",
                      "too large"},
         Ended(w, how),
         data' \in Seq(Seq(DOMAIN sizes)), File \subseteq File',
         tree' \in [Place -> {Absent, Dir} \cup File'],
         stale' \subseteq Worker, raced' \subseteq File', mixed' \subseteq File'
  PROVE  FileTypeOK'
<1>1. sizes' = sizes /\ Call' = Call
  BY DEF Ended, Call, Calls
<1>2. /\ file' \in [Worker -> {0} \cup File'] /\ text' \in [Worker -> Seq(DOMAIN sizes')]
      /\ checked' \in [Worker -> Nat] /\ depth' \in [Worker -> Nat]
  <2>1. << >> \in Seq(DOMAIN sizes)
    BY EmptySeq
  <2> QED
    BY <1>1, <2>1 DEF Ended, FileTypeOK
<1>3. \A v \in Worker : filepc'[v] \in {"check", "transfer"} => file'[v] \in File'
  BY DEF Ended, FileTypeOK
<1>4. \A v \in Worker : filepc'[v] # "idle" => op'[v] \in Call'
  BY <1>1 DEF Ended, FileTypeOK
<1> QED
  BY <1>1, <1>2, <1>3, <1>4 DEF Ended, FileTypeOK

LEMMA EndTypes ==
  ASSUME FileTypeOK, NEW w \in Worker,
         NEW how \in {"done", "missing", "not a directory", "exists", "is a directory",
                      "too large"},
         End(w, how), UNCHANGED << tree, data >>
  PROVE  FileTypeOK'
BY EndedTypes DEF End, FileTypeOK, File

LEMMA WalkTypes ==
  ASSUME FileTypeOK, NEW w \in Worker, Mkdir(w) \/ OpenDir(w) \/ Delete(w) \/ Look(w)
  PROVE  FileTypeOK'
<1>1. CASE Mkdir(w)
  <2>1. PassesExisting
    BY DEF PassesExisting
  <2>2. /\ tree' \in [Place -> {Absent, Dir} \cup File]
        /\ made' \in [Worker -> {"no", "made", "dir", "file"}]
        /\ UNCHANGED << data, filepc, op, depth, file, text, result, sizes, fileHistory >>
    <3> DEFINE p == NextPart(w)
               found == CASE tree[p] = Absent -> "made"
                          [] tree[p] = Dir    -> "dir"
                          [] OTHER            -> "file"
    <3>1. /\ tree' = [tree EXCEPT ![p] = IF @ = Absent THEN Dir ELSE @]
          /\ made' = [made EXCEPT ![w] = found]
          /\ UNCHANGED << data, filepc, op, depth, file, text, result, sizes, fileHistory >>
      BY <1>1, <2>1 DEF Mkdir
    <3>2. found \in {"no", "made", "dir", "file"}
      OBVIOUS
    <3> HIDE DEF p, found
    <3>3. tree' \in [Place -> {Absent, Dir} \cup File]
      BY <3>1 DEF FileTypeOK
    <3>4. made' \in [Worker -> {"no", "made", "dir", "file"}]
      BY <3>1, <3>2 DEF FileTypeOK
    <3> QED
      BY <3>1, <3>3, <3>4
  <2> QED
    BY <2>2 DEF FileTypeOK, File, Call, Calls, fileHistory
<1>2. CASE OpenDir(w)
  <2>1. CASE tree[NextPart(w)] = Dir
    <3>1. /\ depth' = [depth EXCEPT ![w] = @ + 1] /\ made' = [made EXCEPT ![w] = "no"]
          /\ UNCHANGED << tree, data, filepc, op, file, text, result, sizes, fileHistory >>
      BY <1>2, <2>1 DEF OpenDir
    <3>2. depth' \in [Worker -> Nat] /\ made' \in [Worker -> {"no", "made", "dir", "file"}]
      <4>1. depth \in [Worker -> Nat] /\ made \in [Worker -> {"no", "made", "dir", "file"}]
        BY DEF FileTypeOK
      <4>2. depth[w] + 1 \in Nat
        BY <4>1
      <4> QED
        BY <3>1, <4>1, <4>2
    <3> QED
      BY <3>1, <3>2 DEF FileTypeOK, File, Call, Calls, fileHistory
  <2>2. CASE tree[NextPart(w)] # Dir
    BY <1>2, <2>2, EndTypes DEF OpenDir
  <2> QED
    BY <2>1, <2>2
<1>3. CASE Delete(w)
  <2>1. tree' \in [Place -> {Absent, Dir} \cup File]
    BY <1>3 DEF Delete, FileTypeOK
  <2>2. PICK how \in {"done", "missing", "is a directory"} : End(w, how)
    BY <1>3 DEF Delete
  <2>3. UNCHANGED data
    BY <1>3 DEF Delete
  <2> QED
    BY <2>1, <2>2, <2>3, EndedTypes DEF End, FileTypeOK, File
<1>4. CASE Look(w)
  BY <1>4, EndTypes DEF Look
<1> QED
  BY <1>1, <1>2, <1>3, <1>4

LEMMA OpenTypes ==
  ASSUME FileTypeOK, NEW w \in Worker, Open(w)
  PROVE  FileTypeOK'
<1> DEFINE there == tree[op[w].path]
           new   == there = Absent /\ op[w].kind \in Writes
           f     == IF new THEN Len(data) + 1 ELSE there
<1>1. op[w].path \in Place
  <2>1. op[w] \in Call
    BY DEF Open, AtLast, FileTypeOK
  <2>2. op[w].path \in Path
    BY <2>1 DEF Call, Calls
  <2>3. op[w].path = SubSeq(op[w].path, 1, Len(op[w].path)) /\ Len(op[w].path) \in Nat \ {0}
    BY <2>2, FileAssumption
  <2> QED
    BY <2>2, <2>3 DEF Place
<1>2. there \in {Absent, Dir} \cup File /\ data \in Seq(Seq(DOMAIN sizes))
  BY <1>1 DEF FileTypeOK
<1>3. CASE there = Dir \/ (there = Absent /\ ~new)
  BY <1>3, EndTypes DEF Open
<1>4. CASE ~(there = Dir \/ (there = Absent /\ ~new))
  <2>1. /\ tree' = [tree EXCEPT ![op[w].path] = f]
        /\ data' = IF new THEN Append(data, << >>)
                   ELSE IF op[w].kind = "write" THEN [data EXCEPT ![f] = << >>] ELSE data
        /\ stale' = IF op[w].kind = "write" THEN stale \cup Measurers(f) ELSE stale
        /\ file' = [file EXCEPT ![w] = f]
        /\ filepc' = [filepc EXCEPT ![w] = IF op[w].kind = "write" THEN "transfer" ELSE "check"]
        /\ UNCHANGED << op, depth, made, text, result, sizes, checked, raced, mixed >>
    BY <1>4 DEF Open
  <2> HIDE DEF there, new, f
  <2>2. << >> \in Seq(DOMAIN sizes) /\ Len(data) \in Nat /\ File = 1..Len(data)
    BY <1>2, EmptySeq, LenProperties DEF File
  <2>4. data' \in Seq(Seq(DOMAIN sizes)) /\ File \subseteq File' /\ f \in File'
    <3>1. CASE new
      <4>1. data' = Append(data, << >>)
        BY <2>1, <3>1
      <4>2. data' \in Seq(Seq(DOMAIN sizes)) /\ Len(data') = Len(data) + 1
        BY <1>2, <2>2, <4>1, AppendProperties
      <4>3. File' = 1..(Len(data) + 1) /\ f = Len(data) + 1
        BY <4>2, <3>1, LenProperties DEF File, f
      <4> QED
        BY <2>2, <4>2, <4>3
    <3>2. CASE ~new
      <4>1. f \in File
        BY <1>2, <1>4, <3>2 DEF f, new
      <4>2. data' \in {[data EXCEPT ![f] = << >>], data}
        BY <2>1, <3>2
      <4>3. [data EXCEPT ![f] = << >>] \in Seq(Seq(DOMAIN sizes))
             /\ DOMAIN [data EXCEPT ![f] = << >>] = File
        BY <1>2, <2>2, <4>1, ExceptKeepsSeq DEF File
      <4> QED
        BY <1>2, <4>1, <4>2, <4>3 DEF File
    <3> QED
      BY <3>1, <3>2
  <2>5. tree' \in [Place -> {Absent, Dir} \cup File'] /\ file' \in [Worker -> {0} \cup File']
    BY <2>1, <2>4 DEF FileTypeOK
  <2>6. /\ filepc' \in [Worker -> {"idle", "walk", "check", "transfer"}]
        /\ \A v \in Worker : filepc'[v] # "idle" => filepc[v] # "idle"
        /\ \A v \in Worker : filepc'[v] \in {"check", "transfer"} => file'[v] \in File'
    BY <2>1, <2>4 DEF FileTypeOK, Open, AtLast
  <2> QED
    BY <2>1, <2>4, <2>5, <2>6 DEF FileTypeOK, Call, Calls, Measurers
<1> QED
  BY <1>3, <1>4

\* A file that is written to, and nothing else of the tree.
LEMMA DataTypes ==
  ASSUME FileTypeOK, NEW f \in File, NEW contents \in Seq(DOMAIN sizes),
         data' = [data EXCEPT ![f] = contents]
  PROVE  /\ data' \in Seq(Seq(DOMAIN sizes)) /\ File' = File
         /\ data'[f] = contents /\ \A g \in File \ {f} : data'[g] = data[g]
<1>1. data \in Seq(Seq(DOMAIN sizes)) /\ f \in DOMAIN data
  BY DEF FileTypeOK, File
<1> QED
  BY <1>1, ExceptKeepsSeq DEF File

LEMMA ContentsType ==
  ASSUME FileTypeOK, NEW f \in File
  PROVE  data[f] \in Seq(DOMAIN sizes)
<1>1. data \in Seq(Seq(DOMAIN sizes)) /\ f \in 1..Len(data)
  BY LenProperties DEF FileTypeOK, File
<1> QED
  BY <1>1, ElementOfSeq

LEMMA WriteEffect ==
  ASSUME FileTypeOK, NEW w \in Worker, Write(w)
  PROVE  /\ data' \in Seq(Seq(DOMAIN sizes)) /\ File' = File /\ file[w] \in File
         /\ \A g \in File \ {file[w]} : data'[g] = data[g]
         /\ op[w].kind = "append" =>
              Len(data'[file[w]]) = Len(data[file[w]]) + op[w].size
         /\ op[w].kind = "write" =>
              Len(data'[file[w]]) = IF op[w].size < Len(data[file[w]])
                                    THEN Len(data[file[w]]) ELSE op[w].size
<1>1. file[w] \in File /\ filepc[w] # "idle"
  BY DEF Write, FileTypeOK
<1> DEFINE old == data[file[w]]
<1>2. /\ old \in Seq(DOMAIN sizes) /\ Piece(w) \in Seq(DOMAIN sizes)
      /\ Len(Piece(w)) = op[w].size
  BY <1>1, ContentsType, PieceType
<1>3. CASE op[w].kind = "append"
  <2>1. data' = [data EXCEPT ![file[w]] = old \o Piece(w)]
    BY <1>1, <1>3 DEF Write, Appended, FileTypeOK
  <2>2. /\ old \o Piece(w) \in Seq(DOMAIN sizes)
        /\ Len(old \o Piece(w)) = Len(old) + Len(Piece(w))
    <3> HIDE DEF old
    <3> QED
      BY <1>2, ConcatProperties
  <2> QED
    BY <1>1, <1>2, <1>3, <2>1, <2>2, DataTypes
<1>4. CASE op[w].kind = "write"
  <2>1. data' = [data EXCEPT ![file[w]] = Over(old, 0, Piece(w))]
    BY <1>1, <1>4 DEF Write, FileTypeOK
  <2>2. /\ Over(old, 0, Piece(w)) \in Seq(DOMAIN sizes)
        /\ Len(Over(old, 0, Piece(w))) = IF op[w].size < Len(old) THEN Len(old) ELSE op[w].size
    BY <1>2, OverBeginning
  <2> QED
    BY <1>1, <1>4, <2>1, <2>2, DataTypes
<1> QED
  BY <1>3, <1>4 DEF Write, Writes

LEMMA WriteTypes ==
  ASSUME FileTypeOK, NEW w \in Worker, Write(w)
  PROVE  FileTypeOK'
<1>1. /\ Ended(w, "done") /\ UNCHANGED tree
      /\ stale' = (stale \cup Measurers(file[w])) \ {w}
      /\ raced' \in {raced, raced \cup {file[w]}} /\ mixed' \in {mixed, mixed \cup {file[w]}}
  BY DEF Write
<1>2. data' \in Seq(Seq(DOMAIN sizes)) /\ File' = File /\ file[w] \in File
  BY WriteEffect
<1>3. tree' \in [Place -> {Absent, Dir} \cup File'] /\ stale' \subseteq Worker
  BY <1>1, <1>2 DEF FileTypeOK, Measurers
<1>4. raced' \subseteq File' /\ mixed' \subseteq File'
  BY <1>1, <1>2 DEF FileTypeOK
<1> QED
  BY <1>1, <1>2, <1>3, <1>4, EndedTypes

\* What is there and not yet read, and the text with it.
LEMMA ReadEffect ==
  ASSUME FileTypeOK, NEW w \in Worker, ReadAll(w)
  PROVE  /\ UNCHANGED << tree, data, op, sizes >>
         /\ \/ End(w, "done")
            \/ /\ UNCHANGED << filepc, depth, made, file, result, fileHistory >>
               /\ text' \in [Worker -> Seq(DOMAIN sizes)]
               /\ \A v \in Worker \ {w} : text'[v] = text[v]
               /\ Len(text[w]) <= Len(data[file[w]]) => Len(text'[w]) = Len(data[file[w]])
<1> DEFINE all  == data[file[w]]
           rest == SubSeq(all, Len(text[w]) + 1, Len(all))
<1>1. file[w] \in File
  BY DEF ReadAll, FileTypeOK
<1>2. all \in Seq(DOMAIN sizes) /\ text[w] \in Seq(DOMAIN sizes)
  BY <1>1, ContentsType DEF FileTypeOK
<1>3. CASE rest = << >>
  BY <1>3 DEF ReadAll, End, Ended
<1>4. CASE rest # << >>
  <2>1. /\ text' = [text EXCEPT ![w] = text[w] \o rest]
        /\ UNCHANGED << tree, data, filepc, op, depth, made, file, result, sizes, fileHistory >>
    BY <1>4 DEF ReadAll
  <2> HIDE DEF all
  <2>2. Len(all) \in Nat /\ Len(text[w]) \in Nat /\ \A i \in 1..Len(all) : all[i] \in DOMAIN sizes
    BY <1>2, LenProperties, ElementOfSeq
  <2>3. /\ rest \in Seq(DOMAIN sizes)
        /\ Len(rest) = IF Len(text[w]) + 1 <= Len(all) THEN Len(all) - Len(text[w]) ELSE 0
    <3>1. PICK m \in Int : m = Len(text[w]) + 1
      BY <2>2
    <3>2. (\A i \in m..Len(all) : all[i] \in DOMAIN sizes) /\ Len(all) \in Int
      BY <2>2, <3>1
    <3>3. /\ SubSeq(all, m, Len(all)) \in Seq(DOMAIN sizes)
          /\ Len(SubSeq(all, m, Len(all))) = IF m <= Len(all) THEN Len(all) - m + 1 ELSE 0
      BY <3>2, SubSeqProperties
    <3>4. rest = SubSeq(all, m, Len(all))
      BY <3>1
    <3> HIDE DEF rest
    <3>5. /\ rest \in Seq(DOMAIN sizes)
          /\ Len(rest) = IF m <= Len(all) THEN Len(all) - m + 1 ELSE 0
      BY <3>3, <3>4
    <3>6. m <= Len(all) => Len(all) - m + 1 = Len(all) - Len(text[w])
      BY <2>2, <3>1
    <3> QED
      BY <3>1, <3>5, <3>6
  <2> HIDE DEF rest
  <2>4. /\ text[w] \o rest \in Seq(DOMAIN sizes)
        /\ Len(text[w] \o rest) = Len(text[w]) + Len(rest)
    BY <1>2, <2>3, ConcatProperties
  <2>5. /\ text' \in [Worker -> Seq(DOMAIN sizes)]
        /\ text'[w] = text[w] \o rest /\ \A v \in Worker \ {w} : text'[v] = text[v]
    BY <2>1, <2>4 DEF FileTypeOK
  <2>6. Len(text[w]) <= Len(all) => Len(text'[w]) = Len(all)
    BY <2>2, <2>3, <2>4, <2>5
  <2> QED
    BY <2>1, <2>5, <2>6 DEF all
<1> QED
  BY <1>3, <1>4

LEMMA CheckTypes ==
  ASSUME FileTypeOK, NEW w \in Worker, Check(w) \/ ReadAll(w)
  PROVE  FileTypeOK'
<1>1. CASE Check(w)
  <2>1. CASE Measured(w) + op[w].size > MaxBytes
    BY <1>1, <2>1, EndTypes DEF Check
  <2>2. CASE ~(Measured(w) + op[w].size > MaxBytes)
    <3>1. /\ filepc' = [filepc EXCEPT ![w] = "transfer"]
          /\ checked' = [checked EXCEPT ![w] = Len(data[file[w]])]
          /\ filepc[w] = "check" /\ file[w] \in File
          /\ UNCHANGED << tree, data, op, depth, made, file, text, result, sizes, stale,
                          raced, mixed >>
      BY <1>1, <2>2 DEF Check, FileTypeOK
    <3>2. Len(data[file[w]]) \in Nat
      BY <3>1, ContentsType, LenProperties
    <3>3. /\ checked' \in [Worker -> Nat]
          /\ filepc' \in [Worker -> {"idle", "walk", "check", "transfer"}]
          /\ \A v \in Worker : filepc'[v] \in {"check", "transfer"} => file'[v] \in File
          /\ \A v \in Worker : filepc'[v] # "idle" => op[v] \in Call
      BY <3>1, <3>2 DEF FileTypeOK
    <3> QED
      BY <3>1, <3>3 DEF FileTypeOK, File, Call, Calls
  <2> QED
    BY <2>1, <2>2
<1>2. CASE ReadAll(w)
  <2>1. CASE End(w, "done")
    BY <1>2, <2>1, ReadEffect, EndTypes
  <2>2. CASE ~End(w, "done")
    BY <1>2, <2>2, ReadEffect DEF FileTypeOK, File, Call, Calls, fileHistory
  <2> QED
    BY <2>1, <2>2
<1> QED
  BY <1>1, <1>2

\* Every variable of the file driver keeps its type.
THEOREM FileTypeCorrect == FileSpec => []FileTypeOK
<1>1. FileTypeOK /\ [FileNext]_fileVars => FileTypeOK'
  <2>1. FileTypeOK /\ UNCHANGED fileVars => FileTypeOK'
    BY DEF fileVars, fileHistory, FileTypeOK, File, Call, Calls
  <2> QED
    BY <2>1, BeginTypes, WalkTypes, OpenTypes, CheckTypes, WriteTypes DEF FileNext
<1> QED
  BY <1>1, FileTypeInit, PTL DEF FileSpec

-----------------------------------------------------------------------------
(* The limit                                                               *)

\* What a call is to write is within the limit, what an append has measured
\* leaves room for it, and what is read is within what was measured, as long
\* as nobody changed the file.
Measures ==
  \A w \in Worker :
    /\ filepc[w] # "idle" => op[w].size <= MaxBytes
    /\ filepc[w] # "transfer" => text[w] = << >>
    /\ filepc[w] = "transfer" /\ op[w].kind # "read" => text[w] = << >>
    /\ filepc[w] = "transfer" /\ op[w].kind \in {"append", "read"} /\ w \notin stale =>
         /\ checked[w] = Len(data[file[w]]) /\ checked[w] + op[w].size <= MaxBytes
         /\ Len(text[w]) <= checked[w]

FilesWithin == \A f \in File \ raced : Len(data[f]) <= MaxBytes

LimitInv == FileTypeOK /\ FilesWithin /\ Measures

LEMMA LimitInit == FileInit => LimitInv
<1>1. FileInit => FileTypeOK
  BY FileTypeInit
<1>2. FileInit => FilesWithin /\ Measures
  BY FileAssumption DEF FileInit, FilesWithin, Measures, File
<1> QED
  BY <1>1, <1>2 DEF LimitInv

\* What a text is within, whoever has it.
LEMMA TextsFollow ==
  ASSUME FileTypeOK, Measures
  PROVE  \A w \in Worker \ stale : Len(text[w]) <= MaxBytes
<1> SUFFICES ASSUME NEW w \in Worker \ stale
             PROVE  Len(text[w]) <= MaxBytes
  OBVIOUS
<1>1. Len(<< >>) <= MaxBytes /\ Len(text[w]) \in Nat
  <2>1. text[w] \in Seq(DOMAIN sizes) /\ Len(<< >>) = 0
    BY DEF FileTypeOK
  <2> QED
    BY <2>1, FileAssumption, LenProperties
<1>2. CASE filepc[w] = "transfer" /\ op[w].kind = "read"
  <2>1. Len(text[w]) <= checked[w] /\ checked[w] + op[w].size <= MaxBytes
    BY <1>2 DEF Measures
  <2>2. checked[w] \in Nat /\ op[w].size \in Nat
    BY <1>2, PieceType DEF FileTypeOK
  <2> QED
    BY <1>1, <2>1, <2>2, FileAssumption
<1> QED
  BY <1>1, <1>2 DEF Measures

\* A call that ends, or one that goes on, without a change to any file.
LEMMA QuietEnd ==
  ASSUME LimitInv, FileTypeOK', NEW w \in Worker, NEW how, End(w, how), UNCHANGED data
  PROVE  LimitInv'
<1>1. \A v \in Worker \ {w} :
        /\ filepc'[v] = filepc[v] /\ text'[v] = text[v] /\ checked'[v] = checked[v]
        /\ file'[v] = file[v] /\ op'[v] = op[v] /\ (v \in stale' <=> v \in stale)
  BY ZenonT(60) DEF End, Ended, LimitInv, FileTypeOK
<1>2. filepc'[w] = "idle" /\ text'[w] = << >>
  BY ZenonT(60) DEF End, Ended, LimitInv, FileTypeOK
<1>3. Measures'
  BY <1>1, <1>2 DEF LimitInv, Measures
<1>4. FilesWithin'
  BY DEF LimitInv, FilesWithin, End, File
<1> QED
  BY <1>3, <1>4 DEF LimitInv

LEMMA BeginLimit ==
  ASSUME LimitInv, FileTypeOK', NEW w \in Worker, NEW c \in Calls(Len(sizes) + 1), Begin(w, c)
  PROVE  LimitInv'
<1>1. filepc[w] = "idle" /\ UNCHANGED << data, text, file, checked, stale, raced >>
  BY DEF Begin, fileHistory
<1>2. /\ \A v \in Worker \ {w} : filepc'[v] = filepc[v] /\ op'[v] = op[v]
      /\ filepc'[w] \in {"idle", "walk"}
      /\ filepc'[w] # "idle" => op'[w].size <= MaxBytes
  <2>1. CASE Refused(c)
    BY <1>1, <2>1 DEF Begin
  <2>2. CASE ~Refused(c)
    <3>1. c.size <= MaxBytes
      <4>1. c.size \in Nat /\ MaxBytes \in Nat
        BY FileAssumption DEF Calls
      <4> QED
        BY <2>2, <4>1 DEF Refused
    <3>2. filepc' = [filepc EXCEPT ![w] = "walk"] /\ op' = [op EXCEPT ![w] = c]
      BY <2>2 DEF Begin
    <3>3. filepc \in [Worker -> {"idle", "walk", "check", "transfer"}]
          /\ op \in [Worker -> {NoCall} \cup Call]
      BY DEF LimitInv, FileTypeOK
    <3>4. filepc'[w] = "walk" /\ op'[w] = c
      BY <3>2, <3>3
    <3>5. \A v \in Worker \ {w} : filepc'[v] = filepc[v] /\ op'[v] = op[v]
      BY <3>2, <3>3
    <3> QED
      BY <3>1, <3>4, <3>5
  <2> QED
    BY <2>1, <2>2
<1>3. Measures'
  BY <1>1, <1>2 DEF LimitInv, Measures
<1>4. FilesWithin'
  BY <1>1 DEF LimitInv, FilesWithin, File
<1> QED
  BY <1>3, <1>4 DEF LimitInv

\* A step on the way to the file.
LEMMA WalkLimit ==
  ASSUME LimitInv, FileTypeOK', NEW w \in Worker,
         Mkdir(w) \/ OpenDir(w) \/ Delete(w) \/ Look(w)
  PROVE  LimitInv'
<1>1. UNCHANGED data
  BY DEF Mkdir, OpenDir, Delete, Look
<1>2. (\E how : End(w, how)) \/ UNCHANGED << filepc, op, file, text, fileHistory >>
  BY DEF Mkdir, OpenDir, Delete, Look, PassesExisting
<1>3. CASE \E how : End(w, how)
  BY <1>1, <1>3, QuietEnd
<1>4. CASE UNCHANGED << filepc, op, file, text, fileHistory >>
  BY <1>1, <1>4 DEF LimitInv, Measures, FilesWithin, File, fileHistory
<1> QED
  BY <1>2, <1>3, <1>4

LEMMA CheckLimit ==
  ASSUME LimitInv, FileTypeOK', NEW w \in Worker, Check(w)
  PROVE  LimitInv'
<1>1. UNCHANGED data
  BY DEF Check
<1>2. CASE Measured(w) + op[w].size > MaxBytes
  BY <1>1, <1>2, QuietEnd DEF Check
<1>3. CASE ~(Measured(w) + op[w].size > MaxBytes)
  <2>1. /\ filepc[w] = "check"
        /\ filepc' = [filepc EXCEPT ![w] = "transfer"]
        /\ checked' = [checked EXCEPT ![w] = Len(data[file[w]])]
        /\ UNCHANGED << op, file, text, stale, raced >>
    BY <1>3 DEF Check
  <2>2. op[w].size \in Nat /\ Len(data[file[w]]) \in Nat /\ MaxBytes \in Nat
    <3>1. file[w] \in File
      BY <2>1 DEF LimitInv, FileTypeOK
    <3> QED
      BY <2>1, <3>1, PieceType, ContentsType, LenProperties, FileAssumption DEF LimitInv
  <2>3. /\ checked'[w] = Len(data'[file'[w]]) /\ checked'[w] + op'[w].size <= MaxBytes
        /\ text'[w] = << >> /\ Len(text'[w]) <= checked'[w] /\ filepc'[w] = "transfer"
        /\ op'[w].size <= MaxBytes
    <3>1. text[w] = << >> /\ Len(<< >>) = 0
      BY <2>1 DEF LimitInv, Measures
    <3>2. Len(data[file[w]]) + op[w].size <= MaxBytes
      BY <1>3, <2>2 DEF Measured
    <3>3. filepc'[w] = "transfer" /\ checked'[w] = Len(data[file[w]])
      BY <2>1 DEF LimitInv, FileTypeOK
    <3>4. op[w].size <= MaxBytes
      BY <2>1 DEF LimitInv, Measures
    <3> QED
      BY <1>1, <2>1, <2>2, <3>1, <3>2, <3>3, <3>4
  <2>4. \A v \in Worker \ {w} : filepc'[v] = filepc[v] /\ checked'[v] = checked[v]
    BY <2>1 DEF LimitInv, FileTypeOK
  <2>5. Measures'
    BY <1>1, <2>1, <2>3, <2>4 DEF LimitInv, Measures
  <2>6. FilesWithin'
    BY <1>1, <2>1 DEF LimitInv, FilesWithin, File
  <2> QED
    BY <2>5, <2>6 DEF LimitInv
<1> QED
  BY <1>2, <1>3

LEMMA ReadLimit ==
  ASSUME LimitInv, FileTypeOK', NEW w \in Worker, ReadAll(w)
  PROVE  LimitInv'
<1>1. UNCHANGED << data, op >> /\ filepc[w] = "transfer" /\ op[w].kind = "read"
  BY ReadEffect DEF LimitInv, ReadAll
<1>2. CASE End(w, "done")
  BY <1>1, <1>2, QuietEnd
<1>3. CASE ~End(w, "done")
  <2>1. /\ UNCHANGED << filepc, file, checked, stale, raced >>
        /\ \A v \in Worker \ {w} : text'[v] = text[v]
        /\ Len(text[w]) <= Len(data[file[w]]) => Len(text'[w]) = Len(data[file[w]])
    BY <1>3, ReadEffect DEF LimitInv, fileHistory
  <2>2. w \notin stale => Len(text'[w]) <= checked'[w]
    <3>1. w \notin stale => checked[w] = Len(data[file[w]]) /\ Len(text[w]) <= checked[w]
      BY <1>1 DEF LimitInv, Measures
    <3>2. checked[w] \in Nat
      BY DEF LimitInv, FileTypeOK
    <3> QED
      BY <2>1, <3>1, <3>2
  <2>3. Measures'
    BY <1>1, <2>1, <2>2 DEF LimitInv, Measures
  <2>4. FilesWithin'
    BY <1>1, <2>1 DEF LimitInv, FilesWithin, File
  <2> QED
    BY <2>3, <2>4 DEF LimitInv
<1> QED
  BY <1>2, <1>3

LEMMA OpenLimit ==
  ASSUME LimitInv, FileTypeOK', NEW w \in Worker, Open(w)
  PROVE  LimitInv'
<1> DEFINE there == tree[op[w].path]
           new   == there = Absent /\ op[w].kind \in Writes
           f     == IF new THEN Len(data) + 1 ELSE there
<1>1. CASE there = Dir \/ (there = Absent /\ ~new)
  BY <1>1, QuietEnd DEF Open
<1>2. CASE ~(there = Dir \/ (there = Absent /\ ~new))
  <2>1. /\ data' = IF new THEN Append(data, << >>)
                   ELSE IF op[w].kind = "write" THEN [data EXCEPT ![f] = << >>] ELSE data
        /\ stale' = IF op[w].kind = "write" THEN stale \cup Measurers(f) ELSE stale
        /\ file' = [file EXCEPT ![w] = f]
        /\ filepc[w] = "walk"
        /\ filepc' = [filepc EXCEPT ![w] = IF op[w].kind = "write" THEN "transfer" ELSE "check"]
        /\ UNCHANGED << op, text, checked, raced >>
    BY <1>2 DEF Open, AtLast
  <2> HIDE DEF there, new, f
  <2>2. \A v \in Worker \ {w} : filepc'[v] = filepc[v] /\ file'[v] = file[v]
    BY <2>1, ZenonT(60) DEF LimitInv, FileTypeOK
  <2>3. /\ filepc'[w] \in {"check", "transfer"} /\ op'[w] = op[w] /\ op[w].size <= MaxBytes
        /\ filepc'[w] = "transfer" => op[w].kind = "write"
        /\ text'[w] = << >>
    <3>1. text[w] = << >> /\ op[w].size <= MaxBytes
      BY <2>1 DEF LimitInv, Measures
    <3> QED
      BY <2>1, <3>1 DEF LimitInv, FileTypeOK
  <2>4. data \in Seq(Seq(DOMAIN sizes)) /\ Len(data) \in Nat /\ File = 1..Len(data)
    BY LenProperties DEF LimitInv, FileTypeOK, File
  <2>5. /\ \A g \in File : data'[g] = data[g] \/ (data'[g] = << >> /\ g = f
                                                /\ op[w].kind = "write")
        /\ \A g \in File' \ File : data'[g] = << >>
    <3>1. CASE new
      <4>1. data' = Append(data, << >>) /\ << >> \in Seq(DOMAIN sizes)
        BY <2>1, <3>1
      <4>2. /\ Len(data') = Len(data) + 1 /\ data' \in Seq(Seq(DOMAIN sizes))
            /\ \A g \in 1..Len(data) : data'[g] = data[g]
            /\ data'[Len(data) + 1] = << >>
        BY <2>4, <4>1, AppendProperties
      <4>3. File' = 1..(Len(data) + 1)
        BY <4>2, LenProperties DEF File
      <4> QED
        BY <2>4, <4>2, <4>3
    <3>2. CASE ~new /\ op[w].kind = "write"
      <4>1. data' = [data EXCEPT ![f] = << >>]
        BY <2>1, <3>2
      <4> QED
        BY <2>4, <3>2, <4>1 DEF File
    <3>3. CASE ~new /\ op[w].kind # "write"
      BY <2>1, <3>3 DEF File
    <3> QED
      BY <3>1, <3>2, <3>3
  <2>6. FilesWithin'
    <3>1. Len(<< >>) <= MaxBytes
      BY FileAssumption
    <3> QED
      BY <2>1, <2>5, <3>1 DEF LimitInv, FilesWithin
  <2>7. \A v \in Worker \ {w} : filepc[v] = "transfer" /\ v \notin stale' =>
           v \notin stale /\ data'[file[v]] = data[file[v]]
    <3>1. \A v \in Worker \ {w} : filepc[v] = "transfer" => file[v] \in File
      BY DEF LimitInv, FileTypeOK
    <3> QED
      BY <2>1, <2>5, <3>1 DEF Measurers
  <2>8. Measures'
    <3> SUFFICES ASSUME NEW v \in Worker
                 PROVE  /\ filepc'[v] # "idle" => op'[v].size <= MaxBytes
                        /\ filepc'[v] # "transfer" => text'[v] = << >>
                        /\ filepc'[v] = "transfer" /\ op'[v].kind # "read" => text'[v] = << >>
                        /\ filepc'[v] = "transfer" /\ op'[v].kind \in {"append", "read"}
                             /\ v \notin stale' =>
                               /\ checked'[v] = Len(data'[file'[v]])
                               /\ checked'[v] + op'[v].size <= MaxBytes
                               /\ Len(text'[v]) <= checked'[v]
      BY DEF Measures
    <3>1. CASE v = w
      BY <2>3, <3>1
    <3>2. CASE v # w
      <4>1. /\ filepc'[v] = filepc[v] /\ file'[v] = file[v]
            /\ op' = op /\ text' = text /\ checked' = checked
        BY <2>1, <2>2, <3>2
      <4>2. filepc[v] = "transfer" /\ v \notin stale' =>
               v \notin stale /\ data'[file[v]] = data[file[v]]
        BY <2>7, <3>2
      <4> QED
        BY <4>1, <4>2 DEF LimitInv, Measures
    <3> QED
      BY <3>1, <3>2
  <2> QED
    BY <2>6, <2>8 DEF LimitInv
<1> QED
  BY <1>1, <1>2

LEMMA WriteLimit ==
  ASSUME LimitInv, FileTypeOK', NEW w \in Worker, Write(w)
  PROVE  LimitInv'
<1>1. /\ filepc[w] = "transfer" /\ op[w].kind \in Writes /\ Ended(w, "done")
      /\ raced' = IF op[w].kind = "append" /\ w \in stale THEN raced \cup {file[w]} ELSE raced
      /\ stale' = (stale \cup Measurers(file[w])) \ {w}
  BY DEF Write
<1>2. /\ File' = File /\ file[w] \in File
      /\ \A g \in File \ {file[w]} : data'[g] = data[g]
  BY WriteEffect DEF LimitInv
<1>3. /\ Len(data[file[w]]) \in Nat /\ op[w].size \in Nat /\ MaxBytes \in Nat
      /\ op[w].size <= MaxBytes
  BY <1>1, <1>2, ContentsType, LenProperties, PieceType, FileAssumption DEF LimitInv, Measures
<1>4. file[w] \notin raced' => Len(data'[file[w]]) <= MaxBytes
  <2>1. CASE op[w].kind = "append"
    <3>1. Len(data'[file[w]]) = Len(data[file[w]]) + op[w].size
      BY <2>1, WriteEffect DEF LimitInv
    <3>2. w \notin stale => Len(data[file[w]]) + op[w].size <= MaxBytes
      BY <1>1, <2>1 DEF LimitInv, Measures
    <3> QED
      BY <1>1, <2>1, <3>1, <3>2
  <2>2. CASE op[w].kind = "write"
    <3>1. Len(data'[file[w]]) = IF op[w].size < Len(data[file[w]])
                                THEN Len(data[file[w]]) ELSE op[w].size
      BY <2>2, WriteEffect DEF LimitInv
    <3>2. file[w] \notin raced => Len(data[file[w]]) <= MaxBytes
      BY <1>2 DEF LimitInv, FilesWithin
    <3> QED
      BY <1>1, <1>3, <2>2, <3>1, <3>2
  <2> QED
    BY <1>1, <2>1, <2>2 DEF Writes
<1>5. FilesWithin'
  BY <1>1, <1>2, <1>4 DEF LimitInv, FilesWithin
<1>6. /\ filepc'[w] = "idle" /\ text'[w] = << >>
      /\ \A v \in Worker \ {w} :
           /\ filepc'[v] = filepc[v] /\ text'[v] = text[v] /\ checked'[v] = checked[v]
           /\ file'[v] = file[v] /\ op'[v] = op[v]
  <2>1. /\ filepc' = [filepc EXCEPT ![w] = "idle"] /\ text' = [text EXCEPT ![w] = << >>]
        /\ checked' = [checked EXCEPT ![w] = 0] /\ file' = [file EXCEPT ![w] = 0]
        /\ op' = op
    BY <1>1 DEF Ended
  <2>2. /\ DOMAIN filepc = Worker /\ DOMAIN text = Worker
        /\ DOMAIN checked = Worker /\ DOMAIN file = Worker
    BY DEF LimitInv, FileTypeOK
  <2> QED
    BY <2>1, <2>2
<1>7. \A v \in Worker \ {w} : filepc[v] = "transfer" /\ v \notin stale' =>
         v \notin stale /\ data'[file[v]] = data[file[v]]
  <2>1. \A v \in Worker \ {w} : filepc[v] = "transfer" => file[v] \in File
    BY DEF LimitInv, FileTypeOK
  <2> QED
    BY <1>1, <1>2, <2>1 DEF Measurers
<1>8. Measures'
  BY <1>6, <1>7 DEF LimitInv, Measures
<1> QED
  BY <1>5, <1>8 DEF LimitInv

\* What each call has measured still bounds its file, unless that changed.
THEOREM LimitInvariant == FileSpec => []LimitInv
<1>1. LimitInv /\ FileTypeOK' /\ [FileNext]_fileVars => LimitInv'
  <2>1. LimitInv /\ FileTypeOK' /\ UNCHANGED fileVars => LimitInv'
    BY DEF fileVars, fileHistory, LimitInv, FilesWithin, Measures, File
  <2> QED
    BY <2>1, BeginLimit, WalkLimit, OpenLimit, CheckLimit, WriteLimit, ReadLimit DEF FileNext
<1> QED
  BY <1>1, LimitInit, FileTypeCorrect, PTL DEF FileSpec

\* No file is longer than max_bytes, and no text read is, but where somebody
\* changed the file between a call's measure of it and what the call then did;
\* for any workers, paths, sizes and numbers of calls.
THEOREM WithinTheLimit == FileSpec => []WithinLimit
<1>1. LimitInv => WithinLimit
  BY TextsFollow DEF LimitInv, FilesWithin, WithinLimit
<1> QED
  BY <1>1, LimitInvariant, PTL

-----------------------------------------------------------------------------
(* Parent directories                                                      *)

\* A call has no result while it goes on, and the directory that it made or found
\* on its way is there until it has opened it: no call takes a directory away.
MakesInv ==
  /\ \A w \in Worker :
       /\ filepc[w] # "idle" => result[w] = "none"
       /\ filepc[w] = "walk" /\ made[w] \in {"made", "dir"} =>
            Walking(w) /\ tree[NextPart(w)] = Dir
  /\ WritersMakeParents

LEMMA PathInPlace ==
  ASSUME FileTypeOK, NEW w \in Worker, filepc[w] = "walk"
  PROVE  /\ op[w] \in Call /\ op[w].path \in Place
         /\ Walking(w) => NextPart(w) \in Place
<1>1. op[w] \in Call /\ op[w].path \in Path
  <2>1. op[w] \in Call
    BY DEF FileTypeOK
  <2>. QED  BY <2>1 DEF Call, Calls
<1>2. /\ op[w].path = SubSeq(op[w].path, 1, Len(op[w].path)) /\ Len(op[w].path) \in Nat \ {0}
      /\ depth[w] \in Nat
  <2>1. depth[w] \in Nat
    BY DEF FileTypeOK
  <2>. QED  BY <1>1, <2>1, FileAssumption
<1>3. op[w].path \in Place
  BY <1>1, <1>2 DEF Place
<1>4. ASSUME Walking(w) PROVE NextPart(w) \in Place
  <2>1. depth[w] + 1 \in 1..Len(op[w].path)
    BY <1>2, <1>4 DEF Walking, Opened
  <2>. QED  BY <1>1, <2>1 DEF NextPart, Place
<1>. QED  BY <1>1, <1>3, <1>4

\* What goes on in one call makes no directory of another's vanish.
LEMMA OthersMake ==
  ASSUME FileTypeOK, MakesInv, NEW w \in Worker,
         \A p \in Place : tree[p] = Dir => tree'[p] = Dir,
         \A v \in Worker \ {w} : UNCHANGED << op[v], filepc[v], depth[v], made[v], result[v] >>,
         filepc'[w] # "idle" => result'[w] = "none",
         filepc'[w] = "walk" /\ made'[w] \in {"made", "dir"} =>
           Walking(w)' /\ tree'[NextPart(w)'] = Dir,
         result'[w] \in {"missing", "exists"} /\ op'[w].kind \in Writes => made'[w] = "file"
  PROVE  MakesInv'
<1>1. ASSUME NEW v \in Worker \ {w}
      PROVE  /\ filepc'[v] # "idle" => result'[v] = "none"
             /\ filepc'[v] = "walk" /\ made'[v] \in {"made", "dir"} =>
                  Walking(v)' /\ tree'[NextPart(v)'] = Dir
             /\ result'[v] \in {"missing", "exists"} /\ op'[v].kind \in Writes => made'[v] = "file"
  <2>1. Walking(v)' <=> Walking(v)
    BY DEF Walking, Opened
  <2>2. NextPart(v)' = NextPart(v)
    BY DEF NextPart
  <2>. QED  BY <2>1, <2>2, PathInPlace DEF MakesInv, WritersMakeParents
<1>. QED  BY <1>1 DEF MakesInv, WritersMakeParents

LEMMA EndMakes ==
  ASSUME FileTypeOK, MakesInv, NEW w \in Worker, NEW how, Ended(w, how), filepc[w] # "idle",
         \A p \in Place : tree[p] = Dir => tree'[p] = Dir,
         how \in {"missing", "exists"} /\ op[w].kind \in Writes => made[w] = "file"
  PROVE  MakesInv'
<1>1. /\ filepc' = [filepc EXCEPT ![w] = "idle"] /\ result' = [result EXCEPT ![w] = how]
      /\ depth' = [depth EXCEPT ![w] = 0] /\ UNCHANGED << op, made >>
      /\ DOMAIN filepc = Worker /\ DOMAIN result = Worker /\ DOMAIN depth = Worker
  BY DEF Ended, FileTypeOK
<1>. QED  BY <1>1, OthersMake

LEMMA MakesStep ==
  ASSUME FileTypeOK, MakesInv, [FileNext]_fileVars
  PROVE  MakesInv'
<1>0. /\ tree \in [Place -> {Absent, Dir} \cup File] /\ Dir \notin File /\ Absent # Dir
      /\ \A i \in Nat : i # Dir
      /\ filepc \in [Worker -> {"idle", "walk", "check", "transfer"}]
      /\ DOMAIN op = Worker /\ DOMAIN depth = Worker /\ DOMAIN made = Worker
      /\ DOMAIN result = Worker
  <2>1. /\ tree \in [Place -> {Absent, Dir} \cup File]
        /\ filepc \in [Worker -> {"idle", "walk", "check", "transfer"}]
        /\ DOMAIN op = Worker /\ DOMAIN depth = Worker /\ DOMAIN made = Worker
        /\ DOMAIN result = Worker
    BY DEF FileTypeOK
  <2>2. File \subseteq Nat
    <3>1. data \in Seq(Seq(DOMAIN sizes))
      BY DEF FileTypeOK
    <3>. QED  BY <3>1, LenProperties DEF File
  <2>. QED  BY <2>1, <2>2, FileAssumption
<1>1. CASE UNCHANGED fileVars
  BY <1>1 DEF fileVars, MakesInv, WritersMakeParents, Walking, Opened, NextPart
<1>2. ASSUME NEW w \in Worker, NEW c \in Calls(Len(sizes) + 1), Begin(w, c) PROVE MakesInv'
  <2>1. /\ UNCHANGED << tree, depth >> /\ made' = [made EXCEPT ![w] = "no"]
        /\ \/ UNCHANGED << filepc, op >> /\ result' = [result EXCEPT ![w] = "refused"]
                                         /\ filepc[w] = "idle"
           \/ /\ filepc' = [filepc EXCEPT ![w] = "walk"] /\ op' = [op EXCEPT ![w] = c]
              /\ result' = [result EXCEPT ![w] = "none"]
    BY <1>2 DEF Begin
  <2>. QED  BY <1>0, <2>1, OthersMake
<1>3. ASSUME NEW w \in Worker, Mkdir(w) PROVE MakesInv'
  <2>1. /\ filepc[w] = "walk" /\ Walking(w) /\ NextPart(w) \in Place
    BY <1>3, PathInPlace DEF Mkdir, Walking
  <2>2. /\ tree' = [tree EXCEPT ![NextPart(w)] = IF @ = Absent THEN Dir ELSE @]
        /\ made' = [made EXCEPT ![w] = made'[w]]
        /\ made'[w] \in {"made", "dir"} => tree[NextPart(w)] \in {Absent, Dir}
        /\ UNCHANGED << filepc, op, depth, result >>
    BY <1>0, <1>3 DEF Mkdir, PassesExisting
  <2>3. \A p \in Place : tree[p] = Dir => tree'[p] = Dir
    BY <1>0, <2>2
  <2>4. made'[w] \in {"made", "dir"} => tree'[NextPart(w)] = Dir
    BY <1>0, <2>1, <2>2
  <2>5. NextPart(w)' = NextPart(w) /\ (Walking(w)' <=> Walking(w))
    BY <2>2 DEF NextPart, Walking, Opened
  <2>6. result[w] = "none"
    BY <2>1 DEF MakesInv
  <2>. QED  BY <1>0, <2>1, <2>2, <2>3, <2>4, <2>5, <2>6, OthersMake
<1>4. ASSUME NEW w \in Worker, OpenDir(w) PROVE MakesInv'
  <2>1. filepc[w] = "walk" /\ Walking(w) /\ NextPart(w) \in Place /\ UNCHANGED tree
    BY <1>4, PathInPlace DEF OpenDir, Walking
  <2>2. CASE tree[NextPart(w)] = Dir
    <3>1. /\ depth' = [depth EXCEPT ![w] = @ + 1] /\ made' = [made EXCEPT ![w] = "no"]
          /\ UNCHANGED << filepc, op, result >>
      BY <1>4, <2>2 DEF OpenDir
    <3>2. result[w] = "none"
      BY <2>1 DEF MakesInv
    <3>. QED  BY <1>0, <2>1, <3>1, <3>2, OthersMake
  <2>3. CASE tree[NextPart(w)] # Dir
    <3>1. PICK how \in {"missing", "not a directory"} : Ended(w, how)
      BY <1>4, <2>3 DEF OpenDir, End
    <3>2. op[w].kind \in Writes => made[w] = "file"
      BY <1>4, <2>1, <2>3 DEF OpenDir, MakesInv, FileTypeOK
    <3>. QED  BY <2>1, <3>1, <3>2, EndMakes
  <2>. QED  BY <2>2, <2>3
<1>5. ASSUME NEW w \in Worker, Open(w) PROVE MakesInv'
  <2>. DEFINE there == tree[op[w].path]
              new   == there = Absent /\ op[w].kind \in Writes
              f     == IF new THEN Len(data) + 1 ELSE there
  <2>1. filepc[w] = "walk" /\ op[w].path \in Place /\ ~Walking(w) /\ Len(data) \in Nat
    BY <1>5, PathInPlace, LenProperties DEF Open, AtLast, FileTypeOK
  <2>2. CASE there = Dir \/ (there = Absent /\ ~new)
    <3>1. /\ UNCHANGED tree /\ Ended(w, IF there = Dir THEN "is a directory" ELSE "missing")
          /\ op[w].kind \in Writes => there = Dir
      BY <1>5, <2>2 DEF Open, End
    <3>. QED  BY <2>1, <3>1, EndMakes
  <2>3. CASE ~(there = Dir \/ (there = Absent /\ ~new))
    <3>1. /\ tree' = [tree EXCEPT ![op[w].path] = f]
          /\ filepc' = [filepc EXCEPT ![w] = filepc'[w]]
          /\ filepc'[w] \in {"check", "transfer"} /\ UNCHANGED << op, depth, made, result >>
      BY <1>0, <1>5, <2>3 DEF Open
    <3>2. there # Dir /\ result[w] = "none"
      BY <2>1, <2>3 DEF MakesInv
    <3>. HIDE DEF new, f
    <3>3. \A p \in Place : tree[p] = Dir => tree'[p] = Dir
      BY <1>0, <3>1, <3>2
    <3>. QED  BY <1>0, <3>1, <3>2, <3>3, OthersMake
  <2>. QED  BY <2>2, <2>3
<1>6. ASSUME NEW w \in Worker, Check(w) PROVE MakesInv'
  <2>1. CASE Measured(w) + op[w].size > MaxBytes
    BY <1>6, <2>1, EndMakes DEF Check, End
  <2>2. CASE ~(Measured(w) + op[w].size > MaxBytes)
    <3>1. /\ filepc' = [filepc EXCEPT ![w] = "transfer"] /\ UNCHANGED << tree, op, depth, made, result >>
          /\ result[w] = "none"
      BY <1>6, <2>2 DEF Check, MakesInv
    <3>. QED  BY <1>0, <3>1, OthersMake
  <2>. QED  BY <2>1, <2>2
<1>7. ASSUME NEW w \in Worker, Write(w) PROVE MakesInv'
  <2>1. Ended(w, "done") /\ UNCHANGED tree /\ filepc[w] # "idle"
    BY <1>7 DEF Write
  <2>. QED  BY <2>1, EndMakes
<1>8. ASSUME NEW w \in Worker, ReadAll(w) PROVE MakesInv'
  <2>1. filepc[w] = "transfer" /\ UNCHANGED tree
    BY <1>8 DEF ReadAll
  <2>2. CASE End(w, "done")
    BY <2>1, <2>2, EndMakes DEF End
  <2>3. CASE UNCHANGED << filepc, op, depth, made, result >>
    BY <2>1, <2>3, OthersMake DEF MakesInv
  <2>. QED  BY <1>8, <2>2, <2>3, ReadEffect DEF ReadAll
<1>9. ASSUME NEW w \in Worker, Delete(w) PROVE MakesInv'
  <2>1. filepc[w] = "walk" /\ op[w].kind \notin Writes /\ op[w].path \in Place
    BY <1>9, PathInPlace DEF Delete, AtLast, Writes
  <2>2. tree' = [tree EXCEPT ![op[w].path] = IF @ = Dir THEN @ ELSE Absent]
    BY <1>9 DEF Delete
  <2>3. \A p \in Place : tree[p] = Dir => tree'[p] = Dir
    BY <1>0, <2>2
  <2>4. PICK how : Ended(w, how)
    BY <1>9 DEF Delete, End
  <2>. QED  BY <2>1, <2>3, <2>4, EndMakes
<1>10. ASSUME NEW w \in Worker, Look(w) PROVE MakesInv'
  <2>1. filepc[w] = "walk" /\ op[w].kind \notin Writes /\ UNCHANGED tree
    BY <1>10 DEF Look, AtLast, Writes
  <2>2. PICK how : Ended(w, how)
    BY <1>10 DEF Look, End
  <2>. QED  BY <2>1, <2>2, EndMakes
<1>. QED
  BY <1>1, <1>2, <1>3, <1>4, <1>5, <1>6, <1>7, <1>8, <1>9, <1>10 DEF FileNext

\* A call that writes does not fail for what is missing on its way, nor for what
\* others made first, unless a file was there in between; for any workers,
\* paths and calls.
THEOREM ParentsAreMade == FileSpec => []WritersMakeParents
<1>1. FileInit => MakesInv
  BY DEF FileInit, MakesInv, WritersMakeParents
<1>2. FileTypeOK /\ MakesInv /\ [FileNext]_fileVars => MakesInv'
  BY MakesStep
<1>3. MakesInv => WritersMakeParents
  BY DEF MakesInv
<1>. QED  BY <1>1, <1>2, <1>3, FileTypeCorrect, PTL DEF FileSpec

-----------------------------------------------------------------------------
(* Contents                                                                *)

\* The contents d are whole pieces, of the sizes that their calls were to write.
Whole(d, sz) ==
  \A j \in DOMAIN d :
    /\ Cardinality({k \in DOMAIN d : d[k] = d[j]}) = sz[d[j]]
    /\ \A k \in j..Len(d) : d[k] = d[j] => \A m \in j..k : d[m] = d[j]

\* A call that goes on has a number of its own, which is in no file yet.
Busy(w) == filepc[w] # "idle"
WholeInv ==
  /\ \A w \in Worker : Busy(w) =>
       /\ op[w].id \in DOMAIN sizes /\ op[w].size = sizes[op[w].id]
       /\ \A v \in Worker \ {w} : Busy(v) => op[v].id # op[w].id
       /\ \A f \in File : \A j \in DOMAIN data[f] : data[f][j] # op[w].id
  /\ \A f \in File \ mixed : Whole(data[f], sizes)

LEMMA WholeAppend ==
  ASSUME NEW S, NEW d \in Seq(S), NEW sz, NEW id \in S, NEW n \in Nat,
         Whole(d, sz), sz[id] = n, \A j \in DOMAIN d : d[j] # id
  PROVE  Whole(d \o [k \in 1..n |-> id], sz)
<1>. DEFINE p == [k \in 1..n |-> id]
            e == d \o p
            l == Len(d)
            Fine(j) == /\ Cardinality({k \in DOMAIN e : e[k] = e[j]}) = sz[e[j]]
                       /\ \A k \in j..Len(e) : e[k] = e[j] => \A m \in j..k : e[m] = e[j]
<1>1. l \in Nat /\ DOMAIN d = 1..l /\ p \in Seq(S) /\ Len(p) = n
  BY LenProperties
<1>2. Len(e) = l + n /\ DOMAIN e = 1..(l + n) /\ \A k \in 1..(l + n) : e[k] = IF k <= l THEN d[k] ELSE id
  BY <1>1
<1>. HIDE DEF e, p, l, Fine
<1>3. ASSUME NEW j \in 1..l
      PROVE  Fine(j)
  <2>1. e[j] = d[j] /\ d[j] # id
    BY <1>1, <1>2
  <2>2. {k \in DOMAIN e : e[k] = e[j]} = {k \in DOMAIN d : d[k] = d[j]}
    BY <1>1, <1>2, <2>1
  <2>3. \A k \in j..l : d[k] = d[j] => \A m \in j..k : d[m] = d[j]
    BY <1>1 DEF Whole, l
  <2>4. ASSUME NEW k \in j..(l + n), e[k] = e[j], NEW m \in j..k PROVE e[m] = e[j]
    <3>1. k <= l /\ m <= l /\ e[k] = d[k] /\ e[m] = d[m]
      BY <1>1, <1>2, <2>1, <2>4
    <3>. QED  BY <1>1, <2>1, <2>3, <2>4, <3>1
  <2>5. Cardinality({k \in DOMAIN e : e[k] = e[j]}) = sz[e[j]]
    BY <1>1, <2>1, <2>2 DEF Whole
  <2>. QED  BY <1>2, <2>4, <2>5 DEF Fine
<1>4. ASSUME NEW j \in (l + 1)..(l + n)
      PROVE  Fine(j)
  <2>1. e[j] = id /\ \A k \in j..(l + n) : e[k] = id
    BY <1>1, <1>2
  <2>2. {k \in DOMAIN e : e[k] = e[j]} = (l + 1)..(l + n)
    BY <1>1, <1>2, <2>1
  <2>3. Cardinality((l + 1)..(l + n)) = n
    BY <1>1, FS_Interval
  <2>4. Cardinality({k \in DOMAIN e : e[k] = e[j]}) = sz[e[j]]
    BY <2>1, <2>2, <2>3
  <2>5. \A k \in j..(l + n) : \A m \in j..k : e[m] = e[j]
    BY <1>1, <2>1
  <2>. QED  BY <1>2, <2>4, <2>5 DEF Fine
<1>5. \A j \in DOMAIN e : Fine(j)
  BY <1>1, <1>2, <1>3, <1>4
<1>6. Whole(e, sz)
  BY <1>5 DEF Whole, Fine
<1>. QED  BY <1>6 DEF e, p

\* What write_text writes over nothing is what it was given.
LEMMA OverNothing ==
  ASSUME NEW S, NEW new \in Seq(S)
  PROVE  Over(<< >>, 0, new) = << >> \o new
<1>1. Len(new) \in Nat /\ Len(<< >>) = 0
  BY LenProperties
<1>2. SubSeq(<< >>, 1, 0) = << >> /\ SubSeq(<< >>, Len(new) + 1, 0) = << >>
  BY <1>1, SubSeqEmpty
<1>3. Over(<< >>, 0, new) = (<< >> \o new) \o << >>
  BY <1>1, <1>2 DEF Over
<1>. QED  BY <1>3

\* Over the beginning of a file there is nothing but what was there and what is new.
LEMMA OverContents ==
  ASSUME NEW S, NEW old \in Seq(S), NEW new \in Seq(S), NEW j \in DOMAIN Over(old, 0, new)
  PROVE  \/ \E k \in DOMAIN old : old[k] = Over(old, 0, new)[j]
         \/ \E k \in DOMAIN new : new[k] = Over(old, 0, new)[j]
<1>. DEFINE rest == SubSeq(old, Len(new) + 1, Len(old))
<1>1. SubSeq(old, 1, 0) = << >> /\ Len(old) \in Nat /\ Len(new) \in Nat
  BY SubSeqEmpty, LenProperties
<1>2. \A i \in (Len(new) + 1)..Len(old) : old[i] \in S
  BY <1>1, ElementOfSeq
<1>3. /\ rest \in Seq(S)
      /\ Len(rest) = IF Len(new) + 1 <= Len(old) THEN Len(old) - Len(new) ELSE 0
      /\ \A i \in 1..Len(rest) : rest[i] = old[Len(new) + i]
  BY <1>1, <1>2, SubSeqProperties
<1>4. Over(old, 0, new) = (<< >> \o new) \o rest /\ << >> \o new = new
  BY <1>1 DEF Over
<1>. HIDE DEF rest
<1>5. /\ DOMAIN (new \o rest) = 1..(Len(new) + Len(rest))
      /\ \A i \in 1..(Len(new) + Len(rest)) :
           (new \o rest)[i] = IF i <= Len(new) THEN new[i] ELSE rest[i - Len(new)]
  BY <1>1, <1>3, SMTT(30)
<1>6. DOMAIN old = 1..Len(old) /\ DOMAIN new = 1..Len(new)
  BY LenProperties
<1>7. Over(old, 0, new) = new \o rest
  BY <1>4
<1>. DEFINE x == Over(old, 0, new)[j]
<1>8. j \in 1..(Len(new) + Len(rest)) /\ x = IF j <= Len(new) THEN new[j] ELSE rest[j - Len(new)]
  BY <1>5, <1>7
<1>. HIDE DEF x
<1>9. CASE j <= Len(new)
  <2>1. j \in DOMAIN new /\ x = new[j]
    BY <1>1, <1>6, <1>8, <1>9
  <2>. QED  BY <2>1 DEF x
<1>10. CASE ~(j <= Len(new))
  <2>1. j - Len(new) \in 1..Len(rest) /\ x = rest[j - Len(new)]
    BY <1>1, <1>3, <1>8, <1>10
  <2>2. j \in DOMAIN old /\ x = old[j]
    <3>1. rest[j - Len(new)] = old[Len(new) + (j - Len(new))] /\ j \in Int
      BY <1>1, <1>3, <1>8, <2>1
    <3>2. Len(new) + (j - Len(new)) = j
      BY <1>1, <3>1
    <3>3. j <= Len(old) /\ j >= 1
      BY <1>1, <1>3, <1>8, <1>10, <2>1
    <3>. QED  BY <1>1, <1>6, <2>1, <3>1, <3>2, <3>3
  <2>. QED  BY <2>2 DEF x
<1>. QED  BY <1>9, <1>10

LEMMA WriteWhole ==
  ASSUME FileTypeOK, WholeInv, NEW w \in Worker, Write(w)
  PROVE  /\ \A f \in File \ mixed' : Whole(data'[f], sizes)
         /\ \A f \in File : \A j \in DOMAIN data'[f] :
              (\E k \in DOMAIN data[f] : data[f][k] = data'[f][j]) \/ data'[f][j] = op[w].id
<1>. DEFINE g   == file[w]
            old == data[g]
            id  == op[w].id
            n   == op[w].size
<1>1. /\ Busy(w) /\ g \in File /\ old \in Seq(DOMAIN sizes) /\ id \in DOMAIN sizes /\ n \in Nat
      /\ sizes[id] = n /\ \A j \in DOMAIN old : old[j] # id
  <2>1. Busy(w) /\ g \in File
    BY DEF Write, FileTypeOK, Busy
  <2>. QED  BY <2>1, ContentsType, PieceType DEF WholeInv, Busy
<1>2. /\ Piece(w) = [k \in 1..n |-> id] /\ Piece(w) \in Seq(DOMAIN sizes) /\ Len(Piece(w)) = n
  BY <1>1, PieceType DEF Piece, Busy
<1>3. \A f \in File \ {g} : data'[f] = data[f]
  BY WriteEffect
<1>4. mixed \subseteq mixed'
  BY DEF Write
<1>5. DOMAIN data = File
  BY DEF File
<1>. HIDE DEF g, n, id
<1>6. CASE op[w].kind = "append"
  <2>1. data'[g] = old \o Piece(w)
    BY <1>1, <1>5, <1>6 DEF Write, Appended, g
  <2>2. g \notin mixed => Whole(old, sizes)
    BY <1>1 DEF WholeInv, g
  <2>. HIDE DEF old
  <2>3. g \notin mixed => Whole(data'[g], sizes)
    BY <1>1, <1>2, <2>1, <2>2, WholeAppend
  <2>4. \A j \in DOMAIN data'[g] : (\E k \in DOMAIN old : old[k] = data'[g][j]) \/ data'[g][j] = id
    BY <1>1, <1>2, <2>1
  <2>. QED  BY <1>3, <1>4, <2>3, <2>4 DEF WholeInv, old, id
<1>7. CASE op[w].kind = "write"
  <2>1. data'[g] = Over(old, 0, Piece(w)) /\ (old # << >> => g \in mixed')
    BY <1>1, <1>5, <1>7 DEF Write, g
  <2>. HIDE DEF old
  <2>2. g \notin mixed' => data'[g] = << >> \o Piece(w)
    BY <1>2, <2>1, OverNothing
  <2>3. Whole(<< >>, sizes)
    BY DEF Whole
  <2>4. << >> \in Seq(DOMAIN sizes) /\ \A j \in DOMAIN << >> : << >>[j] # id
    OBVIOUS
  <2>. DEFINE none == << >>
  <2>5. none \in Seq(DOMAIN sizes) /\ Whole(none, sizes) /\ \A j \in DOMAIN none : none[j] # id
    BY <2>3, <2>4
  <2>6. g \notin mixed' => data'[g] = none \o Piece(w)
    BY <2>2
  <2>. HIDE DEF none
  <2>7. g \notin mixed' => Whole(data'[g], sizes)
    <3>1. id \in DOMAIN sizes /\ n \in Nat /\ sizes[id] = n /\ Piece(w) = [k \in 1..n |-> id]
      BY <1>1, <1>2
    <3>2. Whole(none \o [k \in 1..n |-> id], sizes)
      BY <2>5, <3>1, WholeAppend
    <3>. QED  BY <2>6, <3>1, <3>2
  <2>8. \A j \in DOMAIN data'[g] : (\E k \in DOMAIN old : old[k] = data'[g][j]) \/ data'[g][j] = id
    BY <1>1, <1>2, <2>1, OverContents
  <2>. QED  BY <1>3, <1>4, <2>7, <2>8 DEF WholeInv, old, id
<1>. QED  BY <1>6, <1>7 DEF Write, Writes

\* What neither begins a call nor writes leaves the contents whole.
LEMMA WholeKept ==
  ASSUME WholeInv, UNCHANGED << sizes, op >>, mixed \subseteq mixed',
         \A v \in Worker : filepc'[v] # "idle" => filepc[v] # "idle",
         \A f \in File' : (f \in File /\ data'[f] = data[f]) \/ data'[f] = << >>
  PROVE  WholeInv'
<1>1. ASSUME NEW f \in File' \ mixed' PROVE Whole(data'[f], sizes')
  <2>1. CASE f \in File /\ data'[f] = data[f]
    BY <2>1 DEF WholeInv
  <2>2. CASE data'[f] = << >>
    BY <2>2 DEF Whole
  <2>. QED  BY <2>1, <2>2
<1>. QED  BY <1>1 DEF WholeInv, Busy

LEMMA WholeStep ==
  ASSUME FileTypeOK, WholeInv, FileTypeOK', [FileNext]_fileVars
  PROVE  WholeInv'
<1>1. CASE UNCHANGED fileVars
  BY <1>1, WholeKept DEF fileVars, fileHistory, File
<1>2. ASSUME NEW w \in Worker, NEW c \in Calls(Len(sizes) + 1), Begin(w, c) PROVE WholeInv'
  <2>. DEFINE l == Len(sizes)
  <2>1. /\ c.id = l + 1 /\ sizes' = Append(sizes, c.size) /\ UNCHANGED << data, mixed >>
        /\ \A v \in Worker \ {w} : filepc'[v] = filepc[v] /\ op'[v] = op[v]
        /\ filepc'[w] # "idle" => op'[w] = c
    <3>1. filepc[w] = "idle" /\ DOMAIN filepc = Worker /\ DOMAIN op = Worker
      BY <1>2 DEF Begin, FileTypeOK
    <3>2. c.id = l + 1
      BY DEF Calls
    <3>3. /\ sizes' = Append(sizes, c.size) /\ UNCHANGED << data, mixed >>
          /\ \/ UNCHANGED << filepc, op >>
             \/ filepc' = [filepc EXCEPT ![w] = "walk"] /\ op' = [op EXCEPT ![w] = c]
      BY <1>2 DEF Begin, fileHistory
    <3>. QED  BY <3>1, <3>2, <3>3
  <2>2. sizes \in Seq(Nat) /\ l \in Nat /\ DOMAIN sizes = 1..l /\ c.size \in Nat
    <3>1. sizes \in Seq(Nat)
      BY DEF FileTypeOK
    <3>2. c.size \in Nat
      BY FileAssumption DEF Calls
    <3>. QED  BY <3>1, <3>2, LenProperties
  <2>3. DOMAIN sizes' = 1..(l + 1) /\ sizes'[l + 1] = c.size /\ \A i \in 1..l : sizes'[i] = sizes[i]
    BY <2>1, <2>2
  <2>. HIDE DEF l
  <2>4. \A f \in File : \A j \in DOMAIN data[f] : data[f][j] \in 1..l
    <3>1. ASSUME NEW f \in File, NEW j \in DOMAIN data[f] PROVE data[f][j] \in 1..l
      <4>1. data[f] \in Seq(1..l)
        BY <2>2, ContentsType
      <4>. QED  BY <4>1, ElementOfSeq, LenProperties
    <3>. QED  BY <3>1
  <2>5. ASSUME NEW f \in File \ mixed PROVE Whole(data[f], sizes')
    <3>1. Whole(data[f], sizes)
      BY DEF WholeInv
    <3>. QED  BY <2>3, <2>4, <3>1 DEF Whole
  <2>6. \A v \in Worker \ {w} : Busy(v) => op[v].id \in 1..l /\ op[v].size = sizes[op[v].id]
    BY <2>2 DEF WholeInv
  <2>7. ASSUME NEW v \in Worker, filepc'[v] # "idle"
        PROVE  /\ op'[v].id \in DOMAIN sizes' /\ op'[v].size = sizes'[op'[v].id]
               /\ \A u \in Worker \ {v} : filepc'[u] # "idle" => op'[u].id # op'[v].id
               /\ \A f \in File : \A j \in DOMAIN data[f] : data[f][j] # op'[v].id
    <3>1. CASE v = w
      BY <2>1, <2>2, <2>3, <2>4, <2>6, <2>7, <3>1 DEF Busy
    <3>2. CASE v # w
      <4>1. op'[v] = op[v] /\ Busy(v) /\ op[v].id \in 1..l /\ op[v].size = sizes[op[v].id]
        BY <2>1, <2>6, <2>7, <3>2 DEF Busy
      <4>2. op[v].id \in DOMAIN sizes' /\ op[v].size = sizes'[op[v].id]
        BY <2>2, <2>3, <4>1
      <4>3. ASSUME NEW u \in Worker \ {v}, filepc'[u] # "idle" PROVE op'[u].id # op[v].id
        <5>1. CASE u = w
          BY <2>1, <2>2, <4>1, <4>3, <5>1
        <5>2. CASE u # w
          BY <2>1, <4>1, <4>3, <5>2 DEF Busy, WholeInv
        <5>. QED  BY <5>1, <5>2
      <4>4. \A f \in File : \A j \in DOMAIN data[f] : data[f][j] # op[v].id
        BY <4>1 DEF WholeInv
      <4>. QED  BY <4>1, <4>2, <4>3, <4>4
    <3>. QED  BY <3>1, <3>2
  <2>. QED  BY <2>1, <2>5, <2>7 DEF WholeInv, Busy, File
<1>3. ASSUME NEW w \in Worker, Mkdir(w) \/ OpenDir(w) \/ Check(w) \/ Delete(w) \/ Look(w)
      PROVE  WholeInv'
  <2>1. /\ UNCHANGED << data, sizes, op, mixed >>
        /\ filepc[w] # "idle" /\ \A v \in Worker \ {w} : filepc'[v] = filepc[v]
    BY <1>3, ZenonT(60) DEF Mkdir, PassesExisting, OpenDir, Check, Delete, Look, End, Ended, Walking,
                AtLast, fileHistory, FileTypeOK
  <2>. QED  BY <2>1, WholeKept DEF File
<1>4. ASSUME NEW w \in Worker, ReadAll(w) PROVE WholeInv'
  <2>1. UNCHANGED << data, sizes, op, mixed >>
    BY <1>4 DEF ReadAll, End, Ended, fileHistory
  <2>2. filepc[w] # "idle" /\ \A v \in Worker \ {w} : filepc'[v] = filepc[v]
    <3>1. DOMAIN filepc = Worker /\ filepc[w] # "idle"
      BY <1>4 DEF ReadAll, FileTypeOK
    <3>2. UNCHANGED filepc \/ filepc' = [filepc EXCEPT ![w] = "idle"]
      BY <1>4 DEF ReadAll, End, Ended
    <3>. QED  BY <3>1, <3>2
  <2>. QED  BY <2>1, <2>2, WholeKept DEF File
<1>5. ASSUME NEW w \in Worker, Open(w) PROVE WholeInv'
  <2>. DEFINE there == tree[op[w].path]
              new   == there = Absent /\ op[w].kind \in Writes
              f     == IF new THEN Len(data) + 1 ELSE there
  <2>1. UNCHANGED << sizes, op, mixed >> /\ filepc[w] # "idle"
    BY <1>5 DEF Open, AtLast, End, Ended
  <2>2. \A v \in Worker \ {w} : filepc'[v] = filepc[v]
    <3>1. DOMAIN filepc = Worker
      BY DEF FileTypeOK
    <3>2. filepc' = [filepc EXCEPT ![w] = filepc'[w]]
      <4>1. \E to : filepc' = [filepc EXCEPT ![w] = to]
        BY <1>5 DEF Open, End, Ended
      <4>. QED  BY <3>1, <4>1
    <3>. QED  BY <3>1, <3>2
  <2>3. data' \in {data, Append(data, << >>), [data EXCEPT ![f] = << >>]}
    BY <1>5 DEF Open
  <2>4. data \in Seq(Seq(DOMAIN sizes)) /\ Len(data) \in Nat /\ File = 1..Len(data)
    <3>1. data \in Seq(Seq(DOMAIN sizes))
      BY DEF FileTypeOK
    <3>. QED  BY <3>1, LenProperties DEF File
  <2>. HIDE DEF new, f
  <2>5. ASSUME data' = Append(data, << >>)
        PROVE  /\ File' = 1..(Len(data) + 1) /\ data'[Len(data) + 1] = << >>
               /\ \A g \in 1..Len(data) : data'[g] = data[g]
    BY <2>4, <2>5 DEF File
  <2>6. \A g \in File' : (g \in File /\ data'[g] = data[g]) \/ data'[g] = << >>
    <3>1. CASE data' = data
      BY <3>1 DEF File
    <3>2. CASE data' = Append(data, << >>)
      BY <2>4, <2>5, <3>2
    <3>3. CASE data' = [data EXCEPT ![f] = << >>]
      BY <3>3 DEF File
    <3>. QED  BY <2>3, <3>1, <3>2, <3>3
  <2>. QED  BY <2>1, <2>2, <2>6, WholeKept
<1>6. ASSUME NEW w \in Worker, Write(w) PROVE WholeInv'
  <2>1. /\ UNCHANGED << sizes, op >> /\ filepc[w] # "idle" /\ filepc'[w] = "idle"
        /\ \A v \in Worker \ {w} : filepc'[v] = filepc[v]
    BY <1>6, ZenonT(60) DEF Write, Ended, FileTypeOK
  <2>2. File' = File
    BY <1>6, WriteEffect
  <2>3. /\ \A f \in File \ mixed' : Whole(data'[f], sizes)
        /\ \A f \in File : \A j \in DOMAIN data'[f] :
             (\E k \in DOMAIN data[f] : data[f][k] = data'[f][j]) \/ data'[f][j] = op[w].id
    BY <1>6, WriteWhole
  <2>4. ASSUME NEW v \in Worker, filepc'[v] # "idle"
        PROVE  /\ op[v].id \in DOMAIN sizes /\ op[v].size = sizes[op[v].id]
               /\ \A u \in Worker \ {v} : filepc'[u] # "idle" => op[u].id # op[v].id
               /\ \A f \in File : \A j \in DOMAIN data'[f] : data'[f][j] # op[v].id
    <3>1. v # w /\ Busy(v) /\ Busy(w)
      BY <2>1, <2>4 DEF Busy
    <3>2. op[w].id # op[v].id
      BY <3>1 DEF WholeInv
    <3>3. \A f \in File : \A j \in DOMAIN data[f] : data[f][j] # op[v].id
      BY <3>1 DEF WholeInv
    <3>4. \A f \in File : \A j \in DOMAIN data'[f] : data'[f][j] # op[v].id
      BY <2>3, <3>2, <3>3
    <3>5. \A u \in Worker \ {v} : filepc'[u] # "idle" => Busy(u)
      BY <2>1 DEF Busy
    <3>. QED  BY <3>1, <3>4, <3>5 DEF WholeInv
  <2>. QED  BY <2>1, <2>2, <2>3, <2>4 DEF WholeInv, Busy
<1>. QED
  BY <1>1, <1>2, <1>3, <1>4, <1>5, <1>6 DEF FileNext

\* What a call wrote is in a file whole and in one piece, or not at all, except in
\* a file that a write_text found filled again; for any workers, paths, sizes and
\* numbers of calls.  The numbers of calls under way are in no file yet.
THEOREM ContentsAreWhole == FileSpec => []WholeContents
<1>1. FileInit => WholeInv
  BY DEF FileInit, WholeInv, Busy, File
<1>2. FileTypeOK /\ WholeInv /\ FileTypeOK' /\ [FileNext]_fileVars => WholeInv'
  BY WholeStep
<1>3. WholeInv => WholeContents
  BY DEF WholeInv, WholeContents, Whole
<1>. QED  BY <1>1, <1>2, <1>3, FileTypeCorrect, PTL DEF FileSpec
=============================================================================
