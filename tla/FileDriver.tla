----------------------------- MODULE FileDriver -----------------------------
(***************************************************************************)
(* FileSystemIntegration of titoos/integrations/files.py, called by the    *)
(* workers of a tick at the same time.                                     *)
(*                                                                         *)
(* A path is the sequence of its components below the root; a file is a    *)
(* number, in order of creation, and lives on when it is deleted under     *)
(* those who have it open.  Contents are counted in units, each of which   *)
(* is the number of the call that wrote it.  The system calls are          *)
(* external, each one atomic; nobody but the driver touches the directory, *)
(* in which there are no links.                                            *)
(***************************************************************************)
EXTENDS Naturals, Sequences, FiniteSets

CONSTANTS
  Worker,
  Absent, Dir,  \* what there may be at a path besides a file
  Path,       \* the paths given, none of them the root
  Sizes,      \* how long the contents are that calls write, in units
  MaxBytes,   \* max_bytes
  ReadOnly,   \* read_only
  MaxOps      \* bound on the calls

ASSUME FileAssumption ==
  /\ \A p \in Path : p = [k \in 1..Len(p) |-> p[k]] /\ Len(p) \in Nat \ {0}
  /\ Absent # Dir /\ Absent \notin Nat /\ Dir \notin Nat
  /\ Sizes \subseteq Nat /\ MaxBytes \in Nat \ {0} /\ ReadOnly \in BOOLEAN /\ MaxOps \in Nat

VARIABLES
  tree,     \* per path: Absent, Dir or a file
  data,     \* the contents of each file created
  filepc,   \* where each worker is in its call
  op,       \* what it called
  depth,    \* how many components of the path it has open
  made,     \* whether the next one was made, or what was found there
  file,     \* the file it has open
  text,     \* what it has read
  result,   \* how its last call ended
  sizes,    \* history: how much each call was to write
  checked,  \* history: how long its file was when it was measured
  stale,    \* history: whether its file was changed by another since then
  raced,    \* history: the files appended to by a call whose measure was stale
  mixed     \* history: the files that held something when a write_text wrote

fileHistory == << checked, stale, raced, mixed >>
fileVars    == << tree, data, filepc, op, depth, made, file, text, result, sizes,
                  fileHistory >>

Place  == UNION {{SubSeq(p, 1, n) : n \in 1..Len(p)} : p \in Path}
File   == DOMAIN data
Writes == {"write", "append"}
Calls(n) ==
  [kind : Writes, path : Path, size : Sizes, id : {n}]
    \cup [kind : {"read", "delete", "list", "exists"}, path : Path, size : {0}, id : {n}]
NoCall == [kind |-> "none", path |-> << >>, size |-> 0, id |-> 0]
Call   == UNION {Calls(n) : n \in DOMAIN sizes}

FileTypeOK ==
  /\ sizes \in Seq(Nat) /\ data \in Seq(Seq(DOMAIN sizes))
  /\ tree \in [Place -> {Absent, Dir} \cup File]
  /\ filepc \in [Worker -> {"idle", "walk", "check", "transfer"}]
  /\ op \in [Worker -> {NoCall} \cup Call]
  /\ \A w \in Worker : filepc[w] # "idle" => op[w] \in Call
  /\ depth \in [Worker -> Nat] /\ made \in [Worker -> {"no", "made", "dir", "file"}]
  /\ file \in [Worker -> {0} \cup File]
  /\ \A w \in Worker : filepc[w] \in {"check", "transfer"} => file[w] \in File
  /\ text \in [Worker -> Seq(DOMAIN sizes)] /\ checked \in [Worker -> Nat]
  /\ result \in [Worker -> {"none", "done", "missing", "not a directory", "exists",
                            "is a directory", "too large", "refused"}]
  /\ stale \subseteq Worker /\ raced \subseteq File /\ mixed \subseteq File

FileInit ==
  /\ tree = [p \in Place |-> Absent] /\ data = << >>
  /\ filepc = [w \in Worker |-> "idle"] /\ op = [w \in Worker |-> NoCall]
  /\ depth = [w \in Worker |-> 0] /\ made = [w \in Worker |-> "no"]
  /\ file = [w \in Worker |-> 0] /\ text = [w \in Worker |-> << >>]
  /\ result = [w \in Worker |-> "none"] /\ sizes = << >>
  /\ checked = [w \in Worker |-> 0] /\ stale = {} /\ raced = {} /\ mixed = {}

-----------------------------------------------------------------------------
\* What is refused before anything is opened.
Refused(c) ==
  \/ ReadOnly /\ c.kind \in Writes \cup {"delete"}
  \/ c.size > MaxBytes

Begin(w, c) ==
  /\ filepc[w] = "idle" /\ Len(sizes) < MaxOps
  /\ sizes' = Append(sizes, c.size)
  /\ IF Refused(c)
     THEN result' = [result EXCEPT ![w] = "refused"] /\ UNCHANGED << filepc, op >>
     ELSE /\ filepc' = [filepc EXCEPT ![w] = "walk"] /\ op' = [op EXCEPT ![w] = c]
          /\ result' = [result EXCEPT ![w] = "none"]
  /\ made' = [made EXCEPT ![w] = "no"]
  /\ UNCHANGED << tree, data, depth, file, text, fileHistory >>

\* The call returns or raises, and what it had open is closed.
Ended(w, how) ==
  /\ filepc' = [filepc EXCEPT ![w] = "idle"] /\ result' = [result EXCEPT ![w] = how]
  /\ depth' = [depth EXCEPT ![w] = 0]
  /\ file' = [file EXCEPT ![w] = 0] /\ text' = [text EXCEPT ![w] = << >>]
  /\ checked' = [checked EXCEPT ![w] = 0]
  /\ UNCHANGED << op, made, sizes >>
End(w, how) == Ended(w, how) /\ stale' = stale \ {w} /\ UNCHANGED << raced, mixed >>

\* The directories opened on the way: a directory that is listed is opened too.
Opened(w)   == IF op[w].kind = "list" THEN Len(op[w].path) ELSE Len(op[w].path) - 1
Walking(w)  == filepc[w] = "walk" /\ depth[w] < Opened(w)
AtLast(w)   == filepc[w] = "walk" /\ ~Walking(w)
NextPart(w) == SubSeq(op[w].path, 1, depth[w] + 1)

\* Fault: a directory that somebody else made is an error.
PassesExisting_Not == FALSE

\* except FileExistsError: pass
PassesExisting == TRUE

\* _walk(): a directory on the way is made when the call is to create it ...
Mkdir(w) ==
  /\ Walking(w) /\ op[w].kind \in Writes /\ made[w] = "no"
  /\ IF tree[NextPart(w)] # Absent /\ ~PassesExisting
     THEN End(w, "exists") /\ UNCHANGED << tree, data >>
     ELSE /\ tree' = [tree EXCEPT ![NextPart(w)] = IF @ = Absent THEN Dir ELSE @]
          /\ made' = [made EXCEPT ![w] = CASE tree[NextPart(w)] = Absent -> "made"
                                           [] tree[NextPart(w)] = Dir    -> "dir"
                                           [] OTHER                      -> "file"]
          /\ UNCHANGED << data, filepc, op, depth, file, text, result, sizes, fileHistory >>

\* ... and opened, below the one opened before.
OpenDir(w) ==
  /\ Walking(w) /\ (op[w].kind \in Writes => made[w] # "no")
  /\ IF tree[NextPart(w)] = Dir
     THEN /\ depth' = [depth EXCEPT ![w] = @ + 1] /\ made' = [made EXCEPT ![w] = "no"]
          /\ UNCHANGED << filepc, op, file, text, result, sizes, fileHistory >>
     ELSE End(w, IF tree[NextPart(w)] = Absent THEN "missing" ELSE "not a directory")
  /\ UNCHANGED << tree, data >>

-----------------------------------------------------------------------------
\* Those who have measured a file that changes.
Measurers(f) == {w \in Worker : filepc[w] = "transfer" /\ file[w] = f}

\* os.open(): O_CREAT makes what is absent, O_TRUNC empties what is there.
Open(w) ==
  /\ AtLast(w) /\ op[w].kind \in Writes \cup {"read"}
  /\ LET there == tree[op[w].path]
         new   == there = Absent /\ op[w].kind \in Writes
         f     == IF new THEN Len(data) + 1 ELSE there
     IN IF there = Dir \/ (there = Absent /\ ~new)
        THEN /\ End(w, IF there = Dir THEN "is a directory" ELSE "missing")
             /\ UNCHANGED << tree, data >>
        ELSE /\ tree' = [tree EXCEPT ![op[w].path] = f]
             /\ data' = IF new THEN Append(data, << >>)
                        ELSE IF op[w].kind = "write" THEN [data EXCEPT ![f] = << >>] ELSE data
             /\ stale' = IF op[w].kind = "write" THEN stale \cup Measurers(f) ELSE stale
             /\ file' = [file EXCEPT ![w] = f]
             /\ filepc' = [filepc EXCEPT ![w] =
                             IF op[w].kind = "write" THEN "transfer" ELSE "check"]
             /\ UNCHANGED << op, depth, made, text, result, sizes, checked, raced, mixed >>

\* Fault: the path is measured, where there may be another file by now.
Measured_ByPath(w) ==
  IF tree[op[w].path] \in {Absent, Dir} THEN 0 ELSE Len(data[tree[op[w].path]])

\* os.fstat(handle.fileno()).st_size
Measured(w) == Len(data[file[w]])

Check(w) ==
  /\ filepc[w] = "check"
  /\ IF Measured(w) + op[w].size > MaxBytes
     THEN End(w, "too large")
     ELSE /\ filepc' = [filepc EXCEPT ![w] = "transfer"]
          /\ checked' = [checked EXCEPT ![w] = Len(data[file[w]])]
          /\ UNCHANGED << op, depth, made, file, text, result, sizes, stale, raced,
                          mixed >>
  /\ UNCHANGED << tree, data >>

Piece(w) == [k \in 1..op[w].size |-> op[w].id]

\* What a file holds after a write at an offset, over what is there.
Over(old, offset, new) ==
  SubSeq(old, 1, offset) \o new \o SubSeq(old, offset + Len(new) + 1, Len(old))

\* Fault: without O_APPEND the text goes where the file ended when measured.
Appended_WhereMeasured(w) == Over(data[file[w]], checked[w], Piece(w))

\* O_APPEND: the text goes to the end, wherever it is now.
Appended(w) == data[file[w]] \o Piece(w)

\* What was given to handle.write() goes to the file when it is closed.
Write(w) ==
  /\ filepc[w] = "transfer" /\ op[w].kind \in Writes
  /\ LET f == file[w]
     IN /\ data' = [data EXCEPT ![f] =
                      IF op[w].kind = "append" THEN Appended(w) ELSE Over(@, 0, Piece(w))]
        /\ raced' = IF op[w].kind = "append" /\ w \in stale THEN raced \cup {f} ELSE raced
        /\ mixed' = IF op[w].kind = "write" /\ data[f] # << >> THEN mixed \cup {f} ELSE mixed
        /\ stale' = (stale \cup Measurers(f)) \ {w}
  /\ Ended(w, "done")
  /\ UNCHANGED tree

\* handle.read() asks for more until there is none.
ReadAll(w) ==
  /\ filepc[w] = "transfer" /\ op[w].kind = "read"
  /\ LET rest == SubSeq(data[file[w]], Len(text[w]) + 1, Len(data[file[w]]))
     IN IF rest # << >>
        THEN /\ text' = [text EXCEPT ![w] = @ \o rest]
             /\ UNCHANGED << filepc, op, depth, made, file, result, sizes, fileHistory >>
        ELSE End(w, "done")
  /\ UNCHANGED << tree, data >>

\* delete(): os.unlink() of a file.
Delete(w) ==
  /\ AtLast(w) /\ op[w].kind = "delete"
  /\ tree' = [tree EXCEPT ![op[w].path] = IF @ = Dir THEN @ ELSE Absent]
  /\ End(w, CASE tree[op[w].path] = Absent -> "missing"
              [] tree[op[w].path] = Dir    -> "is a directory"
              [] OTHER                       -> "done")
  /\ UNCHANGED data

\* list_dir() and exists() look and change nothing.
Look(w) ==
  /\ AtLast(w) /\ op[w].kind \in {"list", "exists"}
  /\ End(w, IF op[w].kind = "exists" /\ tree[op[w].path] = Absent THEN "missing" ELSE "done")
  /\ UNCHANGED << tree, data >>

FileNext ==
  \E w \in Worker :
    \/ \E c \in Calls(Len(sizes) + 1) : Begin(w, c)
    \/ Mkdir(w) \/ OpenDir(w) \/ Open(w) \/ Check(w) \/ Write(w) \/ ReadAll(w)
    \/ Delete(w) \/ Look(w)

FileSpec == FileInit /\ [][FileNext]_fileVars

-----------------------------------------------------------------------------
\* "the limit holds against the file actually being appended to": no file is
\* longer than max_bytes, and no text read is, unless somebody changed the file
\* between a call's measure of it and what the call then did.
WithinLimit ==
  /\ \A f \in File \ raced : Len(data[f]) <= MaxBytes
  /\ \A w \in Worker \ stale : Len(text[w]) <= MaxBytes

\* What a call wrote is in a file whole and in one piece, or not at all, except
\* in a file that a write_text found filled again after it had emptied it.
WholeContents ==
  \A f \in File \ mixed :
    LET d == data[f]
    IN \A j \in DOMAIN d :
         /\ Cardinality({k \in DOMAIN d : d[k] = d[j]}) = sizes[d[j]]
         /\ \A k \in j..Len(d) : d[k] = d[j] => \A m \in j..k : d[m] = d[j]

\* "creating parent directories": a call that writes never fails for what is
\* missing, nor for a directory that another call made first, unless a file had
\* the name of the directory and was deleted before it could be opened.
WritersMakeParents ==
  \A w \in Worker :
    result[w] \in {"missing", "exists"} /\ op[w].kind \in Writes => made[w] = "file"
=============================================================================
