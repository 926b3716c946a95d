----------------------------- MODULE MiniblarCli -----------------------------
(***************************************************************************)
(* The commands of miniblar that write files, create and extract           *)
(* (miniblar.c), run by any number of processes over one file system.      *)
(* Every system call that reads or changes a file is a step of its own, so *)
(* processes interleave between a check and its use, between two blocks of *)
(* a file, and between opening a file and closing it; a process may be     *)
(* killed at every step and every call may fail.                           *)
(*                                                                         *)
(* A path is the sequence of its components, as in ArchiveFormat: "./a" is *)
(* <<".", "a">>, "/a" is <<"", "a">>.  A file holds a sequence of blocks,   *)
(* and a block says of which content it is a piece, and which piece.  An   *)
(* archive is the sequence of its entries: its first block is the header   *)
(* with the total length, block k + 1 is entry k.                          *)
(***************************************************************************)
EXTENDS Integers, Sequences, FiniteSets, SequencesExt

CONSTANTS
  Procs,     \* processes
  Jobs,      \* what they do: a set of functions from Procs to commands
  Files,     \* the file system at the start: locations to nodes
  Contents   \* the blocks of these files, and of the files archived in them

VARIABLES
  fs,     \* the file system
  job,    \* the command of each process, fixed
  proc    \* the state of each process: its place and its local variables

vars == <<fs, job, proc>>

-----------------------------------------------------------------------------
(* Paths.                                                                  *)

(* p without its leading components c.                                     *)
Stripped(p, c) ==
  LET leading == {k \in 1..Len(p) - 1 : \A j \in 1..k : p[j] = c}
  IN  SubSeq(p, Cardinality(leading) + 1, Len(p))

(* First all leading slashes, then all leading "./".                       *)
normalize_path_inplace(p) == Stripped(Stripped(p, ""), ".")

(* The place a path names.  Every process runs in the root directory.      *)
Location(p) == SelectSeq(p, LAMBDA c : c \notin {"", "."})

-----------------------------------------------------------------------------
(* The file system.                                                        *)

NoName == ""   \* of no owner, of no text
Absent == [kind |-> "absent", blocks |-> <<>>, mode |-> 0, owner |-> NoName, by |-> {}]
Directory == [Absent EXCEPT !.kind = "dir"]
DefaultMode == 1   \* what the umask leaves of 0666

Block(of, name, entries, at) ==
  [of |-> of, name |-> name, entries |-> entries, at |-> at]
Hole == Block("hole", NoName, <<>>, 0)

(* blocks with b written at position k, past the end if need be.           *)
Put(blocks, k, b) ==
  [n \in 1..(IF k > Len(blocks) THEN k ELSE Len(blocks)) |->
     IF n = k THEN b ELSE IF n <= Len(blocks) THEN blocks[n] ELSE Hole]

(* mkdir -p: it stops at the first component that is a file, but a file at *)
(* the very end is taken for the directory (EEXIST).                       *)
BlockedNever(l) == FALSE   \* as if ENOTDIR were ignored
Blocked(l) ==
  \E k \in DOMAIN fs : IsStrictPrefix(k, l) /\ fs[k].kind = "file"
mkdirp(l) ==
  [k \in DOMAIN fs |->
     IF IsPrefix(k, l) /\ fs[k].kind = "absent" /\ ~Blocked(k)
     THEN Directory
     ELSE fs[k]]

(* fopen(path, "wb") by p: the file is created, or emptied as it is.  The  *)
(* field by collects who has opened the file for writing.                  *)
Writable(l) == fs[Front(l)].kind = "dir" /\ fs[l].kind # "dir"
TruncatedOnlyNew(l, p) ==   \* as if opened with "r+b"
  [fs EXCEPT ![l] =
     IF fs[l].kind = "absent"
     THEN [kind |-> "file", blocks |-> <<>>, mode |-> DefaultMode,
           owner |-> "user", by |-> {p}]
     ELSE [fs[l] EXCEPT !.by = @ \cup {p}]]
Truncated(l, p) ==
  [fs EXCEPT ![l] =
     IF fs[l].kind = "absent"
     THEN [kind |-> "file", blocks |-> <<>>, mode |-> DefaultMode,
           owner |-> "user", by |-> {p}]
     ELSE [fs[l] EXCEPT !.blocks = <<>>, !.by = @ \cup {p}]]

(* At the start everything that is there lies in a directory; Files has an *)
(* absent node where something may come to be.                             *)
ASSUME FilesAssumption ==
  /\ <<>> \in DOMAIN Files /\ Files[<<>>] = Directory
  /\ DOMAIN Files \subseteq Seq(STRING)
  /\ Files \in [DOMAIN Files ->
       {Absent, Directory} \cup
       [kind : {"file"}, blocks : Seq(Contents), mode : Nat, owner : STRING, by : {{}}]]
  /\ \A l \in DOMAIN Files \ {<<>>} :
       /\ Front(l) \in DOMAIN Files
       /\ Files[l] # Absent => Files[Front(l)] = Directory

-----------------------------------------------------------------------------
(* Archives.                                                               *)

Piece(entries, k) == Block("archive", NoName, entries, k)
Blocks(entries) == [k \in 1..Len(entries) + 1 |-> Piece(entries, k)]

(* ArrayReader.init: a header, and no shorter than the header says.        *)
IsHeader(b) == b.of = "archive" /\ b.at = 1
LengthUnchecked(buf) == TRUE   \* as if total_length > buf.len were accepted
LengthInBounds(buf) == Len(buf) >= Len(buf[1].entries) + 1
Parses(buf) == buf # <<>> /\ IsHeader(buf[1]) /\ LengthInBounds(buf)
EntryCount(buf) == Len(buf[1].entries)

(* The entries in given blocks.                                            *)
EntriesIn(blocks) == UNION {ToSet(b.entries) : b \in blocks}
ASSUME ContentsAssumption ==
  /\ \A b \in Contents :
       /\ b.entries \in Seq(EntriesIn(Contents))
       /\ b.of = "archive" => b.at \in 1..Len(b.entries) + 1
  /\ \A e \in EntriesIn(Contents) :
       e.kind \in {"file", "dir"} /\ e.body \in Seq(Contents)

(* What verify accepts; bytes after the archive are not looked at.         *)
IsWhole(buf) ==
  Parses(buf) /\ IsPrefix(Blocks(buf[1].entries), buf)

(* What reading entry k can yield: entry k; or, where the block of another *)
(* content lies, the entry found in it, or nothing that makes sense.       *)
Unreadable == [kind |-> "unreadable"]
EntriesReadAt(buf, k) ==
  LET b == IF k < Len(buf) THEN buf[k + 1] ELSE Hole
      isEntry == b.of = "archive" /\ b.at >= 2
  IN  IF b = Piece(buf[1].entries, k + 1)
      THEN {b.entries[k]}
      ELSE {Unreadable} \cup IF isEntry THEN {b.entries[b.at - 1]} ELSE {}

(* The metadata keys serializeFileEntry writes for create, and the mode    *)
(* that entryMetadataAt finds under the key it asks for.                   *)
WrittenKeys == {"md", "mt", "pa", "ui", "un", "gi", "gn"}
ModeKeyRead == "mo"
ModeRead(e) == IF ModeKeyRead \in WrittenKeys THEN e.mode ELSE 0

-----------------------------------------------------------------------------
(* Processes.  A command is [op, force, inputs, file, dir]: for create,    *)
(* file is the output with its extension; for extract, the archive.        *)

Local ==
  [pc |-> "start", j |-> 0, size |-> 0, buf |-> <<>>, entries |-> <<>>,
   ownerBuf |-> NoName, entry |-> Unreadable, reported |-> {}, exit |-> "none"]

Init ==
  /\ fs = Files
  /\ job \in Jobs
  /\ proc = [p \in Procs |->
               [Local EXCEPT !.pc = IF job[p].op = "none" THEN "done" ELSE "start"]]

(* Files has a node wherever a command may look or write; ArchivedPaths    *)
(* are those an archive may come to hold.                                  *)
ArchivedPaths ==
  {e.path : e \in EntriesIn(Contents)} \cup
  UNION {{normalize_path_inplace(i) : i \in ToSet(j[p].inputs)} :
           j \in Jobs, p \in Procs}
ASSUME JobsAssumption ==
  \A j \in Jobs : \A p \in Procs :
    /\ j[p].op \in {"none", "create", "extract"}
    /\ j[p].inputs \in Seq(ToSet(j[p].inputs))
    /\ Location(j[p].file) \in DOMAIN Files
    /\ \A i \in ToSet(j[p].inputs) : Location(i) \in DOMAIN Files
    /\ j[p].op = "extract" =>
         /\ Location(j[p].dir) \in DOMAIN Files
         /\ \A path \in ArchivedPaths :
              Location(j[p].dir) \o Location(path) \in DOMAIN Files

Target(p) == Location(job[p].file)
Input(p) == job[p].inputs[proc[p].j]

At(p, op, pc) == job[p].op = op /\ proc[p].pc = pc

(* Exits of a process that leave every file as it is.                      *)
Exit(p, code) ==
  /\ proc' = [proc EXCEPT ![p].pc = "done", ![p].exit = code]
  /\ UNCHANGED <<fs, job>>
Goto(p, pc) ==
  /\ proc' = [proc EXCEPT ![p].pc = pc]
  /\ UNCHANGED <<fs, job>>

(* read_file: fopen and the size by fseek and ftell; then fread of so many *)
(* bytes, which may come in several reads; a file that has become shorter  *)
(* fails the comparison got != sz.                                         *)
OpenForReading(p, l, pc) ==
  \/ /\ fs[l].kind = "file"
     /\ proc' = [proc EXCEPT ![p].pc = pc, ![p].buf = <<>>,
                             ![p].size = Len(fs[l].blocks)]
     /\ UNCHANGED <<fs, job>>
  \/ Exit(p, "io")

(* ReadShort: as if got != sz were accepted.                               *)
ReadShort(p) == Len(proc[p].buf) + 1 >= proc[p].size
ReadComplete(p) == Len(proc[p].buf) = proc[p].size
ReadBlock(p, l) ==
  LET n == Len(proc[p].buf) + 1
  IN  /\ n <= proc[p].size
      /\ \/ /\ n <= Len(fs[l].blocks)
            /\ proc' = [proc EXCEPT ![p].buf = Append(@, fs[l].blocks[n])]
            /\ UNCHANGED <<fs, job>>
         \/ Exit(p, "io")

(* write_file, after fopen: fwrite in blocks.                              *)
WriteComplete(p, blocks) == proc[p].size = Len(blocks)
WriteBlock(p, l, blocks) ==
  LET n == proc[p].size + 1
  IN  /\ n <= Len(blocks)
      /\ fs' = [fs EXCEPT ![l].blocks = Put(@, n, blocks[n])]
      /\ proc' = [proc EXCEPT ![p].size = n]
      /\ UNCHANGED job

-----------------------------------------------------------------------------
(* cmd_create_impl.                                                        *)

OutputExists(p) == fs[Target(p)].kind # "absent"

CheckOutput(p) ==
  /\ At(p, "create", "start")
  /\ IF ~job[p].force /\ OutputExists(p)
     THEN Exit(p, "usage")
     ELSE /\ proc' = [proc EXCEPT ![p].pc = "input", ![p].j = 1]
          /\ UNCHANGED <<fs, job>>

InputsDone(p) == proc[p].j > Len(job[p].inputs)

CheckInput(p) ==
  /\ At(p, "create", "input") /\ ~InputsDone(p)
  /\ IF fs[Location(Input(p))].kind = "dir"
     THEN Exit(p, "usage")
     ELSE Goto(p, "open")

OpenInput(p) ==
  /\ At(p, "create", "open")
  /\ OpenForReading(p, Location(Input(p)), "read")

ReadInput(p) ==
  /\ At(p, "create", "read")
  /\ ReadBlock(p, Location(Input(p)))

(* stat and fill_entry_metadata: the owner's name is kept as a pointer to  *)
(* the buffer of getpwuid, with its length; without stat there is neither. *)
StatInput(p) ==
  /\ At(p, "create", "read") /\ ReadComplete(p)
  /\ LET node == fs[Location(Input(p))]
         entry == [kind |-> "file", path |-> normalize_path_inplace(Input(p)),
                   body |-> proc[p].buf, mode |-> node.mode, owner |-> node.owner]
         next(e, name) ==
           proc' = [proc EXCEPT ![p].pc = "input", ![p].j = @ + 1,
                                ![p].entries = Append(@, e), ![p].ownerBuf = name]
     IN  \/ next(entry, node.owner)
         \/ next([entry EXCEPT !.mode = 0, !.owner = NoName], proc[p].ownerBuf)
  /\ UNCHANGED <<fs, job>>

(* blar_archive_create_full reads through the pointers only now, as many   *)
(* bytes as the owner's own name has.                                      *)
Dereferenced(e, name) ==
  [e EXCEPT !.owner = IF @ = NoName THEN NoName ELSE name]

Build(p) ==
  /\ At(p, "create", "input") /\ InputsDone(p)
  /\ \/ /\ LET named(e) == Dereferenced(e, proc[p].ownerBuf)
           IN  proc' = [proc EXCEPT
                 ![p].pc = "output",
                 ![p].entries = [k \in DOMAIN @ |-> named(@[k])]]
        /\ UNCHANGED <<fs, job>>
     \/ Exit(p, "io")

OpenOutput(p) ==
  /\ At(p, "create", "output")
  /\ \/ /\ Writable(Target(p))
        /\ fs' = Truncated(Target(p), p)
        /\ proc' = [proc EXCEPT ![p].pc = "write", ![p].size = 0]
        /\ UNCHANGED job
     \/ Exit(p, "io")

WriteOutput(p) ==
  /\ At(p, "create", "write")
  /\ WriteBlock(p, Target(p), Blocks(proc[p].entries))

(* ok = every byte written and fclose succeeded.                           *)
CreateClosed(p) == TRUE   \* as if put == len were not compared
CreateSucceeds(p) == WriteComplete(p, Blocks(proc[p].entries))
CloseOutput(p) ==
  /\ At(p, "create", "write")
  /\ \/ CreateSucceeds(p) /\ Exit(p, "ok")
     \/ Exit(p, "io")

-----------------------------------------------------------------------------
(* cmd_extract.                                                            *)

OutDir(p) == Location(job[p].dir)
EntryTarget(p) == OutDir(p) \o Location(proc[p].entry.path)

OpenArchive(p) ==
  /\ At(p, "extract", "start")
  /\ OpenForReading(p, Target(p), "read")

ReadArchive(p) ==
  /\ At(p, "extract", "read")
  /\ ReadBlock(p, Target(p))

(* mkdirp of the output directory comes before the archive is looked at.   *)
MakeOutDir(p) ==
  /\ At(p, "extract", "read") /\ ReadComplete(p)
  /\ fs' = mkdirp(OutDir(p))
  /\ proc' =
       IF Blocked(OutDir(p))
       THEN [proc EXCEPT ![p].pc = "done", ![p].exit = "io"]
       ELSE [proc EXCEPT ![p].pc = "count"]
  /\ UNCHANGED job

(* In a buffer that mixes two archives the index may not be readable.      *)
CountEntries(p) ==
  /\ At(p, "extract", "count")
  /\ \/ /\ Parses(proc[p].buf)
        /\ proc' = [proc EXCEPT ![p].pc = "entry", ![p].j = 1]
        /\ UNCHANGED <<fs, job>>
     \/ ~IsWhole(proc[p].buf) /\ Exit(p, "data")

EntriesDone(p) == proc[p].j > EntryCount(proc[p].buf)
ExtractDone(p) ==
  /\ At(p, "extract", "entry") /\ EntriesDone(p)
  /\ Exit(p, "ok")

(* The loop goes on with the next entry: with a message on stderr, or none.*)
Continue(p, messages) ==
  proc' = [proc EXCEPT ![p].pc = "entry", ![p].j = @ + 1,
                       ![p].reported = @ \cup messages, ![p].entry = Unreadable]

(* entry_type, then mkdirp for a DIR, whose result is ignored, or          *)
(* ensure_parent_dir for a FILE.                                           *)
TakeEntry(p) ==
  /\ At(p, "extract", "entry") /\ ~EntriesDone(p)
  /\ \E e \in EntriesReadAt(proc[p].buf, proc[p].j) :
       LET l == OutDir(p) \o Location(e.path)
       IN  CASE e.kind = "unreadable" -> Continue(p, {}) /\ UNCHANGED fs
             [] e.kind = "dir" -> fs' = mkdirp(l) /\ Continue(p, {})
             [] e.kind = "file" ->
                  /\ fs' = mkdirp(Front(l))
                  /\ IF Blocked(Front(l))
                     THEN Continue(p, {proc[p].j})
                     ELSE proc' = [proc EXCEPT ![p].pc = "target", ![p].entry = e]
  /\ UNCHANGED job

OpenTarget(p) ==
  /\ At(p, "extract", "target")
  /\ \/ /\ Writable(EntryTarget(p))
        /\ fs' = Truncated(EntryTarget(p), p)
        /\ proc' = [proc EXCEPT ![p].pc = "write", ![p].size = 0]
     \/ Continue(p, {proc[p].j}) /\ UNCHANGED fs
  /\ UNCHANGED job

(* No memory for the copy of the content: the loop goes on with no message.*)
ContentFails(p) ==
  /\ At(p, "extract", "target")
  /\ Continue(p, {})
  /\ UNCHANGED <<fs, job>>

WriteTarget(p) ==
  /\ At(p, "extract", "write")
  /\ WriteBlock(p, EntryTarget(p), proc[p].entry.body)

CloseTarget(p) ==
  /\ At(p, "extract", "write")
  /\ \/ /\ WriteComplete(p, proc[p].entry.body)
        /\ proc' = [proc EXCEPT ![p].pc = "metadata"]
     \/ Continue(p, {proc[p].j})
  /\ UNCHANGED <<fs, job>>

(* chmod unless the mode is zero; its failure is ignored.                  *)
RestoreMetadata(p) ==
  /\ At(p, "extract", "metadata")
  /\ LET mode == ModeRead(proc[p].entry)
         changed == [fs EXCEPT ![EntryTarget(p)].mode = mode]
     IN  fs' \in {fs} \cup IF mode # 0 THEN {changed} ELSE {}
  /\ Continue(p, {})
  /\ UNCHANGED job

-----------------------------------------------------------------------------
(* A process may be killed at any time; its files stay as they are.        *)
Killed(p) == proc[p].pc # "done" /\ Exit(p, "killed")

Create(p) ==
  \/ CheckOutput(p) \/ CheckInput(p) \/ OpenInput(p) \/ ReadInput(p)
  \/ StatInput(p) \/ Build(p) \/ OpenOutput(p) \/ WriteOutput(p)
  \/ CloseOutput(p)
Extract(p) ==
  \/ OpenArchive(p) \/ ReadArchive(p) \/ MakeOutDir(p) \/ CountEntries(p)
  \/ TakeEntry(p) \/ OpenTarget(p) \/ ContentFails(p) \/ WriteTarget(p)
  \/ CloseTarget(p) \/ RestoreMetadata(p) \/ ExtractDone(p)

Next == \E p \in Procs : Create(p) \/ Extract(p) \/ Killed(p)

Spec == Init /\ [][Next]_vars
-----------------------------------------------------------------------------
(* Type correctness.  Contents are left open: they are what files hold.    *)
Places == {"start", "input", "open", "read", "output", "write", "count",
           "entry", "target", "metadata", "done"}
TypeOK ==
  /\ job \in Jobs
  /\ DOMAIN fs = DOMAIN Files
  /\ \A l \in DOMAIN fs :
       /\ fs[l].kind \in {"absent", "dir", "file"}
       /\ fs[l].by \subseteq Procs
       /\ fs[l].kind # "file" => fs[l] \in {Absent, Directory}
       /\ fs[l].kind # "absent" /\ l # <<>> => fs[Front(l)].kind = "dir"
  /\ \A p \in Procs :
       /\ proc[p].pc \in Places
       /\ proc[p].exit \in {"none", "ok", "usage", "io", "data", "killed"}
       /\ Len(proc[p].buf) <= proc[p].size \/ proc[p].pc # "read"

Succeeded(p, op) == job[p].op = op /\ proc[p].exit = "ok"
OnlyWriter(p, l) == fs[l].by = {p}
NoOtherWriter(p, l) == fs[l].by \subseteq {p}

(* A create that exits with EXIT_OK has left a whole archive, also over an *)
(* older or longer file, unless another process wrote to the same file.    *)
SuccessLeavesWholeArchive ==
  \A p \in Procs :
    Succeeded(p, "create") /\ OnlyWriter(p, Target(p)) =>
      fs[Target(p)].blocks = Blocks(proc[p].entries)

(* The archive holds every input, in the order of the arguments, as it was *)
(* before the command ran, even if the output replaces that very input.    *)
InputsArchivedAsTheyWere ==
  \A p \in Procs :
    Succeeded(p, "create") =>
      /\ Len(proc[p].entries) = Len(job[p].inputs)
      /\ \A k \in DOMAIN proc[p].entries :
           LET l == Location(job[p].inputs[k])
           IN  NoOtherWriter(p, l) => proc[p].entries[k].body = Files[l].blocks

(* When extract has finished, a file it wrote without an error message for *)
(* any entry of that name is complete and is one of these entries: a short *)
(* write, a name that is both a file and a directory, or two entries of    *)
(* one name leave no mixture behind unnoticed.                             *)
EntriesFor(p, l) ==
  {k \in 1..EntryCount(proc[p].buf) :
     LET e == proc[p].buf[1].entries[k]
     IN  e.kind = "file" /\ OutDir(p) \o Location(e.path) = l}
UnreportedFilesComplete ==
  \A p \in Procs :
    Succeeded(p, "extract") /\ IsWhole(proc[p].buf) =>
      \A l \in DOMAIN fs :
        OnlyWriter(p, l) /\ EntriesFor(p, l) \cap proc[p].reported = {} =>
          \E k \in EntriesFor(p, l) :
            fs[l].blocks = proc[p].buf[1].entries[k].body

(* extract beside a create that is writing the archive for the first time, *)
(* or was killed doing so: it takes all of the archive or nothing of it.   *)
(* (Over an older archive this is not so: reads of the old and of the new  *)
(* file can mix, and extract checks no checksum.)                          *)
ExtractTakesAllOrNothing ==
  \A p, q \in Procs :
    /\ job[p].op = "extract" /\ \E l \in DOMAIN fs : p \in fs[l].by
    /\ job[q].op = "create" /\ Target(q) = Target(p)
    /\ Files[Target(p)].kind = "absent" /\ OnlyWriter(q, Target(p))
    => proc[p].buf = Blocks(proc[q].entries)

(* The owner in the archive is the owner of the file.                      *)
OwnersArchived ==
  \A p \in Procs :
    Succeeded(p, "create") =>
      \A k \in DOMAIN proc[p].entries :
        LET l == Location(job[p].inputs[k])
        IN  fs[l].by = {} => proc[p].entries[k].owner \in {NoName, Files[l].owner}

(* The reader's metadata of an entry is what the writer was given.         *)
ModeReadBack ==
  \A p \in Procs :
    \A k \in DOMAIN proc[p].entries :
      ModeRead(proc[p].entries[k]) = proc[p].entries[k].mode

=============================================================================
