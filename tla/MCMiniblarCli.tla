---------------------------- MODULE MCMiniblarCli ----------------------------
(***************************************************************************)
(* File systems and commands of miniblar for TLC.                          *)
(***************************************************************************)
EXTENDS MiniblarCli

CONSTANTS p1, p2

Text(name, owner, size) ==
  [kind |-> "file", blocks |-> [k \in 1..size |-> Block("text", name, <<>>, k)],
   mode |-> 2, owner |-> owner, by |-> {}]
Entry(path, name, size) ==
  [kind |-> "file", path |-> path, body |-> Text(name, "user", size).blocks,
   mode |-> 2, owner |-> "user"]
DirEntry(path) == [Entry(path, NoName, 0) EXCEPT !.kind = "dir"]
ArchiveFile(entries) == [Text(NoName, "user", 0) EXCEPT !.blocks = Blocks(entries)]

A == <<"a">>   B == <<"b">>   D == <<"d">>   F == <<"f">>   O == <<"o">>
Old == <<"old">>   Bad == <<"bad">>

(* Two entries of one name, a name used as file and as directory, a DIR    *)
(* entry, and an entry that replaces the archive itself.                   *)
Awkward ==
  <<Entry(F, "X", 2), Entry(<<"f", "g">>, "Y", 1), Entry(F, "Z", 1)>>
SelfReplacing == <<Entry(Bad, "X", 1), DirEntry(D), Entry(<<"d", "g">>, "Y", 1)>>

(* In the root: texts a and b, of different owners, archives old and bad;  *)
(* f is a file in d only.                                                  *)
MCFiles ==
  [l \in {O, Old} \cup
         {d \o m : d \in {<<>>, A, D},
                  m \in {<<>>, A, B, D, F, Bad, <<"f", "g">>, <<"d", "g">>}} |->
     CASE l = <<>> -> Directory
       [] l = A -> Text("A", "user", 2)
       [] l = B -> Text("B", "root", 1)
       [] l = Old -> ArchiveFile(Awkward)
       [] l = Bad -> ArchiveFile(SelfReplacing)
       [] OTHER -> Absent]

MCContents ==
  LET files == UNION {ToSet(MCFiles[l].blocks) : l \in DOMAIN MCFiles}
  IN  files \cup UNION {ToSet(e.body) : e \in EntriesIn(files)}

Idle == [op |-> "none", force |-> FALSE, inputs |-> <<>>, file |-> <<>>, dir |-> <<>>]
CreateCmd(file, inputs, force) ==
  [Idle EXCEPT !.op = "create", !.file = file, !.inputs = inputs, !.force = force]
ExtractCmd(file, dir) ==
  [Idle EXCEPT !.op = "extract", !.file = file, !.dir = dir]
Both(c1, c2) == [p \in {p1, p2} |-> IF p = p1 THEN c1 ELSE c2]

(* In turn: an archive is extracted while it is created; an archive is     *)
(* replaced while it is extracted; create with an input as its output; two *)
(* creates, one of which replaces the input of the other; two creates of   *)
(* one output; two extractions into one directory; an extraction whose     *)
(* directory is a file; an archive that replaces itself; no such input.    *)
MCJobs ==
  {Both(CreateCmd(O, <<A, B>>, FALSE), ExtractCmd(O, D)),
   Both(CreateCmd(Old, <<A>>, TRUE), ExtractCmd(Old, D)),
   Both(CreateCmd(A, <<A, B>>, TRUE), Idle),
   Both(CreateCmd(O, <<A, B>>, FALSE), CreateCmd(B, <<A>>, TRUE)),
   Both(CreateCmd(O, <<A>>, TRUE), CreateCmd(O, <<B, A>>, FALSE)),
   Both(ExtractCmd(Old, D), ExtractCmd(Bad, <<>>)),
   Both(ExtractCmd(Old, A), Idle),
   Both(ExtractCmd(Bad, <<".">>), CreateCmd(O, <<B, F, D>>, FALSE)),
   Both(CreateCmd(O, <<B, <<>> >>, FALSE), Idle)}

TwoOwners == {Both(CreateCmd(O, <<A, B>>, FALSE), Idle)}
=============================================================================
