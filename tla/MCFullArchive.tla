---------------------------- MODULE MCFullArchive ----------------------------
(***************************************************************************)
(* Instances of createFullArchive for TLC.                                 *)
(***************************************************************************)
EXTENDS FullArchive

File(path, body, size) ==
  [kind |-> "file", path |-> path, body |-> body, size |-> size,
   packed |-> FALSE, rfork |-> FALSE, xattrs |-> <<>>, xh |-> ZeroHash]
Packed(f) == [f EXCEPT !.packed = TRUE]
WithForks(f, names) == [f EXCEPT !.rfork = TRUE, !.xattrs = names]
Dir(path) ==
  [kind |-> "dir", path |-> path, body |-> "", size |-> 0, packed |-> FALSE,
   rfork |-> FALSE, xattrs |-> <<>>, xh |-> ZeroHash]
WithHash(d, xh64) == [d EXCEPT !.xh = xh64]

Call(entries, comp, threads) ==
  [entries |-> entries, comp |-> comp, threads |-> threads]

DirA == Dir(<<"a">>)
FileAX == File(<<"a", "x">>, "bodyX", 2)
FileAY == File(<<"a", "y">>, "bodyY", 3)
FileZ == File(<<"z">>, "bodyZ", 1)
FileAXDeep == File(<<"a", "b", "x">>, "bodyX", 2)

(* Entries of regular calls.  In turn: a directory                         *)
(* with two children and a file outside it, in mixed order; a nested       *)
(* directory; directories "a", "a/" and "" with a child each; a packed     *)
(* file; a file that cannot be serialized ("rf" both as xattr and as       *)
(* resource fork) between two that can; a directory that cannot be         *)
(* serialized.                                                             *)
Mixed == <<FileAY, DirA, FileZ, FileAX>>
Nested == <<DirA, FileAXDeep, Dir(<<"a", "b">>), FileZ>>
Slashes ==
  <<Dir(<<"a", "">>), FileAX, Dir(<<"">>), File(<<"a", "", "x">>, "bodyY", 1), DirA,
    File(<<"", "z">>, "bodyZ", 1)>>
WithPacked == <<Packed(FileAX), DirA, FileAY>>
WithBadFile == <<FileZ, WithForks(FileAX, <<"rf">>), FileAY>>
WithBadDir == <<[DirA EXCEPT !.xattrs = <<"n", "n">>], FileAX, FileAY>>

(* Three files on three workers: a spawn can fail with two running.        *)
ThreeWorkerCalls ==
  {Call(<<FileZ, Packed(FileAX), Packed(FileAY)>>, "zstd", 3)}

PoolCalls ==
  {Call(Mixed, "zstd", 2), Call(WithBadFile, "zstd", 2),
   Call(WithPacked, "zstd", 3), Call(WithBadDir, "zstd", 2)} \cup ThreeWorkerCalls
SequentialCalls ==
  {Call(Mixed, NoComp, 0), Call(Mixed, "zstd", 1), Call(Nested, NoComp, 2),
   Call(WithBadFile, NoComp, 0), Call(WithBadFile, "zstd", 1),
   Call(<<FileZ>>, "zstd", 2), Call(<<>>, "zstd", 2), Call(WithBadDir, NoComp, 1),
   Call(WithPacked, "other", 1), Call(Slashes, NoComp, 0)}
SmallPoolCalls ==
  {Call(Nested, "zstd", 0), Call(WithPacked, "other", 2),
   Call(<<FileZ, WithForks(FileAX, <<"rf">>)>>, "zstd", 2)}

RefinementCalls == SequentialCalls \cup SmallPoolCalls

ASSUME RegularCalls == \A c \in PoolCalls \cup RefinementCalls : Regular(c)

(* Calls outside the preconditions of FreshArchiveVerifies: a DIR without  *)
(* files whose caller left a hash in xh64; two files with one path.        *)
StaleHashCalls ==
  {Call(<<WithHash(DirA, <<"stale", <<>>>>), FileZ>>, comp, 2) :
     comp \in {NoComp, "zstd"}}
DuplicatePathCalls ==
  {Call(<<DirA, FileAX, [FileAX EXCEPT !.body = "other"]>>, comp, 2) :
     comp \in {NoComp, "zstd"}}
=============================================================================
