---------------------------- MODULE MCArchiveReader ----------------------------
(***************************************************************************)
(* Archives with a directory, plain and compressed files, and two files of *)
(* one path.                                                               *)
(***************************************************************************)
EXTENDS ArchiveReader

File(path, body) ==
  [kind |-> "file", path |-> path, body |-> body, size |-> 1,
   packed |-> FALSE, rfork |-> FALSE, xattrs |-> <<>>, xh |-> ZeroHash]
Dir(path) ==
  [kind |-> "dir", path |-> path, body |-> "", size |-> 0, packed |-> FALSE,
   rfork |-> FALSE, xattrs |-> <<>>, xh |-> ZeroHash]

Packed(f) == [f EXCEPT !.packed = TRUE]

(* A packed file is stored as it is, so both kinds of content are there.   *)
Tree == <<Dir(<<"a">>), File(<<"a", "x">>, "bodyX"), Packed(File(<<"z">>, "bodyZ"))>>
SamePath == <<File(<<"z">>, "bodyX"), Packed(File(<<"z">>, "bodyZ"))>>

MCArchives ==
  {[entries |-> Tree, comp |-> "zstd"], [entries |-> SamePath, comp |-> NoComp],
   [entries |-> <<>>, comp |-> NoComp]}
=============================================================================
