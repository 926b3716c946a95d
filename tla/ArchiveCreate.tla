---------------------------- MODULE ArchiveCreate ----------------------------
(***************************************************************************)
(* What one call of createFullArchive promises its caller, with no word    *)
(* about threads: it returns either the archive of its entries, in their   *)
(* order, every DIR hashed over its direct children, or one error that the *)
(* entries can cause when they are taken in order.  A caller cannot tell   *)
(* from the result how many threads ran.                                   *)
(***************************************************************************)
EXTENDS ArchiveFormat

CONSTANT Calls   \* the calls considered: [entries, comp, threads]

VARIABLES
  call,      \* the arguments, fixed
  outcome    \* what the call has returned so far

Running == [status |-> "running"]
Returned(archive) == [status |-> "ok", archive |-> archive]
Failed(e) == [status |-> "error", error |-> e]

(* The container each entry becomes, given all entries of the call.        *)
PromisedElement(c, i) ==
  LET e == c.entries[i]
      children == Listed({j \in FileIndices(c.entries) :
                            isDirectChild(e.path, c.entries[j].path)})
      hashes == [k \in DOMAIN children |->
                   Checksum(FileContainer(c.entries[children[k]], c.comp))]
  IN  IF IsFile(e)
      THEN FileContainer(e, c.comp)
      ELSE DirContainer(e, IF hashes = <<>> THEN ZeroHash
                                            ELSE computeMerkleHash(hashes))

Promised(c) ==
  Archive(c.entries, [i \in DOMAIN c.entries |-> PromisedElement(c, i)])

AllSerializable(c) ==
  /\ \A i \in FileIndices(c.entries) : FileSerializable(c.entries[i], c.comp)
  /\ \A i \in DirIndices(c.entries) : DirSerializable(c.entries[i])

(* The errors the entries can cause: those of a file no earlier file makes *)
(* fail for certain, or those of a directory when all files are fine.      *)
PossibleErrors(c) ==
  LET files == FileIndices(c.entries)
      dirs == DirIndices(c.entries)
      fileOk(i) == FileSerializable(c.entries[i], c.comp)
      dirOk(i) == DirSerializable(c.entries[i])
      reached == {i \in files : \A j \in files : j < i => fileOk(j)}
      reachedDirs == {i \in dirs : /\ \A j \in files : fileOk(j)
                                   /\ \A j \in dirs : j < i => dirOk(j)}
  IN  {"OutOfMemory"}
        \cup (UNION {FileErrors(c.entries[i], c.comp) : i \in reached})
        \cup (UNION {DirErrors(c.entries[i]) : i \in reachedDirs})

-----------------------------------------------------------------------------
Init == call \in Calls /\ outcome = Running

Succeed ==
  /\ outcome = Running
  /\ AllSerializable(call)
  /\ outcome' = Returned(Promised(call))
  /\ UNCHANGED call

Fail ==
  /\ outcome = Running
  /\ \E e \in PossibleErrors(call) : outcome' = Failed(e)
  /\ UNCHANGED call

Next == Succeed \/ Fail

Spec == Init /\ [][Next]_<<call, outcome>> /\ WF_<<call, outcome>>(Next)
=============================================================================
