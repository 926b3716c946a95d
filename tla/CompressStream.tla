---------------------------- MODULE CompressStream ----------------------------
(***************************************************************************)
(* What compress() of compression_zstd.zig promises for an input at or     *)
(* above MT_INPUT_THRESHOLD, whatever the number of worker threads: "Output*)
(* bytes never depend on num_threads".  The call returns an error, or the  *)
(* whole of one frame, which the input alone determines.                   *)
(*                                                                         *)
(* The input is the units 1 .. Total (a unit is one piece a worker         *)
(* compresses at a time).  A block of the frame stands for the bytes it    *)
(* becomes: it names all the encoder may look at to make them.             *)
(***************************************************************************)
EXTENDS Naturals, Sequences, SequencesExt

(* total: the units of input; section: the units per job                   *)
(* (targetSectionSize); overlap: the units of history a job starts with    *)
(* (targetPrefixSize); ldm: the window of long distance matching, or 0.    *)
CONSTANT Calls   \* the calls considered: [total, section, overlap, ldm]

VARIABLES
  call,      \* the call, fixed
  result,    \* the bytes returned
  outcome    \* running, ok or error

Lowest(a, b) == IF a < b THEN a ELSE b
Highest(a, b) == IF a > b THEN a ELSE b
Units(from, to) == [i \in 1 .. Highest(to + 1, from) - from |-> from + i - 1]

JobCount(x) == (x.total + x.section - 1) \div x.section
JobStart(x, k) == k * x.section + 1
JobEnd(x, k) == Lowest((k + 1) * x.section, x.total)

(* The matches the serial step finds for a job: per unit, from the window  *)
(* that ends with that unit.                                               *)
LdmMatches(x, k) ==
  IF x.ldm = 0 THEN <<>>
  ELSE [c \in 1 .. JobEnd(x, k) - JobStart(x, k) + 1 |->
          LET u == JobStart(x, k) + c - 1
          IN  Units(Highest(1, u - x.ldm + 1), u)]

(* A block: the history it was compressed against, the units of the job up *)
(* to the end of this block, and the flags of the frame.                   *)
Block(x, k, c) ==
  [first  |-> k = 0,
   last   |-> k = JobCount(x) - 1 /\ JobStart(x, k) + c - 1 = x.total,
   prefix |-> IF k = 0 THEN <<>> ELSE Units(JobStart(x, k) - x.overlap, JobStart(x, k) - 1),
   src    |-> Units(JobStart(x, k), JobStart(x, k) + c - 1),
   ldm    |-> LdmMatches(x, k)]

JobBlocks(x, k) == [c \in 1 .. JobEnd(x, k) - JobStart(x, k) + 1 |-> Block(x, k, c)]
Frame(x) == FlattenSeq([k \in 1..JobCount(x) |-> JobBlocks(x, k - 1)])
Frames == [x \in Calls |-> Frame(x)]

-----------------------------------------------------------------------------
Init == call \in Calls /\ result = <<>> /\ outcome = "running"

Finish ==
  /\ outcome = "running"
  /\ result' = Frames[call]
  /\ outcome' = "ok"
  /\ UNCHANGED call

Fail ==
  /\ outcome = "running"
  /\ outcome' = "error"
  /\ UNCHANGED <<call, result>>

Next == Finish \/ Fail

(* The call returns.                                                       *)
Spec == Init /\ [][Next]_<<call, result, outcome>> /\ WF_<<call, result, outcome>>(Next)
=============================================================================
