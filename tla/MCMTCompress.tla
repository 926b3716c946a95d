---------------------------- MODULE MCMTCompress ----------------------------
(* Small calls of compress() for TLC.                                      *)
EXTENDS MTCompress

MCNoJob == -1

Call(nbWorkers, total, section, overlap, ldm, chunk, failing) ==
  [workers |-> nbWorkers, total |-> total, section |-> section,
   overlap |-> overlap, ldm |-> ldm, chunk |-> chunk, failures |-> failing]

(* Seven jobs of two units that go once and a half round the buffer; six   *)
(* with long distance matching over two jobs; three with a failure.        *)
PieceCalls ==
  {Call(2, 13, 2, 2, 0, 1, 0), Call(2, 12, 2, 2, 4, 2, 0),
   Call(2, 6, 2, 2, 2, 3, 1)}

(* Four jobs with a failure; on one worker, eight that go round the buffer,*)
(* with long distance matching, chunks that end within a job, a failure.   *)
PromiseCalls == {Call(2, 4, 1, 1, 0, 2, 1), Call(1, 8, 1, 1, 1, 3, 1)}
=============================================================================
