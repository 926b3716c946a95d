----------------------------- MODULE MCThreadPool -----------------------------
(* Small pools for TLC.                                                    *)
EXTENDS ThreadPool

MCNoJob == 0
OneToThree == {1, 3}
OneAndTwo == {1, 2}
=============================================================================
