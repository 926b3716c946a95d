------------------------------- MODULE JobPool -------------------------------
(***************************************************************************)
(* What a pool of worker threads promises those who give it jobs: a job    *)
(* that was accepted is run by one thread, once, and jobs are begun in the *)
(* order in which they were accepted; a shut-down pool has run them all.   *)
(* How threads sleep and are woken is of no concern here.                  *)
(***************************************************************************)
EXTENDS Naturals, Sequences, FiniteSets

CONSTANTS
  Threads,   \* all threads the pool may ever have
  Jobs,
  NoJob      \* none of Jobs

VARIABLES
  queue,     \* accepted, not yet begun
  running,   \* the job each thread has in hand
  begun,     \* the jobs begun so far, in this order
  open       \* jobs are still accepted

poolVars == <<queue, running, begun, open>>

Busy == {t \in Threads : running[t] # NoJob}
Queued == {queue[i] : i \in DOMAIN queue}
Begun == {begun[i] : i \in DOMAIN begun}

Init ==
  /\ queue = <<>>
  /\ running = [t \in Threads |-> NoJob]
  /\ begun = <<>>
  /\ open = TRUE

Accept(j) ==
  /\ open
  /\ j \notin Queued \cup Begun
  /\ queue' = Append(queue, j)
  /\ UNCHANGED <<running, begun, open>>

BeginJob(t) ==
  /\ queue # <<>>
  /\ running[t] = NoJob
  /\ running' = [running EXCEPT ![t] = Head(queue)]
  /\ begun' = Append(begun, Head(queue))
  /\ queue' = Tail(queue)
  /\ UNCHANGED open

EndJob(t) ==
  /\ running[t] # NoJob
  /\ running' = [running EXCEPT ![t] = NoJob]
  /\ UNCHANGED <<queue, begun, open>>

Close ==
  /\ open
  /\ open' = FALSE
  /\ UNCHANGED <<queue, running, begun>>

Next ==
  \/ \E j \in Jobs : Accept(j)
  \/ \E t \in Threads : BeginJob(t) \/ EndJob(t)
  \/ Close

(* Threads keep working while there is work.                               *)
Spec == Init /\ [][Next]_poolVars
             /\ WF_poolVars(\E t \in Threads : BeginJob(t))
             /\ \A t \in Threads : WF_poolVars(EndJob(t))
=============================================================================
