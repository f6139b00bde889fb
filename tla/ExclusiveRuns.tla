---------------------------- MODULE ExclusiveRuns ----------------------------
(***************************************************************************)
(* What the task engine promises its users, without coroutines, ticks or   *)
(* configuration: a task is claimed by at most one run at a time, and the  *)
(* execution history is written by the run that holds the claim.           *)
(***************************************************************************)
CONSTANTS Tasks, Rows, NoTask, NoRow, Terminal

VARIABLES
  busy,   \* the claimed tasks
  hist    \* the execution history: status and task of each row

Init ==
  /\ busy = {}
  /\ hist = [r \in Rows |-> [st |-> "absent", task |-> NoTask]]

\* A run claims an unclaimed task and opens a row for it, if it can.
Claim(t, r) ==
  /\ t \notin busy
  /\ busy' = busy \cup {t}
  /\ \/ hist' = hist
     \/ /\ r \in Rows /\ hist[r].st = "absent"
        /\ hist' = [hist EXCEPT ![r] = [st |-> "running", task |-> t]]

\* The run that holds the claim closes its own open row.
Close(t, r, st) ==
  /\ t \in busy /\ hist[r] = [st |-> "running", task |-> t]
  /\ st \in Terminal
  /\ hist' = [hist EXCEPT ![r] = [st |-> st, task |-> t]]
  /\ UNCHANGED busy

\* The claim is given up, possibly closing the row in the same step.
Release(t, r) ==
  /\ t \in busy
  /\ busy' = busy \ {t}
  /\ \/ hist' = hist
     \/ /\ r \in Rows /\ hist[r] = [st |-> "running", task |-> t]
        /\ hist' = [hist EXCEPT ![r] = [st |-> "failed", task |-> t]]

\* A crash gives up every claim and closes nothing ...
Abort == busy' = {} /\ hist' = hist

\* ... and a restart closes what was left open, before anything is claimed.
Recover ==
  /\ busy = {} /\ busy' = {}
  /\ hist' = [r \in Rows |-> IF hist[r].st = "running"
                             THEN [st |-> "terminated", task |-> hist[r].task] ELSE hist[r]]

\* Old history is dropped.
Forget(r) ==
  /\ hist[r].st \in Terminal
  /\ hist' = [hist EXCEPT ![r] = [st |-> "absent", task |-> NoTask]]
  /\ UNCHANGED busy

Next ==
  \/ \E t \in Tasks, r \in Rows \cup {NoRow} : Claim(t, r) \/ Release(t, r)
  \/ \E t \in Tasks, r \in Rows, st \in Terminal : Close(t, r, st)
  \/ Abort
  \/ Recover
  \/ \E r \in Rows : Forget(r)

Spec == Init /\ [][Next]_<<busy, hist>>

=============================================================================
