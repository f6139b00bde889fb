---------------------------- MODULE BulkCommitJobs ----------------------------
(***************************************************************************)
(* The background jobs of the bulk commit (backend/routers/channels.py:    *)
(* POST /bulk-commit, its runner, GET /bulk-commit/{job_id} and the TTL    *)
(* prune), with the browser's polling loop (frontend/src/services/api.ts). *)
(* A run is only its end here: completed, or failed.  Job state is in      *)
(* memory, so a restart takes runs and jobs with it.                       *)
(***************************************************************************)
EXTENDS Naturals

CONSTANTS
    Jobs,        \* job ids a client may be given
    MaxRestarts  \* bound: restarts of the process

VARIABLES
    job,      \* _BULK_COMMIT_JOBS: the entry's status, or "none"
    old,      \* the jobs created longer ago than the TTL
    task,     \* the supervised task: "none", "running", "completed", "failed", "dead"
    client,   \* "idle", "polling", or how its call of bulkCommit ended
    restarts

jobVars == <<job, old, task, client, restarts>>

JobsInit ==
    /\ job = [j \in Jobs |-> "none"]
    /\ old = {}
    /\ task = [j \in Jobs |-> "none"]
    /\ client = [j \in Jobs |-> "idle"]
    /\ restarts = 0

(* _prune_old_bulk_commit_jobs: by age alone, whatever the status. *)
PrunedJobs(entries) == [j \in Jobs |-> IF j \in old THEN "none" ELSE entries[j]]

(* POST: prune, enter the job, start its task, answer 202. *)
Post(j) ==
    /\ client[j] = "idle"
    /\ job' = [PrunedJobs(job) EXCEPT ![j] = "running"]
    /\ task' = [task EXCEPT ![j] = "running"]
    /\ client' = [client EXCEPT ![j] = "polling"]
    /\ UNCHANGED <<old, restarts>>

(* Mutant: a failed run is listed as completed. *)
RunEndsCompleted(j) ==
    /\ task[j] = "running"
    /\ \E end \in {"completed", "failed"} :
        /\ task' = [task EXCEPT ![j] = end]
        /\ job' = [job EXCEPT ![j] = IF @ = "none" THEN @ ELSE "completed"]
    /\ UNCHANGED <<old, client, restarts>>

(* Mutant: the runner drops the job when it is done. *)
RunEndsForgets(j) ==
    /\ task[j] = "running"
    /\ \E end \in {"completed", "failed"} : task' = [task EXCEPT ![j] = end]
    /\ job' = [job EXCEPT ![j] = "none"]
    /\ UNCHANGED <<old, client, restarts>>

(* The runner ends; it holds the job object whether or not it is listed.    *)
RunEnds(j) ==
    /\ task[j] = "running"
    /\ \E end \in {"completed", "failed"} :
        /\ task' = [task EXCEPT ![j] = end]
        /\ job' = [job EXCEPT ![j] = IF @ = "none" THEN @ ELSE end]
    /\ UNCHANGED <<old, client, restarts>>

(* Thirty minutes pass since the job was created. *)
JobExpires(j) ==
    /\ task[j] # "none"
    /\ j \notin old
    /\ old' = old \cup {j}
    /\ UNCHANGED <<job, task, client, restarts>>

(* GET: a completed job is dropped on read. *)
Evicted(j) == [job EXCEPT ![j] = IF @ = "completed" THEN "none" ELSE @]

(* Mutant: an unknown job is polled again. *)
PollAgain(j) ==
    /\ client[j] = "polling"
    /\ job' = Evicted(j)
    /\ client' = [client EXCEPT ![j] = IF job[j] \in {"none", "running"} THEN "polling" ELSE job[j]]
    /\ UNCHANGED <<old, task, restarts>>

(* The client polls until a terminal answer; a 404 or a network error is    *)
(* thrown and ends its call.                                                *)
Poll(j) ==
    /\ client[j] = "polling"
    /\ job' = Evicted(j)
    /\ \E lost \in BOOLEAN :      \* the answer
        client' = [client EXCEPT ![j] =
                      IF lost THEN "network error"
                      ELSE CASE job[j] = "none" -> "not found"
                             [] job[j] = "running" -> "polling"
                             [] OTHER -> job[j]]
    /\ UNCHANGED <<old, task, restarts>>

(* The process restarts: the runs and the job table are gone. *)
Restart ==
    /\ restarts < MaxRestarts
    /\ restarts' = restarts + 1
    /\ job' = [j \in Jobs |-> "none"]
    /\ task' = [j \in Jobs |-> IF task[j] = "running" THEN "dead" ELSE task[j]]
    /\ UNCHANGED <<old, client>>

JobsNext ==
    \/ \E j \in Jobs : Post(j) \/ RunEnds(j) \/ JobExpires(j) \/ Poll(j)
    \/ Restart

JobsSpec == JobsInit /\ [][JobsNext]_jobVars

(* A run ends by itself, and the browser polls every 750 ms. *)
JobsFairness == \A j \in Jobs : WF_jobVars(RunEnds(j)) /\ WF_jobVars(Poll(j))

FairJobsSpec == JobsSpec /\ JobsFairness

-------------------------------------------------------------------------------
(* A client is told what its run did: "completed" or "failed" only of a run *)
(* that ended so, and "not found" never of a run still writing to           *)
(* Dispatcharr, where a retry would apply the batch twice, unless the run   *)
(* outlasted the TTL.                                                       *)
AnswerIsTrue ==
    \A j \in Jobs :
        /\ client[j] \in {"completed", "failed"} => task[j] = client[j]
        /\ client[j] = "not found" => task[j] # "running" \/ j \in old

(* Unless the process restarted, the TTL passed or the answer was lost, the *)
(* result of a run whose client has no answer yet is there to be read.      *)
ResultIsHeld ==
    \A j \in Jobs :
        task[j] = "completed" /\ j \notin old /\ restarts = 0
            => client[j] \in {"completed", "network error"} \/ job[j] = "completed"

(* A client that polls is told what its run did, while the job is held.     *)
JobsAnswer == AnswerIsTrue /\ ResultIsHeld

(* A client that keeps polling gets an answer that ends its loop. *)
ClientAnswered == \A j \in Jobs : client[j] = "polling" ~> client[j] # "polling"
===============================================================================
