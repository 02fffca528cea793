---------------------------- MODULE JobLifecycle ----------------------------
(***************************************************************************)
(* What the administration console is promised about a pipeline job: a row *)
(* is accepted once, is executed by at most one owner, ends exactly once,  *)
(* and a row whose owner is gone can only be closed by a recovery.         *)
(* This is the abstract specification PipelineJobs is shown to implement.  *)
(***************************************************************************)
CONSTANTS Jobs,    \* the rows of pipeline_jobs that may ever be created
          NoJob    \* not a job: nobody is executing

VARIABLES status,  \* status[j]: what the row of j says, "none" before it exists
          owner    \* the job being executed by the live worker, or NoJob

vars == <<status, owner>>

Active == {"queued", "running"}
Terminal == {"succeeded", "failed", "cancelled"}
Status == {"none"} \cup Active \cup Terminal

\* A row has one of the statuses of pipeline_jobs, and at most one job has an owner.
TypeOK ==
    /\ status \in [Jobs -> Status]
    /\ owner \in Jobs \cup {NoJob}

Init ==
    /\ status = [j \in Jobs |-> "none"]
    /\ owner = NoJob

Accept(j) ==
    /\ status[j] = "none"
    /\ status' = [status EXCEPT ![j] = "queued"]
    /\ UNCHANGED owner

Begin(j) ==
    /\ owner = NoJob
    /\ status[j] = "queued"
    /\ status' = [status EXCEPT ![j] = "running"]
    /\ owner' = j

\* The owner closes its own row; a row cancelled meanwhile is left as it is.
Finish(j, outcome) ==
    /\ owner = j
    /\ status[j] = "running"
    /\ status' = [status EXCEPT ![j] = outcome]
    /\ owner' = NoJob

\* The owner goes away (crash, lost transaction, row cancelled under it).
Release ==
    /\ owner # NoJob
    /\ owner' = NoJob
    /\ UNCHANGED status

Cancel(j) ==
    /\ status[j] \in Active
    /\ status' = [status EXCEPT ![j] = "cancelled"]
    /\ UNCHANGED owner

Recover ==
    /\ owner = NoJob
    /\ status' = [j \in Jobs |-> IF status[j] \in Active THEN "failed" ELSE status[j]]
    /\ UNCHANGED owner

Next ==
    \/ \E j \in Jobs : Accept(j) \/ Begin(j) \/ Cancel(j)
    \/ \E j \in Jobs, outcome \in {"succeeded", "failed"} : Finish(j, outcome)
    \/ Release
    \/ Recover

Spec == Init /\ [][Next]_vars

=============================================================================
