---------------------------- MODULE PipelineJobs ----------------------------
(***************************************************************************)
(* The in-process pipeline of the API: rows of pipeline_jobs in PostgreSQL *)
(* (job_service.py), the HTTP requests that create them (pipeline_jobs.py),*)
(* the in-memory queue and its single daemon worker (dispatcher.py), the   *)
(* runner that executes one job (runner.py), and the recovery that runs    *)
(* when the API starts (recovery.py, app.py).                              *)
(*                                                                         *)
(* The rows survive a crash of the API process; the queue, the worker and  *)
(* the requests do not.  Every action is one database transaction or one   *)
(* step of one thread between two transactions.                            *)
(***************************************************************************)
EXTENDS Naturals, Sequences

CONSTANTS
    Jobs,          \* the rows that may be created, one per HTTP request
    NoJob,         \* the worker holds no job
    Stop,          \* the None sentinel that shutdown() puts in the queue
    Slots,         \* a projection kind together with the version it projects
    NoSlot,        \* the slot of a job that is not a projection job
    SlotOf,        \* SlotOf[j]: the slot of the request that creates j
    Cancellable,   \* jobs on which PipelineJobService.cancel is called
    MaxWork,       \* bound on work_units and progress_total
    NoTotal,       \* progress_total is NULL
    MaxFaults,     \* bound on transactions that the database refuses
    MaxCrashes     \* bound on the times the process dies

ASSUME JobsAssumption == NoJob \notin Jobs /\ Stop \notin Jobs /\ NoJob # Stop
ASSUME SlotAssumption == NoSlot \notin Slots /\ SlotOf \in [Jobs -> Slots \cup {NoSlot}]
ASSUME CancelAssumption == Cancellable \subseteq Jobs
ASSUME BoundAssumption ==
    MaxWork \in Nat /\ MaxFaults \in Nat /\ MaxCrashes \in Nat /\ NoTotal \notin Nat

VARIABLES
    status,     \* status[j]: the status column, "none" before the row exists
    progress,   \* progress[j]: progress_current and progress_total
    request,    \* request[j]: where the HTTP request that creates j is
    queue,      \* dispatcher._queue
    worker,     \* the daemon thread: its program counter and its job
    api,        \* the API process
    abandoned,  \* observation: active rows that no live component will advance
    faults,     \* refused transactions so far
    crashes     \* crashes so far

rows == <<status, progress>>
bounds == <<faults, crashes>>
vars == <<status, progress, request, queue, worker, api, abandoned, faults, crashes>>

-----------------------------------------------------------------------------
Active == {"queued", "running"}
Terminal == {"succeeded", "failed", "cancelled"}
Status == {"none"} \cup Active \cup Terminal

\* Worker program counters while it holds a job.  "reporting" and "recording"
\* stand between the unlocked read of the row and the locked write.
Executing == {"executing", "reporting", "succeeding", "failing", "recording"}
Busy == {"starting"} \cup Executing

Work == 0 .. MaxWork
Progress == [current : Nat, total : Nat \cup {NoTotal}]

\* The rows, the requests, the queue, the worker and the process are what the code can
\* store in them; the queue holds jobs and the sentinel that ends the thread, a busy
\* worker has a job and an idle one has none.
TypeOK ==
    /\ status \in [Jobs -> Status]
    /\ progress \in [Jobs -> Progress]
    /\ request \in [Jobs -> {"idle", "checked", "committed", "answered", "refused", "lost"}]
    /\ queue \in Seq(Jobs \cup {Stop})
    /\ worker \in [pc : {"absent", "waiting"} \cup Busy, job : Jobs \cup {NoJob}]
    /\ (worker.pc \in Busy) <=> (worker.job # NoJob)
    /\ api \in {"starting", "up", "stopping", "down"}
    /\ abandoned \subseteq Jobs
    /\ faults \in Nat /\ crashes \in Nat

Idle == [pc |-> "waiting", job |-> NoJob]
Absent == [pc |-> "absent", job |-> NoJob]
ActiveJobs == {j \in Jobs : status[j] \in Active}
Serving == api \in {"up", "stopping"}

Init ==
    /\ status = [j \in Jobs |-> "none"]
    /\ progress = [j \in Jobs |-> [current |-> 0, total |-> NoTotal]]
    /\ request = [j \in Jobs |-> "idle"]
    /\ queue = <<>>
    /\ worker = Absent
    /\ api = "starting"
    /\ abandoned = {}
    /\ faults = 0
    /\ crashes = 0

-----------------------------------------------------------------------------
(* HTTP requests.  Each runs in a thread of the server's pool.             *)

\* find_active_projection_job: an active row of the same kind and version.
SlotTaken(j) ==
    /\ SlotOf[j] # NoSlot
    /\ \E k \in ActiveJobs : SlotOf[k] = SlotOf[j]

\* The route's preconditions hold and the slot, read without a lock, is free.
CheckRequest(j) ==
    /\ api = "up" /\ request[j] = "idle"
    /\ ~SlotTaken(j)
    /\ request' = [request EXCEPT ![j] = "checked"]
    /\ UNCHANGED <<rows, queue, worker, api, abandoned, bounds>>

\* 409: the slot is taken, or another precondition of the route fails.
RefuseRequest(j) ==
    /\ api = "up" /\ request[j] = "idle"
    /\ request' = [request EXCEPT ![j] = "refused"]
    /\ UNCHANGED <<rows, queue, worker, api, abandoned, bounds>>

\* PipelineJobService.create and session.commit().
CommitRequest(j) ==
    /\ Serving /\ request[j] = "checked"
    /\ status' = [status EXCEPT ![j] = "queued"]
    /\ progress' = [progress EXCEPT ![j] = [current |-> 0, total |-> NoTotal]]
    /\ request' = [request EXCEPT ![j] = "committed"]
    /\ UNCHANGED <<queue, worker, api, abandoned, bounds>>

\* The commit is refused: the dependency rolls back and the request fails.
RefuseCommit(j) ==
    /\ Serving /\ request[j] = "checked"
    /\ faults < MaxFaults
    /\ faults' = faults + 1
    /\ request' = [request EXCEPT ![j] = "refused"]
    /\ UNCHANGED <<rows, queue, worker, api, abandoned, crashes>>

\* Variant: a job put in the queue before the thread exists waits for the next.
SubmitWithoutThread(j) ==
    /\ Serving /\ request[j] = "committed"
    /\ request' = [request EXCEPT ![j] = "answered"]
    /\ queue' = Append(queue, j)
    /\ UNCHANGED <<rows, worker, api, abandoned, bounds>>

\* dispatcher.submit: start the thread if there is none, then put.
SubmitRequest(j) ==
    /\ Serving /\ request[j] = "committed"
    /\ request' = [request EXCEPT ![j] = "answered"]
    /\ queue' = Append(queue, j)
    /\ worker' = IF worker.pc = "absent" THEN Idle ELSE worker
    /\ UNCHANGED <<rows, api, abandoned, bounds>>

\* PipelineJobService.cancel.  No route calls it.
CancelJob(j) ==
    /\ j \in Cancellable
    /\ status[j] \in Active
    /\ status' = [status EXCEPT ![j] = "cancelled"]
    /\ abandoned' = abandoned \ {j}
    /\ UNCHANGED <<progress, request, queue, worker, api, bounds>>

-----------------------------------------------------------------------------
(* The daemon worker: PipelineJobDispatcher._consume, PipelineJobRunner.run *)

Hold(pc) == worker' = [worker EXCEPT !.pc = pc]

\* Variant: the head is read and stays in the queue.
PeekJob ==
    /\ Serving /\ worker.pc = "waiting"
    /\ queue # <<>> /\ Head(queue) # Stop
    /\ worker' = [pc |-> "starting", job |-> Head(queue)]
    /\ UNCHANGED <<rows, request, queue, api, abandoned, bounds>>

TakeJob ==
    /\ Serving /\ worker.pc = "waiting"
    /\ queue # <<>> /\ Head(queue) # Stop
    /\ worker' = [pc |-> "starting", job |-> Head(queue)]
    /\ queue' = Tail(queue)
    /\ UNCHANGED <<rows, request, api, abandoned, bounds>>

TakeStop ==
    /\ Serving /\ worker.pc = "waiting"
    /\ queue # <<>> /\ Head(queue) = Stop
    /\ worker' = Absent
    /\ queue' = Tail(queue)
    /\ UNCHANGED <<rows, request, api, abandoned, bounds>>

\* _start: the row is locked and read; only a QUEUED row is started.
StartJob ==
    LET j == worker.job IN
    /\ worker.pc = "starting"
    /\ status[j] = "queued"
    /\ status' = [status EXCEPT ![j] = "running"]
    /\ progress' = [progress EXCEPT ![j] = [current |-> 0, total |-> NoTotal]]
    /\ Hold("executing")
    /\ UNCHANGED <<request, queue, api, abandoned, bounds>>

SkipJob ==
    /\ worker.pc = "starting"
    /\ status[worker.job] # "queued"
    /\ worker' = Idle
    /\ UNCHANGED <<rows, request, queue, api, abandoned, bounds>>

\* _checkpoint reads the row without a lock and ignores one not RUNNING ...
ReadForProgress ==
    /\ worker.pc = "executing"
    /\ status[worker.job] = "running"
    /\ Hold("reporting")
    /\ UNCHANGED <<rows, request, queue, api, abandoned, bounds>>

NewTotal(j, total) == IF total = NoTotal THEN progress[j].total ELSE total
WithinTotal(current, total) == total # NoTotal => current <= total

\* ... then PipelineJobService.checkpoint validates and writes.  The locked
\* read returns the object already in the session, so a row cancelled in
\* between still passes for RUNNING; only its progress columns are written.
WriteProgress ==
    LET j == worker.job IN
    \E current \in Work, total \in Work \cup {NoTotal} :
        /\ worker.pc = "reporting"
        /\ WithinTotal(current, NewTotal(j, total))
        /\ progress' = [progress EXCEPT
                            ![j] = [current |-> current, total |-> NewTotal(j, total)]]
        /\ Hold("executing")
        /\ UNCHANGED <<status, request, queue, api, abandoned, bounds>>

\* The pinned parameters, the executor or a checkpoint raises.
ExecutorRaises ==
    /\ worker.pc \in {"executing", "reporting"}
    /\ Hold("failing")
    /\ UNCHANGED <<rows, request, queue, api, abandoned, bounds>>

ExecutorReturns ==
    /\ worker.pc = "executing"
    /\ Hold("succeeding")
    /\ UNCHANGED <<rows, request, queue, api, abandoned, bounds>>

\* Variant: the last reported progress is kept.
SucceedKeepingProgress ==
    /\ worker.pc = "succeeding"
    /\ status[worker.job] = "running"
    /\ status' = [status EXCEPT ![worker.job] = "succeeded"]
    /\ worker' = Idle
    /\ UNCHANGED <<progress, request, queue, api, abandoned, bounds>>

\* PipelineJobService.succeed in its own transaction.
SucceedJob ==
    LET j == worker.job IN
    /\ worker.pc = "succeeding"
    /\ status[j] = "running"
    /\ status' = [status EXCEPT ![j] = "succeeded"]
    /\ progress' = [progress EXCEPT ![j].current =
                        IF progress[j].total = NoTotal THEN @ ELSE progress[j].total]
    /\ worker' = Idle
    /\ UNCHANGED <<request, queue, api, abandoned, bounds>>

\* succeed refuses a row that is no longer RUNNING; _consume swallows it.
RefuseSuccess ==
    /\ worker.pc = "succeeding"
    /\ status[worker.job] # "running"
    /\ worker' = Idle
    /\ UNCHANGED <<rows, request, queue, api, abandoned, bounds>>

\* _fail reads the row without a lock: nothing to do unless RUNNING ...
ReadForFailure ==
    /\ worker.pc = "failing"
    /\ IF status[worker.job] = "running" THEN Hold("recording") ELSE worker' = Idle
    /\ UNCHANGED <<rows, request, queue, api, abandoned, bounds>>

\* ... then PipelineJobService.fail decides on the object already read.
WriteFailure ==
    /\ worker.pc = "recording"
    /\ status' = [status EXCEPT ![worker.job] = "failed"]
    /\ worker' = Idle
    /\ UNCHANGED <<progress, request, queue, api, abandoned, bounds>>

\* Variant: the thread goes back to waiting without letting its job go.
LoseTransactionKeepingJob ==
    /\ worker.pc \in {"starting", "succeeding", "failing", "recording"}
    /\ faults < MaxFaults
    /\ faults' = faults + 1
    /\ Hold("waiting")
    /\ abandoned' = abandoned \cup ({worker.job} \cap ActiveJobs)
    /\ UNCHANGED <<rows, request, queue, api, crashes>>

\* The database refuses the transaction that starts or closes the job.  _fail
\* and _consume swallow the exception and the worker goes on to the next job.
LoseTransaction ==
    LET j == worker.job IN
    /\ worker.pc \in {"starting", "succeeding", "failing", "recording"}
    /\ faults < MaxFaults
    /\ faults' = faults + 1
    /\ worker' = Idle
    /\ abandoned' = abandoned \cup ({j} \cap ActiveJobs)
    /\ UNCHANGED <<rows, request, queue, api, crashes>>

-----------------------------------------------------------------------------
(* The API process: lifespan in app.py.                                    *)

\* Graceful shutdown, once the server has drained its requests.
Shutdown ==
    /\ api = "up"
    /\ \A j \in Jobs : request[j] \notin {"checked", "committed"}
    /\ api' = "stopping"
    /\ queue' = IF worker.pc = "absent" THEN queue ELSE Append(queue, Stop)
    /\ UNCHANGED <<rows, request, worker, abandoned, bounds>>

\* The process dies, in the middle of anything; the daemon thread with it.
Crash ==
    /\ api # "down"
    /\ crashes < MaxCrashes
    /\ crashes' = crashes + 1
    /\ api' = "down"
    /\ queue' = <<>>
    /\ worker' = Absent
    /\ request' = [j \in Jobs |->
                    IF request[j] \in {"checked", "committed"} THEN "lost" ELSE request[j]]
    /\ UNCHANGED <<rows, abandoned, faults>>

Boot ==
    /\ api = "down"
    /\ api' = "starting"
    /\ UNCHANGED <<rows, request, queue, worker, abandoned, bounds>>

\* Variants of the recovery: a status is forgotten, or the row is reopened.
RecoverTo(new(_)) ==
    /\ api = "starting"
    /\ api' = "up"
    /\ status' = [j \in Jobs |-> new(status[j])]
    /\ abandoned' = {}
    /\ UNCHANGED <<progress, request, queue, worker, bounds>>
ForgetQueued(s) == IF s = "running" THEN "failed" ELSE s
ForgetRunning(s) == IF s = "queued" THEN "failed" ELSE s
Reopen(s) == IF s = "running" THEN "queued" ELSE s
RecoverOnlyRunning == RecoverTo(ForgetQueued)
RecoverOnlyQueued == RecoverTo(ForgetRunning)
RecoverByRequeueing == RecoverTo(Reopen)

\* recover_orphaned_jobs: every QUEUED or RUNNING row is failed.  What it does
\* to sync_jobs is modelled in KnowledgeGovernance.
RecoverOrphanedJobs ==
    /\ api = "starting"
    /\ api' = "up"
    /\ status' = [j \in Jobs |-> IF status[j] \in Active THEN "failed" ELSE status[j]]
    /\ abandoned' = {}
    /\ UNCHANGED <<progress, request, queue, worker, bounds>>

\* lifespan catches any exception of the recovery and serves all the same.
RecoveryFails ==
    /\ api = "starting"
    /\ faults < MaxFaults
    /\ faults' = faults + 1
    /\ api' = "up"
    /\ abandoned' = ActiveJobs
    /\ UNCHANGED <<rows, request, queue, worker, crashes>>

-----------------------------------------------------------------------------
(* Properties.                                                             *)

\* Some live component will still look at j: the request that is about to
\* submit it, the queue, or the worker.
Queued(j) == \E i \in DOMAIN queue : queue[i] = j
Owned(j) ==
    \/ request[j] = "committed"
    \/ Queued(j)
    \/ worker.job = j

\* NoOrphanJobs: while the API serves, a row shown as QUEUED or RUNNING is owned
\* by a live component, unless the database refused the very transaction that
\* was to start, close or recover it.  (dispatcher.submit after the commit,
\* runner.run, recover_orphaned_jobs at startup.)
NoOrphanJobs ==
    Serving => \A j \in ActiveJobs : Owned(j) \/ j \in abandoned

\* SingleRunner: jobs are executed one at a time: two rows RUNNING at once mean
\* that one of them was abandoned, also across crashes and restarts.
SingleRunner ==
    \A j, k \in Jobs :
        status[j] = "running" /\ status[k] = "running" /\ j # k
            => j \in abandoned \/ k \in abandoned

\* ExecutorMatchesRow: an executor only works for a row the console shows as
\* RUNNING (or that was cancelled under it), and a queued row was not started
\* yet: no job runs unseen and none runs twice.
ExecutorMatchesRow ==
    /\ worker.pc \in Executing =>
          \/ status[worker.job] = "running"
          \/ worker.job \in Cancellable /\ status[worker.job] = "cancelled"
    /\ \A j \in Jobs : Queued(j) => status[j] \notin {"none", "running"}

\* ProgressConsistent: the check constraint progress_within_total holds whatever
\* totals the executors report and omit, and a job that succeeded is complete.
ProgressConsistent ==
    \A j \in Jobs :
        /\ WithinTotal(progress[j].current, progress[j].total)
        /\ status[j] = "succeeded" => progress[j].total \in {NoTotal, progress[j].current}

\* TerminalIsFinal: _require refuses every transition out of SUCCEEDED, FAILED
\* and CANCELLED.
TerminalIsFinal ==
    [][\A j \in Jobs : status[j] \in Terminal => status'[j] = status[j]]_vars

\* NoDuplicateProjection: never two active jobs of one kind for one version, the
\* promise of the 409 "Ya existe un job ... en cola o ejecucion".
NoDuplicateProjection ==
    \A j, k \in ActiveJobs : SlotOf[j] = SlotOf[k] /\ SlotOf[j] # NoSlot => j = k

\* The lifecycle promised to the console, with the worker as the owner.
Lifecycle == INSTANCE JobLifecycle WITH
    owner <- IF worker.pc \in Executing THEN worker.job ELSE NoJob

\* ImplementsLifecycle: whatever crashes and whatever transaction is lost, the
\* rows only move as JobLifecycle allows.
ImplementsLifecycle == Lifecycle!Spec

-----------------------------------------------------------------------------
Requests ==
    \E j \in Jobs :
        \/ CheckRequest(j) \/ RefuseRequest(j) \/ CommitRequest(j)
        \/ RefuseCommit(j) \/ SubmitRequest(j) \/ CancelJob(j)

WorkerStep ==
    \/ TakeJob \/ TakeStop \/ StartJob \/ SkipJob
    \/ ReadForProgress \/ WriteProgress \/ ExecutorRaises \/ ExecutorReturns
    \/ SucceedJob \/ RefuseSuccess \/ ReadForFailure \/ WriteFailure

Process ==
    \/ LoseTransaction \/ Shutdown \/ Crash \/ Boot
    \/ RecoverOrphanedJobs \/ RecoveryFails

Next == Requests \/ WorkerStep \/ Process

Spec == Init /\ [][Next]_vars

\* A request thread that passed its checks goes on; the daemon thread is always
\* scheduled; an executor makes finitely many progress calls and then returns or
\* raises.  Nothing is assumed of crashes, restarts or shutdowns.
Fairness ==
    /\ \A j \in Jobs : WF_vars(CommitRequest(j)) /\ WF_vars(SubmitRequest(j))
    /\ WF_vars(TakeJob) /\ WF_vars(StartJob) /\ WF_vars(SkipJob)
    /\ WF_vars(WriteProgress)
    /\ WF_vars(ExecutorRaises \/ ExecutorReturns)
    /\ WF_vars(SucceedJob) /\ WF_vars(RefuseSuccess)
    /\ WF_vars(ReadForFailure) /\ WF_vars(WriteFailure)

FairSpec == Spec /\ Fairness

\* EveryJobSettles: a job accepted by a serving API ends, unless the process
\* dies first (then the next start recovers it) or its transaction was lost.
EveryJobSettles ==
    \A j \in Jobs :
        (Serving /\ status[j] \in Active)
            ~> (status[j] \in Terminal \/ api = "down" \/ j \in abandoned)

=============================================================================
