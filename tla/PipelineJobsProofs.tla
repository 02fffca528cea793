-------------------------- MODULE PipelineJobsProofs --------------------------
(***************************************************************************)
(* Theorems about PipelineJobs, for every set of jobs and slots and every  *)
(* bound.  The inductive invariant adds to the properties what ties the    *)
(* row of a job to the component that holds it.                            *)
(***************************************************************************)
EXTENDS PipelineJobs, TLAPS, SequenceTheorems

-----------------------------------------------------------------------------
(* The queue as a sequence.                                                *)

\* What put leaves in the queue: the same elements and a last one.
LEMMA AppendFacts ==
    ASSUME NEW S, NEW q \in Seq(S), NEW x \in S
    PROVE  /\ Append(q, x) \in Seq(S)
           /\ DOMAIN q = 1 .. Len(q) /\ Len(q) \in Nat
           /\ DOMAIN Append(q, x) = 1 .. Len(q) + 1
           /\ \A i \in 1 .. Len(q) : Append(q, x)[i] = q[i]
           /\ Append(q, x)[Len(q) + 1] = x
  OBVIOUS

\* What get takes from the queue: the first element, and the others move up.
LEMMA TailFacts ==
    ASSUME NEW S, NEW q \in Seq(S), q # <<>>
    PROVE  /\ Tail(q) \in Seq(S)
           /\ DOMAIN q = 1 .. Len(q) /\ Len(q) \in Nat /\ 1 \in DOMAIN q
           /\ Head(q) = q[1] /\ Head(q) \in S
           /\ DOMAIN Tail(q) = 1 .. Len(q) - 1
           /\ \A i \in 1 .. Len(q) - 1 : i + 1 \in DOMAIN q /\ Tail(q)[i] = q[i + 1]
  OBVIOUS

-----------------------------------------------------------------------------
(* The inductive invariant.                                                *)

\* The row exists from the commit on, and only an answered request has let its
\* job go to the queue or to the worker.
RequestRows ==
    \A j \in Jobs :
        /\ request[j] \in {"idle", "checked"} => status[j] = "none"
        /\ request[j] = "committed" => status[j] \notin {"none", "running"}
        /\ Queued(j) \/ worker.job = j => request[j] = "answered"

\* A job is in one place: once in the queue, or in the worker's hands.
OnePlace ==
    /\ \A i, k \in DOMAIN queue : queue[i] \in Jobs /\ queue[i] = queue[k] => i = k
    /\ \A j \in Jobs : Queued(j) => worker.job # j
    /\ worker.pc = "starting" => status[worker.job] \notin {"none", "running"}

\* Memory is empty while the process is down or has not recovered yet.
ProcessMemory ==
    ~Serving =>
        /\ queue = <<>> /\ worker = Absent
        /\ \A j \in Jobs : request[j] \notin {"checked", "committed"}

IInv ==
    /\ TypeOK
    /\ RequestRows
    /\ OnePlace
    /\ ProcessMemory
    /\ ExecutorMatchesRow
    /\ NoOrphanJobs
    /\ SingleRunner

\* Before the first boot there are no rows, no requests and no worker.
LEMMA InitIInv == Init => IInv
  BY JobsAssumption, BoundAssumption
     DEF Init, IInv, TypeOK, RequestRows, OnePlace, ProcessMemory, ExecutorMatchesRow,
         NoOrphanJobs, SingleRunner, Serving, Absent, ActiveJobs, Active, Terminal,
         Status, Busy, Executing, Progress, Queued

-----------------------------------------------------------------------------
(* Requests: one lemma per action.                                         *)

\* Steps that leave the rows, the queue and the worker alone and move a request
\* to a state in which it owns nothing it did not own.
LEMMA QuietRequest ==
    ASSUME IInv, NEW j \in Jobs, CheckRequest(j) \/ RefuseRequest(j) \/ RefuseCommit(j)
    PROVE  IInv'
  <1> USE DEF IInv
  <1>1. UNCHANGED <<status, progress, queue, worker, api, abandoned, crashes>>
        /\ request[j] \in {"idle", "checked"} /\ Serving
        /\ \E r \in {"checked", "refused"} : request' = [request EXCEPT ![j] = r]
        /\ (request'[j] = "checked" => request[j] = "idle")
    BY DEF CheckRequest, RefuseRequest, RefuseCommit, rows, bounds, Serving, TypeOK
  <1>2. TypeOK'
    BY <1>1, BoundAssumption
       DEF TypeOK, CheckRequest, RefuseRequest, RefuseCommit, rows, bounds
  <1>3. RequestRows' /\ OnePlace'
    BY <1>1 DEF TypeOK, RequestRows, OnePlace, Queued
  <1>4. ProcessMemory' /\ ExecutorMatchesRow' /\ SingleRunner'
    BY <1>1 DEF TypeOK, ProcessMemory, ExecutorMatchesRow, SingleRunner, Serving, Queued
  <1>5. NoOrphanJobs'
    BY <1>1 DEF TypeOK, NoOrphanJobs, Serving, ActiveJobs, Active, Owned, Queued, RequestRows
  <1> QED BY <1>2, <1>3, <1>4, <1>5

\* The commit of a request makes its row, which nobody holds yet.
LEMMA CommitKeeps ==
    ASSUME IInv, NEW j \in Jobs, CommitRequest(j)
    PROVE  IInv'
  <1> USE DEF IInv
  <1>1. /\ UNCHANGED <<queue, worker, api, abandoned, faults, crashes>>
        /\ request[j] = "checked" /\ Serving /\ status[j] = "none"
        /\ status' = [status EXCEPT ![j] = "queued"]
        /\ request' = [request EXCEPT ![j] = "committed"]
        /\ ~Queued(j) /\ worker.job # j
    BY DEF CommitRequest, bounds, RequestRows
  <1>2. TypeOK'
    BY <1>1 DEF TypeOK, CommitRequest, Status, Active, Progress
  <1>3. RequestRows' /\ OnePlace'
    BY <1>1 DEF TypeOK, RequestRows, OnePlace, Queued
  <1>4. ProcessMemory' /\ ExecutorMatchesRow'
    BY <1>1 DEF TypeOK, ProcessMemory, ExecutorMatchesRow, Serving, Queued, Executing, Busy
  <1>5. NoOrphanJobs' /\ SingleRunner'
    BY <1>1 DEF TypeOK, NoOrphanJobs, SingleRunner, Serving, ActiveJobs, Active, Owned, Queued
  <1> QED BY <1>2, <1>3, <1>4, <1>5

\* dispatcher.submit puts the job in the queue and its request lets it go.
LEMMA SubmitKeeps ==
    ASSUME IInv, NEW j \in Jobs, SubmitRequest(j)
    PROVE  IInv'
  <1> USE DEF IInv
  <1>1. /\ UNCHANGED <<status, progress, api, abandoned, faults, crashes>>
        /\ request[j] = "committed" /\ Serving /\ status[j] \notin {"none", "running"}
        /\ request' = [request EXCEPT ![j] = "answered"]
        /\ queue' = Append(queue, j)
        /\ worker'.job = worker.job
        /\ (worker'.pc = worker.pc \/ (worker.pc = "absent" /\ worker'.pc = "waiting"))
        /\ ~Queued(j) /\ worker.job # j
    BY DEF SubmitRequest, rows, bounds, RequestRows, TypeOK, Idle, Busy, Executing
  <1>2. /\ queue' \in Seq(Jobs \cup {Stop})
        /\ DOMAIN queue = 1 .. Len(queue) /\ Len(queue) \in Nat
        /\ DOMAIN queue' = 1 .. Len(queue) + 1
        /\ \A i \in 1 .. Len(queue) : queue'[i] = queue[i]
        /\ queue'[Len(queue) + 1] = j
    BY <1>1, AppendFacts DEF TypeOK
  <1>3. \A k \in Jobs : Queued(k)' <=> (Queued(k) \/ k = j)
    BY <1>2 DEF Queued
  <1>4. TypeOK'
    BY <1>1, <1>2 DEF TypeOK, SubmitRequest, Idle, Busy, Executing
  <1>5. RequestRows'
    BY <1>1, <1>3 DEF TypeOK, RequestRows
  <1>6. OnePlace'
    BY <1>1, <1>2, <1>3 DEF TypeOK, OnePlace, Queued
  <1>7. ProcessMemory' /\ ExecutorMatchesRow' /\ SingleRunner'
    BY <1>1, <1>3
       DEF TypeOK, ProcessMemory, ExecutorMatchesRow, SingleRunner, Serving, Executing
  <1>8. NoOrphanJobs'
    BY <1>1, <1>3 DEF TypeOK, NoOrphanJobs, Serving, ActiveJobs, Owned
  <1> QED BY <1>4, <1>5, <1>6, <1>7, <1>8

\* cancel closes the row wherever the job is.
LEMMA CancelKeeps ==
    ASSUME IInv, NEW j \in Jobs, CancelJob(j)
    PROVE  IInv'
  <1> USE DEF IInv
  <1>1. /\ UNCHANGED <<progress, request, queue, worker, api, faults, crashes>>
        /\ j \in Cancellable /\ status[j] \in Active
        /\ status' = [status EXCEPT ![j] = "cancelled"]
        /\ abandoned' = abandoned \ {j}
    BY DEF CancelJob, bounds
  <1>2. TypeOK'
    BY <1>1 DEF TypeOK, Status, Terminal
  <1>3. RequestRows' /\ OnePlace'
    BY <1>1 DEF TypeOK, RequestRows, OnePlace, Queued, Active
  <1>4. ProcessMemory' /\ ExecutorMatchesRow'
    BY <1>1 DEF TypeOK, ProcessMemory, ExecutorMatchesRow, Serving, Queued, Terminal
  <1>5. NoOrphanJobs' /\ SingleRunner'
    BY <1>1 DEF TypeOK, NoOrphanJobs, SingleRunner, Serving, ActiveJobs, Active, Owned, Queued
  <1> QED BY <1>2, <1>3, <1>4, <1>5

-----------------------------------------------------------------------------
(* The worker.                                                             *)

\* The worker takes the head of the queue: the job changes hands.
LEMMA TakeJobKeeps ==
    ASSUME IInv, TakeJob
    PROVE  IInv'
  <1> USE DEF IInv
  <1>0. PICK j \in Jobs : j = Head(queue)
    BY TailFacts DEF TakeJob, TypeOK
  <1>1. /\ UNCHANGED <<status, progress, request, api, abandoned, faults, crashes>>
        /\ Serving /\ queue # <<>> /\ j # Stop
        /\ worker.job = NoJob
        /\ worker' = [pc |-> "starting", job |-> j]
        /\ queue' = Tail(queue)
    BY <1>0 DEF TakeJob, rows, bounds, TypeOK, Busy, Executing
  <1>2. /\ queue' \in Seq(Jobs \cup {Stop}) /\ j = queue[1]
        /\ DOMAIN queue = 1 .. Len(queue) /\ Len(queue) \in Nat /\ 1 \in DOMAIN queue
        /\ DOMAIN queue' = 1 .. Len(queue) - 1
        /\ \A i \in 1 .. Len(queue) - 1 : i + 1 \in DOMAIN queue /\ queue'[i] = queue[i + 1]
    BY <1>0, <1>1, TailFacts DEF TypeOK
  <1>3. \A k \in Jobs : Queued(k) <=> (Queued(k)' \/ k = j)
    <2>1. ASSUME NEW k \in Jobs, NEW i \in DOMAIN queue, queue[i] = k, k # j
          PROVE  Queued(k)'
      <3>1. i - 1 \in DOMAIN queue' /\ queue'[i - 1] = queue[i]
        BY <1>2, <2>1
      <3> QED BY <2>1, <3>1 DEF Queued
    <2> QED BY <1>2, <2>1 DEF Queued
  <1>4. ~Queued(j)'
    <2>1. ASSUME NEW i \in DOMAIN queue', queue'[i] = j
          PROVE  FALSE
      <3>1. i + 1 \in DOMAIN queue /\ queue[i + 1] = queue[1] /\ i + 1 # 1
        BY <1>2, <2>1
      <3> QED BY <1>2, <3>1 DEF OnePlace
    <2> QED BY <2>1 DEF Queued
  <1>5. Queued(j) /\ request[j] = "answered" /\ status[j] \notin {"none", "running"}
    BY <1>2, <1>3 DEF RequestRows, ExecutorMatchesRow
  <1>6. TypeOK'
    BY <1>1, <1>2, JobsAssumption DEF TypeOK, Busy, Executing
  <1>7. RequestRows'
    BY <1>1, <1>2, <1>3, <1>5 DEF TypeOK, RequestRows
  <1>8. OnePlace'
    <2>1. \A i, k \in DOMAIN queue' : queue'[i] \in Jobs /\ queue'[i] = queue'[k] => i = k
      <3> SUFFICES ASSUME NEW i \in DOMAIN queue', NEW k \in DOMAIN queue',
                          queue'[i] \in Jobs, queue'[i] = queue'[k]
                   PROVE  i = k
        OBVIOUS
      <3>1. i + 1 = k + 1
        BY <1>2 DEF OnePlace
      <3> QED BY <1>2, <3>1
    <2> QED BY <1>1, <1>3, <1>4, <1>5, <2>1 DEF OnePlace
  <1>9. ProcessMemory' /\ ExecutorMatchesRow' /\ SingleRunner'
    BY <1>1, <1>3 DEF TypeOK, ProcessMemory, ExecutorMatchesRow, SingleRunner, Serving, Executing
  <1>10. NoOrphanJobs'
    BY <1>1, <1>3, JobsAssumption DEF TypeOK, NoOrphanJobs, Serving, ActiveJobs, Owned
  <1> QED BY <1>6, <1>7, <1>8, <1>9, <1>10

\* The sentinel ends the thread; what is behind it stays in the queue.
LEMMA TakeStopKeeps ==
    ASSUME IInv, TakeStop
    PROVE  IInv'
  <1> USE DEF IInv
  <1>1. /\ UNCHANGED <<status, progress, request, api, abandoned, faults, crashes>>
        /\ Serving /\ queue # <<>> /\ Head(queue) = Stop
        /\ worker.job = NoJob
        /\ worker' = [pc |-> "absent", job |-> NoJob]
        /\ queue' = Tail(queue)
    BY DEF TakeStop, rows, bounds, TypeOK, Busy, Executing, Absent
  <1>2. /\ queue' \in Seq(Jobs \cup {Stop}) /\ queue[1] = Stop
        /\ DOMAIN queue = 1 .. Len(queue) /\ Len(queue) \in Nat /\ 1 \in DOMAIN queue
        /\ DOMAIN queue' = 1 .. Len(queue) - 1
        /\ \A i \in 1 .. Len(queue) - 1 : i + 1 \in DOMAIN queue /\ queue'[i] = queue[i + 1]
    BY <1>1, TailFacts DEF TypeOK
  <1>3. \A k \in Jobs : Queued(k) <=> Queued(k)'
    <2>1. ASSUME NEW k \in Jobs, NEW i \in DOMAIN queue, queue[i] = k
          PROVE  Queued(k)'
      <3>1. i # 1
        BY <1>2, <2>1, JobsAssumption
      <3>2. i - 1 \in DOMAIN queue' /\ queue'[i - 1] = queue[i]
        BY <1>2, <2>1, <3>1
      <3> QED BY <2>1, <3>2 DEF Queued
    <2> QED BY <1>2, <2>1 DEF Queued
  <1>4. TypeOK'
    BY <1>1, <1>2 DEF TypeOK, Busy, Executing
  <1>5. RequestRows' /\ OnePlace'
    BY <1>1, <1>2, <1>3 DEF TypeOK, RequestRows, OnePlace
  <1>6. ProcessMemory' /\ ExecutorMatchesRow' /\ SingleRunner'
    BY <1>1, <1>3 DEF TypeOK, ProcessMemory, ExecutorMatchesRow, SingleRunner, Serving, Executing
  <1>7. NoOrphanJobs'
    BY <1>1, <1>3 DEF TypeOK, NoOrphanJobs, Serving, ActiveJobs, Owned
  <1> QED BY <1>4, <1>5, <1>6, <1>7

\* start makes the row RUNNING, and no other row is.
LEMMA StartJobKeeps ==
    ASSUME IInv, StartJob
    PROVE  IInv'
  <1> USE DEF IInv
  <1> DEFINE j == worker.job
  <1>1. /\ UNCHANGED <<request, queue, api, abandoned, faults, crashes>>
        /\ worker.pc = "starting" /\ j \in Jobs /\ Serving
        /\ worker' = [worker EXCEPT !.pc = "executing"]
        /\ status[j] = "queued"
        /\ status' = [status EXCEPT ![j] = "running"]
        /\ request[j] = "answered" /\ ~Queued(j)
    BY DEF StartJob, Hold, bounds, TypeOK, Busy, ProcessMemory, Absent, RequestRows, OnePlace
  <1>2. TypeOK'
    BY <1>1 DEF TypeOK, StartJob, Status, Active, Progress, Busy, Executing
  <1>3. RequestRows' /\ OnePlace'
    BY <1>1 DEF TypeOK, RequestRows, OnePlace, Queued
  <1>4. ProcessMemory' /\ ExecutorMatchesRow'
    BY <1>1 DEF TypeOK, ProcessMemory, ExecutorMatchesRow, Serving, Queued, Executing
  <1>5. NoOrphanJobs'
    BY <1>1 DEF TypeOK, NoOrphanJobs, Serving, ActiveJobs, Active, Owned, Queued
  <1>6. \A k \in Jobs : status[k] = "running" => k \in abandoned
    BY <1>1 DEF NoOrphanJobs, ActiveJobs, Active, Owned, RequestRows, ExecutorMatchesRow
  <1>7. SingleRunner'
    BY <1>1, <1>6 DEF TypeOK, SingleRunner
  <1> QED BY <1>2, <1>3, <1>4, <1>5, <1>7

\* Steps inside the execution of a job.
LEMMA ExecutionKeeps ==
    ASSUME IInv,
           \/ ReadForProgress \/ WriteProgress \/ ExecutorRaises \/ ExecutorReturns
           \/ ReadForFailure /\ status[worker.job] = "running"
    PROVE  IInv'
  <1> USE DEF IInv
  <1>1. /\ UNCHANGED <<status, request, queue, api, abandoned, faults, crashes>>
        /\ worker.pc \in Executing
        /\ \E pc \in Executing : worker' = [worker EXCEPT !.pc = pc]
    BY DEF ReadForProgress, WriteProgress, ExecutorRaises, ExecutorReturns, ReadForFailure,
           Hold, bounds, rows, Executing
  <1>2. progress' \in [Jobs -> Progress]
    <2>1. CASE WriteProgress
      BY <2>1, BoundAssumption DEF WriteProgress, TypeOK, Progress, Work, NewTotal, Busy, Executing
    <2>2. CASE ~WriteProgress
      BY <2>2 DEF ReadForProgress, ExecutorRaises, ExecutorReturns, ReadForFailure, rows, TypeOK
    <2> QED BY <2>1, <2>2
  <1>3. worker'.job = worker.job /\ worker'.pc \in Executing
    BY <1>1 DEF TypeOK
  <1>4. TypeOK'
    BY <1>1, <1>2 DEF TypeOK, Busy
  <1>5. RequestRows' /\ OnePlace'
    BY <1>1, <1>3 DEF TypeOK, RequestRows, OnePlace, Queued, Executing
  <1>6. ProcessMemory'
    BY <1>1 DEF ProcessMemory, Serving, Absent, Executing
  <1>7. ExecutorMatchesRow' /\ SingleRunner' /\ NoOrphanJobs'
    BY <1>1, <1>3
       DEF TypeOK, ExecutorMatchesRow, SingleRunner, NoOrphanJobs, Serving, Queued, ActiveJobs, Owned
  <1> QED BY <1>4, <1>5, <1>6, <1>7

\* Steps that let the job go and leave its row closed: the row was already
\* closed, or the step closes it.
LEMMA LetGoKeeps ==
    ASSUME IInv,
           \/ SkipJob \/ RefuseSuccess \/ SucceedJob \/ WriteFailure
           \/ ReadForFailure /\ status[worker.job] # "running"
    PROVE  IInv'
  <1> USE DEF IInv
  <1> DEFINE j == worker.job
  <1>1. /\ UNCHANGED <<request, queue, api, abandoned, faults, crashes>>
        /\ worker.pc \in Busy /\ j \in Jobs
        /\ worker' = [pc |-> "waiting", job |-> NoJob]
    BY DEF SkipJob, RefuseSuccess, SucceedJob, WriteFailure, ReadForFailure, Idle,
           bounds, rows, Busy, Executing, TypeOK
  <1>2. /\ status' \in [Jobs -> Status] /\ status'[j] \in Terminal
        /\ \A k \in Jobs : k # j => status'[k] = status[k]
    <2>1. CASE SkipJob
      BY <2>1 DEF SkipJob, rows, TypeOK, OnePlace, Status, Active, Terminal, Busy
    <2>2. CASE RefuseSuccess \/ (ReadForFailure /\ status[worker.job] # "running")
      BY <2>2 DEF RefuseSuccess, ReadForFailure, rows, TypeOK, ExecutorMatchesRow, Executing,
                  Terminal
    <2>3. CASE SucceedJob \/ WriteFailure
      BY <1>1, <2>3 DEF SucceedJob, WriteFailure, TypeOK, Status, Terminal
    <2> QED BY <2>1, <2>2, <2>3
  <1>3. progress' \in [Jobs -> Progress]
    <2>1. CASE SucceedJob
      BY <1>1, <2>1 DEF SucceedJob, TypeOK, Progress
    <2>2. CASE ~SucceedJob
      BY <2>2 DEF SkipJob, RefuseSuccess, WriteFailure, ReadForFailure, rows, TypeOK
    <2> QED BY <2>1, <2>2
  <1>4. request[j] = "answered" /\ ~Queued(j) /\ Serving
    BY <1>1 DEF RequestRows, OnePlace, ProcessMemory, Absent, Busy, Executing
  <1>5. TypeOK'
    BY <1>1, <1>2, <1>3 DEF TypeOK, Busy, Executing
  <1>6. RequestRows' /\ OnePlace'
    BY <1>1, <1>2, <1>4, JobsAssumption DEF TypeOK, RequestRows, OnePlace, Queued
  <1>7. ProcessMemory' /\ ExecutorMatchesRow'
    BY <1>1, <1>2, <1>4 DEF ProcessMemory, ExecutorMatchesRow, Serving, Executing, Queued
  <1>8. NoOrphanJobs' /\ SingleRunner'
    BY <1>1, <1>2, <1>4
       DEF NoOrphanJobs, SingleRunner, Serving, ActiveJobs, Active, Terminal, Owned, Queued
  <1> QED BY <1>5, <1>6, <1>7, <1>8

\* A refused transaction abandons the row it was about.
LEMMA LoseKeeps ==
    ASSUME IInv, LoseTransaction
    PROVE  IInv'
  <1> USE DEF IInv
  <1> DEFINE j == worker.job
  <1>1. /\ UNCHANGED <<status, progress, request, queue, api, crashes>>
        /\ worker.pc \in Busy /\ j \in Jobs /\ Serving
        /\ worker' = [pc |-> "waiting", job |-> NoJob]
        /\ abandoned' = abandoned \cup ({j} \cap ActiveJobs)
        /\ faults' \in Nat
    BY DEF LoseTransaction, Idle, rows, Busy, Executing, TypeOK, ProcessMemory, Absent
  <1>2. TypeOK'
    BY <1>1 DEF TypeOK, Busy, Executing, ActiveJobs
  <1>3. RequestRows' /\ OnePlace'
    BY <1>1, JobsAssumption DEF TypeOK, RequestRows, OnePlace, Queued
  <1>4. ProcessMemory' /\ ExecutorMatchesRow'
    BY <1>1 DEF ProcessMemory, ExecutorMatchesRow, Serving, Executing, Queued
  <1>5. NoOrphanJobs' /\ SingleRunner'
    BY <1>1 DEF NoOrphanJobs, SingleRunner, Serving, ActiveJobs, Owned, Queued
  <1> QED BY <1>2, <1>3, <1>4, <1>5

-----------------------------------------------------------------------------
(* The process.                                                            *)

\* A shutdown puts the sentinel in the queue and touches no row.
LEMMA ShutdownKeeps ==
    ASSUME IInv, Shutdown
    PROVE  IInv'
  <1> USE DEF IInv
  <1>1. /\ UNCHANGED <<status, progress, request, worker, abandoned, faults, crashes>>
        /\ api = "up" /\ api' = "stopping" /\ Serving /\ Serving'
        /\ queue' = queue \/ queue' = Append(queue, Stop)
    BY DEF Shutdown, rows, bounds, Serving
  <1>2. /\ queue' \in Seq(Jobs \cup {Stop})
        /\ DOMAIN queue = 1 .. Len(queue) /\ Len(queue) \in Nat
        /\ DOMAIN queue \subseteq DOMAIN queue'
        /\ \A i \in DOMAIN queue : queue'[i] = queue[i]
        /\ \A i \in DOMAIN queue' : i \in DOMAIN queue \/ queue'[i] = Stop
    <2>1. queue \in Seq(Jobs \cup {Stop}) /\ Stop \in Jobs \cup {Stop}
      BY DEF TypeOK
    <2>2. CASE queue' = queue
      BY <2>1, <2>2
    <2>3. CASE queue' = Append(queue, Stop)
      BY <2>1, <2>3, AppendFacts
    <2> QED BY <1>1, <2>2, <2>3
  <1>3. \A k \in Jobs : Queued(k) <=> Queued(k)'
    BY <1>2, JobsAssumption DEF Queued
  <1>4. TypeOK'
    BY <1>1, <1>2 DEF TypeOK
  <1>5. OnePlace'
    BY <1>1, <1>2, <1>3, JobsAssumption DEF OnePlace
  <1>6. RequestRows' /\ ProcessMemory' /\ ExecutorMatchesRow'
    BY <1>1, <1>3 DEF RequestRows, ProcessMemory, ExecutorMatchesRow
  <1>7. NoOrphanJobs' /\ SingleRunner'
    BY <1>1, <1>3 DEF NoOrphanJobs, SingleRunner, ActiveJobs, Owned
  <1> QED BY <1>4, <1>5, <1>6, <1>7

\* A crash empties the memory, a boot finds it empty.
LEMMA CrashKeeps ==
    ASSUME IInv, Crash \/ Boot
    PROVE  IInv'
  <1> USE DEF IInv
  <1>1. /\ UNCHANGED <<status, progress, abandoned, faults>>
        /\ ~Serving' /\ api' \in {"down", "starting"} /\ crashes' \in Nat
        /\ queue' = <<>> /\ worker' = Absent
        /\ request' \in [Jobs -> {"idle", "answered", "refused", "lost"}]
        /\ \A k \in Jobs : request'[k] = "idle" => request[k] = "idle"
    BY DEF Crash, Boot, rows, bounds, Serving, TypeOK, ProcessMemory
  <1>2. TypeOK'
    BY <1>1 DEF TypeOK, Absent, Busy, Executing
  <1>3. RequestRows' /\ OnePlace'
    BY <1>1, JobsAssumption DEF RequestRows, OnePlace, Queued, Absent
  <1>4. ProcessMemory' /\ ExecutorMatchesRow'
    BY <1>1 DEF ProcessMemory, ExecutorMatchesRow, Absent, Executing, Queued
  <1>5. NoOrphanJobs' /\ SingleRunner'
    BY <1>1 DEF NoOrphanJobs, SingleRunner
  <1> QED BY <1>2, <1>3, <1>4, <1>5

\* The recovery closes every active row; when it fails, they are all abandoned.
LEMMA RecoveryKeeps ==
    ASSUME IInv, RecoverOrphanedJobs \/ RecoveryFails
    PROVE  IInv'
  <1> USE DEF IInv
  <1>1. /\ UNCHANGED <<progress, request, queue, worker, crashes>>
        /\ api = "starting" /\ ~Serving /\ api' = "up" /\ faults' \in Nat
        /\ queue = <<>> /\ worker = Absent
        /\ \A k \in Jobs : request[k] \notin {"checked", "committed"}
    BY DEF RecoverOrphanedJobs, RecoveryFails, rows, bounds, Serving, TypeOK, ProcessMemory
  <1>2. /\ status' \in [Jobs -> Status] /\ abandoned' \subseteq Jobs
        /\ \A k \in Jobs : status[k] = "none" => status'[k] = "none"
        /\ \A k \in Jobs : status'[k] \in Active => k \in abandoned'
    <2>1. CASE RecoverOrphanedJobs
      BY <2>1 DEF RecoverOrphanedJobs, TypeOK, Status, Terminal, Active
    <2>2. CASE RecoveryFails
      BY <2>2 DEF RecoveryFails, rows, TypeOK, ActiveJobs
    <2> QED BY <2>1, <2>2
  <1>3. TypeOK'
    BY <1>1, <1>2 DEF TypeOK
  <1>4. RequestRows' /\ OnePlace'
    BY <1>1, <1>2, JobsAssumption DEF RequestRows, OnePlace, Queued, Absent
  <1>5. ProcessMemory' /\ ExecutorMatchesRow'
    BY <1>1 DEF ProcessMemory, ExecutorMatchesRow, Serving, Absent, Executing, Queued
  <1>6. NoOrphanJobs' /\ SingleRunner'
    BY <1>2 DEF NoOrphanJobs, SingleRunner, ActiveJobs, Active
  <1> QED BY <1>3, <1>4, <1>5, <1>6

\* A step that changes nothing.
LEMMA StutterKeeps ==
    ASSUME IInv, UNCHANGED vars
    PROVE  IInv'
  BY DEF IInv, TypeOK, RequestRows, OnePlace, ProcessMemory, ExecutorMatchesRow, NoOrphanJobs,
         SingleRunner, Serving, ActiveJobs, Owned, Queued, vars

-----------------------------------------------------------------------------
(* The theorems.                                                           *)

\* Every step keeps the invariant.
LEMMA NextKeeps ==
    ASSUME IInv, [Next]_vars
    PROVE  IInv'
  <1>1. CASE Requests
    BY <1>1, QuietRequest, CommitKeeps, SubmitKeeps, CancelKeeps DEF Requests
  <1>2. CASE WorkerStep
    BY <1>2, TakeJobKeeps, TakeStopKeeps, StartJobKeeps, ExecutionKeeps, LetGoKeeps DEF WorkerStep
  <1>3. CASE Process
    BY <1>3, LoseKeeps, ShutdownKeeps, CrashKeeps, RecoveryKeeps DEF Process
  <1>4. CASE UNCHANGED vars
    BY <1>4, StutterKeeps
  <1> QED BY <1>1, <1>2, <1>3, <1>4 DEF Next

\* Every reachable state satisfies the invariant.
LEMMA Inductive == Spec => []IInv
  <1>1. Init => IInv
    BY InitIInv
  <1>2. IInv /\ [Next]_vars => IInv'
    BY NextKeeps
  <1> QED BY <1>1, <1>2, PTL DEF Spec

\* Every reachable state is of the declared types (the columns' check
\* constraints, the worker's states, the queue's contents).
THEOREM TypeCorrect == Spec => []TypeOK
  <1>1. IInv => TypeOK
    BY DEF IInv
  <1> QED BY <1>1, Inductive, PTL

\* Whatever crashes, restarts and refused transactions, a row that a serving
\* API shows as QUEUED or RUNNING has a live owner or is one whose own closing
\* transaction was refused (submit after commit, run, recover_orphaned_jobs).
THEOREM NoOrphans == Spec => []NoOrphanJobs
  <1>1. IInv => NoOrphanJobs
    BY DEF IInv
  <1> QED BY <1>1, Inductive, PTL

\* The single daemon worker and the recovery keep at most one row RUNNING.
THEOREM OneRunner == Spec => []SingleRunner
  <1>1. IInv => SingleRunner
    BY DEF IInv
  <1> QED BY <1>1, Inductive, PTL

\* No job is executed while its row says otherwise, and none is started twice.
THEOREM ExecutorAndRow == Spec => []ExecutorMatchesRow
  <1>1. IInv => ExecutorMatchesRow
    BY DEF IInv
  <1> QED BY <1>1, Inductive, PTL

\* The check constraint progress_within_total holds for every total the
\* executors report, and a SUCCEEDED row is complete (checkpoint, succeed).
THEOREM ProgressAlwaysConsistent == Spec => []ProgressConsistent
  <1>1. Init => ProgressConsistent
    <2> SUFFICES ASSUME Init, NEW j \in Jobs
                 PROVE  /\ progress[j].total = NoTotal
                        /\ WithinTotal(progress[j].current, progress[j].total)
      BY DEF ProgressConsistent
    <2>1. progress[j].total = NoTotal
      BY DEF Init
    <2> QED BY <2>1 DEF WithinTotal
  <1>2. IInv /\ ProgressConsistent /\ [Next]_vars => ProgressConsistent'
    <2> SUFFICES ASSUME IInv, ProgressConsistent, [Next]_vars
                 PROVE  ProgressConsistent'
      OBVIOUS
    <2> USE DEF IInv
    <2>1. CASE \E j \in Jobs : CommitRequest(j)
      BY <2>1, BoundAssumption DEF CommitRequest, TypeOK, ProgressConsistent, WithinTotal
    <2>2. CASE StartJob
      BY <2>2, BoundAssumption DEF StartJob, TypeOK, ProgressConsistent, WithinTotal
    <2>3. CASE WriteProgress
      <3>1. worker.job \in Jobs /\ status[worker.job] # "succeeded" /\ UNCHANGED status
        BY <2>3 DEF WriteProgress, TypeOK, ExecutorMatchesRow, Busy, Executing
      <3>2. PICK current \in Work, total \in Work \cup {NoTotal} :
              /\ WithinTotal(current, NewTotal(worker.job, total))
              /\ progress' = [progress EXCEPT ![worker.job] =
                                [current |-> current, total |-> NewTotal(worker.job, total)]]
        BY <2>3 DEF WriteProgress
      <3> QED BY <3>1, <3>2 DEF TypeOK, ProgressConsistent, WithinTotal
    <2>4. CASE SucceedJob
      <3> DEFINE p == progress[worker.job]
                 top == IF p.total = NoTotal THEN p.current ELSE p.total
      <3>1. worker.job \in Jobs
        BY <2>4 DEF SucceedJob, TypeOK, Busy, Executing
      <3>2. progress'[worker.job] = [current |-> top, total |-> p.total]
        BY <2>4, <3>1 DEF SucceedJob, TypeOK, Progress
      <3>3. \A k \in Jobs : k # worker.job => progress'[k] = progress[k] /\ status'[k] = status[k]
        BY <2>4, <3>1 DEF SucceedJob, TypeOK
      <3>4. p.total # NoTotal => p.total \in Nat
        BY <3>1 DEF TypeOK, Progress
      <3>5. WithinTotal(top, p.total) /\ p.total \in {NoTotal, top}
        BY <3>4 DEF WithinTotal
      <3> QED BY <3>1, <3>2, <3>3, <3>5 DEF ProgressConsistent
    <2>5. CASE \/ Process \/ UNCHANGED vars
      BY <2>5 DEF Process, LoseTransaction, Shutdown, Crash, Boot, RecoverOrphanedJobs,
                  RecoveryFails, rows, vars, TypeOK, ProgressConsistent, Active
    <2>6. CASE \/ TakeJob \/ TakeStop \/ SkipJob \/ ReadForProgress \/ ExecutorRaises
               \/ ExecutorReturns \/ RefuseSuccess \/ ReadForFailure \/ WriteFailure
      BY <2>6 DEF TakeJob, TakeStop, SkipJob, ReadForProgress, ExecutorRaises, ExecutorReturns,
                  RefuseSuccess, ReadForFailure, WriteFailure, rows, TypeOK, ProgressConsistent
    <2>7. CASE \E j \in Jobs : \/ CheckRequest(j) \/ RefuseRequest(j) \/ RefuseCommit(j)
                               \/ SubmitRequest(j) \/ CancelJob(j)
      BY <2>7 DEF CheckRequest, RefuseRequest, RefuseCommit, SubmitRequest, CancelJob, rows,
                  TypeOK, ProgressConsistent
    <2> QED BY <2>1, <2>2, <2>3, <2>4, <2>5, <2>6, <2>7 DEF Next, Requests, WorkerStep
  <1> QED BY <1>1, <1>2, Inductive, PTL DEF Spec

-----------------------------------------------------------------------------
(* The rows move as JobLifecycle promises as long as nobody cancels a job,  *)
(* which is how the program is today: no route calls cancel.                *)

owner == IF worker.pc \in Executing THEN worker.job ELSE NoJob

\* The commit of a request is Accept, its other steps stutter.
LEMMA RequestStep ==
    ASSUME IInv, Cancellable = {}, Requests
    PROVE  [Lifecycle!Next]_(Lifecycle!vars)
  <1>1. CASE \E j \in Jobs : CheckRequest(j) \/ RefuseRequest(j) \/ RefuseCommit(j)
    BY <1>1 DEF CheckRequest, RefuseRequest, RefuseCommit, rows, Lifecycle!vars
  <1>2. ASSUME NEW j \in Jobs, CommitRequest(j)
        PROVE  Lifecycle!Next
    <2>1. Lifecycle!Accept(j)
      BY <1>2 DEF CommitRequest, Lifecycle!Accept, IInv, RequestRows
    <2> QED BY <2>1 DEF Lifecycle!Next
  <1>3. ASSUME NEW j \in Jobs, SubmitRequest(j)
        PROVE  UNCHANGED Lifecycle!vars
    BY <1>3 DEF SubmitRequest, rows, Idle, Executing, Lifecycle!vars
  <1>4. ASSUME NEW j \in Jobs, CancelJob(j)
        PROVE  FALSE
    BY <1>4 DEF CancelJob
  <1> QED BY <1>1, <1>2, <1>3, <1>4 DEF Requests

\* The worker begins, finishes or releases a job of JobLifecycle, or stutters.
LEMMA WorkerStepMaps ==
    ASSUME IInv, Cancellable = {}, WorkerStep
    PROVE  [Lifecycle!Next]_(Lifecycle!vars)
  <1>1. worker.pc \in Executing => status[worker.job] = "running" /\ worker.job \in Jobs
    BY DEF IInv, ExecutorMatchesRow, TypeOK, Busy
  <1>2. CASE TakeJob \/ TakeStop \/ SkipJob
    BY <1>2 DEF TakeJob, TakeStop, SkipJob, Idle, Absent, Executing, rows, Lifecycle!vars
  <1>3. CASE StartJob
    <2>1. worker.job \in Jobs
      BY <1>3 DEF StartJob, IInv, TypeOK, Busy
    <2>2. Lifecycle!Begin(worker.job)
      BY <1>3 DEF StartJob, Hold, IInv, TypeOK, Executing, Lifecycle!Begin
    <2> QED BY <2>1, <2>2 DEF Lifecycle!Next
  <1>4. CASE \/ ReadForProgress \/ WriteProgress \/ ExecutorRaises \/ ExecutorReturns
             \/ ReadForFailure /\ status[worker.job] = "running"
    BY <1>4 DEF ReadForProgress, WriteProgress, ExecutorRaises, ExecutorReturns, ReadForFailure,
                Hold, IInv, TypeOK, Executing, rows, Lifecycle!vars
  <1>5. CASE RefuseSuccess \/ (ReadForFailure /\ status[worker.job] # "running")
    BY <1>1, <1>5 DEF RefuseSuccess, ReadForFailure, Executing
  <1>6. CASE SucceedJob
    <2>1. Lifecycle!Finish(worker.job, "succeeded")
      BY <1>1, <1>6, JobsAssumption DEF SucceedJob, Idle, Executing, Lifecycle!Finish
    <2> QED BY <1>1, <1>6, <2>1 DEF SucceedJob, Executing, Lifecycle!Next
  <1>7. CASE WriteFailure
    <2>1. Lifecycle!Finish(worker.job, "failed")
      BY <1>1, <1>7, JobsAssumption DEF WriteFailure, Idle, Executing, Lifecycle!Finish
    <2> QED BY <1>1, <1>7, <2>1 DEF WriteFailure, Executing, Lifecycle!Next
  <1> QED BY <1>2, <1>3, <1>4, <1>5, <1>6, <1>7 DEF WorkerStep

\* A crash or a refused transaction is Release, the recovery is Recover.
LEMMA ProcessStepMaps ==
    ASSUME IInv, Process
    PROVE  [Lifecycle!Next]_(Lifecycle!vars)
  <1>1. worker.pc \in Executing => worker.job # NoJob
    BY DEF IInv, TypeOK, Busy
  <1>2. CASE LoseTransaction \/ Crash
    <2>1. UNCHANGED status /\ owner' = NoJob
      BY <1>2 DEF LoseTransaction, Crash, rows, Idle, Absent, Executing, owner
    <2>2. Lifecycle!Release \/ UNCHANGED Lifecycle!vars
      BY <2>1 DEF owner, Lifecycle!Release, Lifecycle!vars
    <2> QED BY <2>2 DEF Lifecycle!Next
  <1>3. CASE Shutdown \/ Boot \/ RecoveryFails
    BY <1>3 DEF Shutdown, Boot, RecoveryFails, rows, Lifecycle!vars
  <1>4. CASE RecoverOrphanedJobs
    <2>1. worker = Absent
      BY <1>4 DEF RecoverOrphanedJobs, IInv, ProcessMemory, Serving
    <2>2. Lifecycle!Recover
      BY <1>4, <2>1
         DEF RecoverOrphanedJobs, Absent, Executing, Active, Lifecycle!Recover, Lifecycle!Active
    <2> QED BY <2>2 DEF Lifecycle!Next
  <1> QED BY <1>2, <1>3, <1>4 DEF Process

\* While nobody cancels, no crash, retry or refused transaction makes a row move
\* other than as JobLifecycle allows: it is accepted once, begun once, by one
\* owner at a time, and closed once (job_service._require, runner.run).
THEOREM Refinement ==
    ASSUME Cancellable = {}
    PROVE  Spec => ImplementsLifecycle
  <1>1. Init => Lifecycle!Init
    BY DEF Init, Absent, Executing, Lifecycle!Init
  <1>2. IInv /\ [Next]_vars => [Lifecycle!Next]_(Lifecycle!vars)
    <2> SUFFICES ASSUME IInv, [Next]_vars
                 PROVE  [Lifecycle!Next]_(Lifecycle!vars)
      OBVIOUS
    <2>1. CASE UNCHANGED vars
      BY <2>1 DEF vars, Lifecycle!vars
    <2> QED BY <2>1, RequestStep, WorkerStepMaps, ProcessStepMaps DEF Next
  <1> QED BY <1>1, <1>2, Inductive, PTL DEF Spec, ImplementsLifecycle, Lifecycle!Spec

=============================================================================
