------------------------- MODULE SyncPipelineProofs -------------------------
(***************************************************************************)
(* Theorems about SyncPipeline, for every plan, every number of jobs,      *)
(* workers and API clients, and every bound on retries, crashes and        *)
(* rollbacks.                                                              *)
(*                                                                         *)
(* Any number of workers, with retry requests and rolled back handlers: an *)
(* open claim keeps the row it locked (ClaimsHold), so a task that has     *)
(* ended once reads as ended or retried ever after, and the runs still to  *)
(* be given - queued in the row, in a worker's hand, asked for by a        *)
(* request - are a budget that every step spends from (SpentBound).        *)
(*                                                                         *)
(* The last two are about one worker and no retry requests, as deployed    *)
(* and undisturbed: a job that nobody works on carries the evaluation of   *)
(* its tasks, and an active one has work left.  They need that whatever is *)
(* worked on exists (Existing) and that what the worker holds of the task  *)
(* and of the job is still so when it writes (InHand).                     *)
(***************************************************************************)
EXTENDS SyncPipeline, FiniteSetTheorems, TLAPS

\* No retry_count exceeds max_retries, neither of a row nor of a copy that
\* schedule_retry may increment.
RetryBound == \A t \in TaskIds : tasks[t].retry <= MaxRetries

CopiesBound ==
    /\ \A w \in Workers : mem[w].retry <= MaxRetries
    /\ \A c \in Clients : req[c].op = "retry" =>
           \A k \in Steps : req[c].rows[k].retry <= MaxRetries

\* What the rows must say while a worker is at each place of its loop.
RowAgrees(w) ==
    /\ pc[w] # "rolledback"
    /\ pc[w] = "claimed" => tasks[at[w]].status = "queued"
    /\ pc[w] = "running" => tasks[at[w]].status = "running"
    /\ pc[w] = "retry" => tasks[at[w]].status = "failed" /\ mem[w].status = "failed"
    /\ pc[w] = "evaluate" /\ mem[w].status = "succeeded" => tasks[at[w]].status = "succeeded"
    /\ pc[w] = "write" => eval[w].computed.status # "absent"
    /\ pc[w] = "write" /\ eval[w].computed.status = "completed" =>
           \A k \in Steps : tasks[<<at[w][1], k>>].status = "succeeded"

RowsAgree == \A w \in Workers : RowAgrees(w)

Writing(w) == pc[w] \in {"claimed", "running", "retry"}

WritersDistinct ==
    \A v, w \in Workers : v # w /\ Writing(v) /\ Writing(w) => at[v] # at[w]

AbsentJobs ==
    \A j \in Jobs : ~Exists(j) => \A k \in Steps : tasks[<<j, k>>].status = "absent"

NoRetryRequest == \A c \in Clients : req[c].op # "retry"

UndisturbedInv ==
    /\ RowsAgree
    /\ WritersDistinct
    /\ AbsentJobs
    /\ NoRetryRequest
    /\ \A j \in Jobs : jobs[j].status = "completed" =>
           \A k \in Steps : tasks[<<j, k>>].status = "succeeded"

IInv == TypeOK /\ RetryBound /\ CopiesBound /\ (Undisturbed => UndisturbedInv)

-----------------------------------------------------------------------------
(* Lemmas about the operators *)

\* The steps of a plan are finitely many, and there is a first one.
LEMMA StepsFinite == IsFiniteSet(Steps) /\ Steps \subseteq Nat \ {0} /\ 1 \in Steps
<1>1. Len(Plan) \in Nat \ {0} BY PlanAssumption
<1>2. IsFiniteSet(1..Len(Plan)) BY <1>1, FS_Interval
<1> QED BY <1>1, <1>2 DEF Steps

\* A task id is its job and its step, and is never NoTask.
LEMMA TaskIdParts ==
    ASSUME NEW t \in TaskIds
    PROVE  t[1] \in Jobs /\ t[2] \in Steps /\ t = <<t[1], t[2]>> /\ t # NoTask
BY StepsFinite, JobsAssumption DEF TaskIds, NoTask

\* A job and a step make a task id, equal to another exactly componentwise.
LEMMA TaskIdPair ==
    ASSUME NEW t \in TaskIds, NEW j \in Jobs, NEW k \in Steps
    PROVE  <<j, k>> \in TaskIds /\ (<<j, k>> = t <=> j = t[1] /\ k = t[2])
<1>1. PICK i \in Jobs, l \in Steps : t = <<i, l>>
  BY DEF TaskIds
<1> QED BY <1>1 DEF TaskIds

\* Both counters that refresh_job_counters computes are natural numbers.
LEMMA CountersType ==
    ASSUME NEW st, NEW status \in JobStatuses
    PROVE  refresh_job_counters(st, status) \in JobRow
<1> DEFINE done == {k \in Steps : st[k] = "succeeded"}
           lost == {k \in Steps : st[k] = "failed"}
<1>1. IsFiniteSet(done) /\ IsFiniteSet(lost)
  BY StepsFinite, FS_Subset
<1>2. Cardinality(done) \in Nat /\ Cardinality(lost) \in Nat
  BY <1>1, FS_CardinalityType
<1> QED BY <1>2 DEF refresh_job_counters, JobRow

\* The evaluation of a job never yields the status of a missing job, and yields
\* completed only when every task it sees has succeeded.
LEMMA EvaluateJob ==
    ASSUME NEW st
    PROVE  /\ evaluate_job(st) \in JobRow
           /\ evaluate_job(st).status # "absent"
           /\ evaluate_job(st).status = "completed" =>
                  \A k \in Steps : st[k] = "succeeded"
<1>1. JobStatus(st) \in JobStatuses /\ JobStatus(st) # "absent"
  BY DEF JobStatus, JobStatuses, PHASE_STATUSES, TERMINAL_JOB_STATUSES
<1>2. evaluate_job(st) \in JobRow
  BY <1>1, CountersType DEF evaluate_job
<1>3. evaluate_job(st).status = JobStatus(st)
  BY DEF evaluate_job, refresh_job_counters
<1>4. ASSUME JobStatus(st) = "completed", NEW k \in Steps
      PROVE  st[k] = "succeeded"
  <2>0. Plan[k] \in TaskSpec
    BY PlanAssumption DEF Steps
  <2>1. Plan[k].category \in Categories
    BY <2>0 DEF TaskSpec
  <2>2. task_terminal(st[k]) /\ st[k] # "failed"
    BY <2>1, <1>4 DEF JobStatus, Open, Categories
  <2> QED BY <2>2 DEF task_terminal, TERMINAL_TASK_STATUSES
<1> QED BY <1>1, <1>2, <1>3, <1>4

\* The UPDATE of a job row keeps its type; its status is the row's own or the
\* computed one.
LEMMA UpdateRow ==
    ASSUME NEW row \in JobRow, NEW loaded \in JobRow, NEW computed \in JobRow
    PROVE  /\ Update(row, loaded, computed) \in JobRow
           /\ Update(row, loaded, computed).status \in {row.status, computed.status}
BY DEF Update, JobRow

\* schedule_retry keeps the type of the row and, when the row and the copy are
\* within max_retries, so is the result.
LEMMA ScheduleRetryRow ==
    ASSUME NEW row \in TaskRow, NEW copy \in TaskCopy, NEW delay \in BOOLEAN
    PROVE  /\ schedule_retry(row, copy, delay) \in TaskRow
           /\ row.retry <= MaxRetries /\ copy.retry <= MaxRetries =>
                  schedule_retry(row, copy, delay).retry <= MaxRetries
           /\ schedule_retry(row, copy, delay).status \in {row.status, "failed", "queued"}
BY BoundsAssumption
   DEF schedule_retry, TaskRow, TaskCopy, TaskStatuses, TERMINAL_TASK_STATUSES

-----------------------------------------------------------------------------
(* Type correctness *)

\* A request of the retry kind has the fields that Load gave it.
LEMMA RetryRequest ==
    ASSUME TypeOK, NEW c \in Clients, req[c].op = "retry"
    PROVE  req[c] \in [op : {"retry"}, job : Jobs, whole : BOOLEAN, sel : SUBSET Steps,
                       delay : BOOLEAN, rows : [Steps -> TaskCopy], status : JobStatuses]
BY DEF TypeOK, Requests, NoReq

\* Likewise for a request of the start kind.
LEMMA StartRequest ==
    ASSUME TypeOK, NEW c \in Clients, req[c].op = "start"
    PROVE  req[c].account \in Accounts
BY DEF TypeOK, Requests, NoReq

\* The initial state is well typed.
LEMMA InitTypeOK == Init => TypeOK
BY DEF Init, TypeOK, JobRow, TaskRow, TaskCopy, WorkerPCs, Requests, AbsentJob, AbsentTask,
       NoCopy, NoEval, NoReq, JobStatuses, TaskStatuses

\* Every step keeps the types.
LEMMA NextTypeOK == TypeOK /\ [Next]_vars => TypeOK'
<1> SUFFICES ASSUME TypeOK, [Next]_vars PROVE TypeOK'
  OBVIOUS
<1> USE DEF TypeOK
<1>1. ASSUME NEW c \in Clients, NEW a \in Accounts, NEW f \in BOOLEAN, StartCheck(c, a, f)
      PROVE  TypeOK'
  BY <1>1 DEF StartCheck, Requests, ghosts
<1>2. ASSUME NEW c \in Clients, StartCommit(c)
      PROVE  TypeOK'
  <2>1. PICK j \in Jobs : 
          /\ jobs' = [jobs EXCEPT ![j] =
                 refresh_job_counters([k \in Steps |-> "queued"], "collecting")]
          /\ account' = [account EXCEPT ![j] = req[c].account]
          /\ tasks' = [t \in TaskIds |->
                 IF t[1] = j THEN [status |-> "queued", retry |-> 0, delayed |-> FALSE]
                 ELSE tasks[t]]
    BY <1>2 DEF StartCommit
  <2>2. refresh_job_counters([k \in Steps |-> "queued"], "collecting") \in JobRow
    BY CountersType DEF JobStatuses, PHASE_STATUSES
  <2>3. jobs' \in [Jobs -> JobRow]
    BY <2>1, <2>2
  <2>4. account' \in [Jobs -> Accounts]
    BY <2>1, <1>2, StartRequest DEF StartCommit
  <2>5. tasks' \in [TaskIds -> TaskRow]
    BY <2>1 DEF TaskRow, TaskStatuses
  <2> QED BY <2>3, <2>4, <2>5, <1>2 DEF StartCommit, ghosts, Requests
<1>3. ASSUME NEW c \in Clients, NEW j \in Jobs, NEW sel \in SUBSET Steps,
             NEW whole \in BOOLEAN, NEW delay \in BOOLEAN, Load(c, j, sel, whole, delay)
      PROVE  TypeOK'
  <2> DEFINE rows == [k \in Steps |->
                [status |-> tasks[<<j, k>>].status, retry |-> tasks[<<j, k>>].retry]]
             r == [op |-> "retry", job |-> j, whole |-> whole, sel |-> sel, delay |-> delay,
                   rows |-> rows, status |-> jobs[j].status]
  <2>1. rows \in [Steps -> TaskCopy]
    BY DEF TaskIds, TaskRow, TaskCopy
  <2>2. jobs[j].status \in JobStatuses
    BY DEF JobRow
  <2>3. r \in Requests
    BY <2>1, <2>2 DEF Requests
  <2>4. req' = [req EXCEPT ![c] = r] /\ apiRetries' = apiRetries + 1
    BY <1>3 DEF Load
  <2> HIDE DEF r
  <2>5. req' \in [Clients -> Requests]
    BY <2>3, <2>4
  <2> QED BY <2>4, <2>5, <1>3 DEF Load
<1>4. ASSUME NEW c \in Clients, RetryCommit(c)
      PROVE  TypeOK'
  <2>1. /\ req[c].job \in Jobs /\ req[c].sel \subseteq Steps /\ req[c].delay \in BOOLEAN
        /\ req[c].rows \in [Steps -> TaskCopy]
    BY <1>4, RetryRequest DEF RetryCommit
  <2>2. ASSUME NEW t \in TaskIds, t[2] \in req[c].sel
        PROVE  schedule_retry(tasks[t], req[c].rows[t[2]], req[c].delay) \in TaskRow
    BY <2>1, <2>2, ScheduleRetryRow
  <2>3. tasks' \in [TaskIds -> TaskRow]
    BY <1>4, <2>2 DEF RetryCommit
  <2>4. jobs' \in [Jobs -> JobRow]
    BY <1>4, <2>1, ZenonT(60) DEF RetryCommit, JobRow, JobStatuses, PHASE_STATUSES
  <2> QED BY <2>3, <2>4, <1>4 DEF RetryCommit, ghosts, Requests
<1>5. ASSUME NEW w \in Workers, Claim(w)
      PROVE  TypeOK'
  BY <1>5 DEF Claim, TaskCopy, TaskRow, TaskStatuses, WorkerPCs, ghosts
<1>6. ASSUME NEW w \in Workers, HandlerCommit(w)
      PROVE  TypeOK'
  BY <1>6 DEF HandlerCommit, TaskRow, TaskStatuses, WorkerPCs, ghosts
<1>7. ASSUME NEW w \in Workers, HandlerSucceeds(w)
      PROVE  TypeOK'
  BY <1>7, SMTT(30) DEF HandlerSucceeds, TaskRow, TaskCopy, TaskStatuses, TERMINAL_TASK_STATUSES,
              WorkerPCs, ghosts
<1>8. ASSUME NEW w \in Workers, HandlerFails(w)
      PROVE  TypeOK'
  BY <1>8, SMTT(30) DEF HandlerFails, TaskRow, TaskCopy, TaskStatuses, TERMINAL_TASK_STATUSES,
              WorkerPCs, ghosts
<1>9. ASSUME NEW w \in Workers, HandlerRollback(w)
      PROVE  TypeOK'
  BY <1>9 DEF HandlerRollback, WorkerPCs
<1>10. ASSUME NEW w \in Workers, ScheduleRetry(w)
       PROVE  TypeOK'
  <2>1. at[w] \in TaskIds
    BY <1>10 DEF ScheduleRetry
  <2>2. schedule_retry(tasks[at[w]], mem[w], TRUE) \in TaskRow
    BY <2>1, ScheduleRetryRow
  <2>3. tasks' \in [TaskIds -> TaskRow]
    BY <1>10, <2>1, <2>2 DEF ScheduleRetry
  <2>4. mem' \in [Workers -> TaskCopy]
    BY <1>10 DEF ScheduleRetry, TaskCopy, TaskStatuses
  <2> QED BY <2>3, <2>4, <1>10 DEF ScheduleRetry, WorkerPCs, ghosts
<1>11. ASSUME NEW w \in Workers, EvaluateRead(w)
       PROVE  TypeOK'
  <2>1. jobs[at[w][1]] \in JobRow /\ evaluate_job(Seen(w)) \in JobRow
    BY <1>11, EvaluateJob, TaskIdParts DEF EvaluateRead
  <2> QED BY <2>1, <1>11 DEF EvaluateRead, WorkerPCs, ghosts
<1>12. ASSUME NEW w \in Workers, EvaluateCommit(w)
       PROVE  TypeOK'
  <2>1. at[w][1] \in Jobs
    BY <1>12, TaskIdParts DEF EvaluateCommit
  <2>2. Update(jobs[at[w][1]], eval[w].loaded, eval[w].computed) \in JobRow
    BY <2>1, UpdateRow
  <2>3. jobs' \in [Jobs -> JobRow]
    BY <1>12, <2>1, <2>2 DEF EvaluateCommit
  <2>4. NoCopy \in TaskCopy /\ NoEval \in [loaded : JobRow, computed : JobRow]
    BY DEF NoCopy, NoEval, AbsentJob, TaskCopy, JobRow, TaskStatuses, JobStatuses
  <2> QED BY <2>3, <2>4, <1>12 DEF EvaluateCommit, WorkerPCs, ghosts
<1>13. ASSUME NEW w \in Workers, CrashRestart(w)
       PROVE  TypeOK'
  <2>1. NoCopy \in TaskCopy /\ NoEval \in [loaded : JobRow, computed : JobRow]
    BY DEF NoCopy, NoEval, AbsentJob, TaskCopy, JobRow, TaskStatuses, JobStatuses
  <2> QED BY <2>1, <1>13 DEF CrashRestart, WorkerPCs
<1>14. ASSUME NEW t \in TaskIds, DelayExpires(t)
       PROVE  TypeOK'
  BY <1>14 DEF DelayExpires, TaskRow, ghosts
<1>15. CASE UNCHANGED vars
  BY <1>15 DEF vars
<1> HIDE DEF TypeOK
<1>16. ASSUME NEW c \in Clients, NEW t \in TaskIds, NEW delay \in BOOLEAN,
              RetryTask(c, t, delay)
       PROVE  TypeOK'
  BY <1>3, <1>16, TaskIdParts DEF RetryTask
<1>17. ASSUME NEW c \in Clients, NEW j \in Jobs, NEW sel \in SUBSET Steps,
              NEW delay \in BOOLEAN, RetryJob(c, j, sel, delay)
       PROVE  TypeOK'
  BY <1>3, <1>17 DEF RetryJob
<1> QED
  BY <1>1, <1>2, <1>4, <1>5, <1>6, <1>7, <1>8, <1>9, <1>10, <1>11, <1>12, <1>13, <1>14, <1>15,
     <1>16, <1>17 DEF Next, WorkerStep

\* Type correctness of the pipeline: rows, worker copies and requests keep their
\* types whatever workers, requests, crashes and rollbacks do.
THEOREM TypeCorrect == Spec => []TypeOK
BY InitTypeOK, NextTypeOK, PTL DEF Spec

-----------------------------------------------------------------------------
(* The retry bound *)

\* Rows and copies start within max_retries.
LEMMA InitRetry == Init => RetryBound /\ CopiesBound
BY BoundsAssumption DEF Init, RetryBound, CopiesBound, AbsentTask, NoCopy, NoReq

\* Every step keeps the rows and the copies within max_retries.
LEMMA NextRetry ==
    TypeOK /\ RetryBound /\ CopiesBound /\ [Next]_vars => RetryBound' /\ CopiesBound'
<1> SUFFICES ASSUME TypeOK, RetryBound, CopiesBound, [Next]_vars
             PROVE  RetryBound' /\ CopiesBound'
  OBVIOUS
<1> USE BoundsAssumption DEF RetryBound, CopiesBound
<1>1. ASSUME NEW c \in Clients, NEW a \in Accounts, NEW f \in BOOLEAN, StartCheck(c, a, f)
      PROVE  RetryBound' /\ CopiesBound'
  BY <1>1 DEF StartCheck, TypeOK
<1>2. ASSUME NEW c \in Clients, StartCommit(c)
      PROVE  RetryBound' /\ CopiesBound'
  BY <1>2 DEF StartCommit, TypeOK, NoReq
<1>3. ASSUME NEW c \in Clients, NEW j \in Jobs, NEW sel \in SUBSET Steps,
             NEW whole \in BOOLEAN, NEW delay \in BOOLEAN, Load(c, j, sel, whole, delay)
      PROVE  RetryBound' /\ CopiesBound'
  BY <1>3 DEF Load, TypeOK, TaskIds
<1>4. ASSUME NEW c \in Clients, RetryCommit(c)
      PROVE  RetryBound' /\ CopiesBound'
  <2>1. /\ req[c].job \in Jobs /\ req[c].sel \subseteq Steps /\ req[c].delay \in BOOLEAN
        /\ req[c].rows \in [Steps -> TaskCopy]
    BY <1>4, RetryRequest DEF RetryCommit
  <2>2. ASSUME NEW t \in TaskIds, t[2] \in req[c].sel
        PROVE  schedule_retry(tasks[t], req[c].rows[t[2]], req[c].delay).retry <= MaxRetries
    <3>1. tasks[t] \in TaskRow /\ req[c].rows[t[2]] \in TaskCopy
      BY <2>1, <2>2 DEF TypeOK
    <3>2. tasks[t].retry <= MaxRetries /\ req[c].rows[t[2]].retry <= MaxRetries
      BY <1>4, <2>1, <2>2 DEF RetryCommit
    <3> QED BY <2>1, <3>1, <3>2, ScheduleRetryRow
  <2>3. RetryBound'
    BY <1>4, <2>2 DEF RetryCommit
  <2> QED BY <2>3, <1>4 DEF RetryCommit, TypeOK, NoReq
<1>5. ASSUME NEW w \in Workers, Claim(w)
      PROVE  RetryBound' /\ CopiesBound'
  BY <1>5 DEF Claim, TypeOK
<1>6. ASSUME NEW w \in Workers, HandlerCommit(w)
      PROVE  RetryBound' /\ CopiesBound'
  BY <1>6 DEF HandlerCommit, TypeOK, TaskRow
<1>7. ASSUME NEW w \in Workers, HandlerSucceeds(w)
      PROVE  RetryBound' /\ CopiesBound'
  BY <1>7 DEF HandlerSucceeds, TypeOK, TaskRow, TaskCopy
<1>8. ASSUME NEW w \in Workers, HandlerFails(w)
      PROVE  RetryBound' /\ CopiesBound'
  BY <1>8 DEF HandlerFails, TypeOK, TaskRow, TaskCopy
<1>9. ASSUME NEW w \in Workers, HandlerRollback(w)
      PROVE  RetryBound' /\ CopiesBound'
  BY <1>9 DEF HandlerRollback, TypeOK
<1>10. ASSUME NEW w \in Workers, ScheduleRetry(w)
       PROVE  RetryBound' /\ CopiesBound'
  <2>1. at[w] \in TaskIds /\ tasks[at[w]] \in TaskRow /\ mem[w] \in TaskCopy
    BY <1>10 DEF ScheduleRetry, TypeOK
  <2>2. schedule_retry(tasks[at[w]], mem[w], TRUE).retry <= MaxRetries
    BY <2>1, ScheduleRetryRow
  <2>3. RetryBound'
    BY <1>10, <2>1, <2>2 DEF ScheduleRetry, TypeOK
  <2>4. CopiesBound'
    BY <1>10, <2>1 DEF ScheduleRetry, TypeOK, TaskCopy
  <2> QED BY <2>3, <2>4
<1>11. ASSUME NEW w \in Workers, EvaluateRead(w)
       PROVE  RetryBound' /\ CopiesBound'
  BY <1>11 DEF EvaluateRead, TypeOK
<1>12. ASSUME NEW w \in Workers, EvaluateCommit(w)
       PROVE  RetryBound' /\ CopiesBound'
  BY <1>12 DEF EvaluateCommit, TypeOK, NoCopy
<1>13. ASSUME NEW w \in Workers, CrashRestart(w)
       PROVE  RetryBound' /\ CopiesBound'
  BY <1>13 DEF CrashRestart, TypeOK, NoCopy
<1>14. ASSUME NEW t \in TaskIds, DelayExpires(t)
       PROVE  RetryBound' /\ CopiesBound'
  BY <1>14 DEF DelayExpires, TypeOK, TaskRow
<1>15. CASE UNCHANGED vars
  BY <1>15 DEF vars
<1> HIDE DEF RetryBound, CopiesBound
<1>16. ASSUME NEW c \in Clients, NEW t \in TaskIds, NEW delay \in BOOLEAN,
              RetryTask(c, t, delay)
       PROVE  RetryBound' /\ CopiesBound'
  BY <1>3, <1>16, TaskIdParts DEF RetryTask
<1>17. ASSUME NEW c \in Clients, NEW j \in Jobs, NEW sel \in SUBSET Steps,
              NEW delay \in BOOLEAN, RetryJob(c, j, sel, delay)
       PROVE  RetryBound' /\ CopiesBound'
  BY <1>3, <1>17 DEF RetryJob
<1> QED
  BY <1>1, <1>2, <1>4, <1>5, <1>6, <1>7, <1>8, <1>9, <1>10, <1>11, <1>12, <1>13, <1>14, <1>15,
     <1>16, <1>17 DEF Next, WorkerStep

-----------------------------------------------------------------------------
(* One worker per task, and the completed verdict *)

\* Initially no worker is busy, no job exists and no request is in flight.
LEMMA InitUndisturbed == Init => UndisturbedInv
BY DEF Init, UndisturbedInv, RowsAgree, RowAgrees, WritersDistinct, Writing, AbsentJobs,
       NoRetryRequest, AbsentTask, AbsentJob, NoReq, TaskIds

\* A step that writes the row of a task that is queued, running or failed, and
\* leaves the others alone, cannot touch a completed job or a missing one.
LEMMA WriteRow ==
    ASSUME TypeOK, UndisturbedInv, NEW t \in TaskIds, NEW row \in TaskRow,
           tasks' = [tasks EXCEPT ![t] = row], jobs' = jobs,
           tasks[t].status \in {"queued", "running", "failed"}
    PROVE  /\ AbsentJobs'
           /\ \A j \in Jobs : jobs'[j].status = "completed" =>
                  \A k \in Steps : tasks'[<<j, k>>].status = "succeeded"
<1> USE DEF UndisturbedInv, TypeOK
<1>1. t = <<t[1], t[2]>> /\ t[1] \in Jobs /\ t[2] \in Steps
  BY TaskIdParts
<1>2. \A j \in Jobs, k \in Steps : <<j, k>> \in TaskIds /\ (<<j, k>> = t <=> j = t[1] /\ k = t[2])
  BY TaskIdPair
<1>3. Exists(t[1])
  BY <1>1 DEF AbsentJobs
<1>4. AbsentJobs'
  BY <1>2, <1>3 DEF AbsentJobs, Exists
<1>5. jobs[t[1]].status # "completed"
  BY <1>1
<1> QED BY <1>2, <1>4, <1>5

\* A worker's step that writes the row of its own task: what the rows say of the
\* other workers is not disturbed.
LEMMA WriteRowOthers ==
    ASSUME TypeOK, UndisturbedInv, NEW w \in Workers, Writing(w), NEW row \in TaskRow,
           tasks' = [tasks EXCEPT ![at[w]] = row],
           NEW v \in Workers, v # w,
           pc'[v] = pc[v], at'[v] = at[v], mem'[v] = mem[v], eval'[v] = eval[v]
    PROVE  RowAgrees(v)'
<1> USE DEF UndisturbedInv, TypeOK
<1>1. /\ tasks[at[w]].status \in {"queued", "running", "failed"}
      /\ at[w] \in TaskIds
  BY DEF Writing, RowsAgree, RowAgrees
<1>2. pc[v] # "idle" => at[v] \in TaskIds
  OBVIOUS
<1>3. Writing(v) => at[v] # at[w]
  BY DEF WritersDistinct
<1>4. pc[v] = "evaluate" /\ mem[v].status = "succeeded" => at[v] # at[w]
  BY <1>1 DEF RowsAgree, RowAgrees
<1>5. ASSUME pc[v] = "write", eval[v].computed.status = "completed", NEW k \in Steps
      PROVE  tasks'[<<at[v][1], k>>].status = "succeeded"
  <2>1. tasks[<<at[v][1], k>>].status = "succeeded"
    BY <1>5 DEF RowsAgree, RowAgrees
  <2>2. <<at[v][1], k>> \in TaskIds
    BY <1>2, <1>5, TaskIdParts DEF TaskIds
  <2> QED BY <2>1, <2>2, <1>1
<1> QED BY <1>1, <1>2, <1>3, <1>4, <1>5 DEF RowsAgree, RowAgrees, Writing

\* Every undisturbed step keeps the undisturbed invariant.
LEMMA NextUndisturbed ==
    TypeOK /\ (Undisturbed => UndisturbedInv) /\ [Next]_vars
    => (Undisturbed => UndisturbedInv)'
<1> SUFFICES ASSUME TypeOK, Undisturbed => UndisturbedInv, [Next]_vars, Undisturbed'
             PROVE  UndisturbedInv'
  OBVIOUS
<1> DEFINE Completed == \A j \in Jobs : jobs[j].status = "completed" =>
               \A k \in Steps : tasks[<<j, k>>].status = "succeeded"
<1>a. ASSUME NEW c \in Clients, NEW j \in Jobs, NEW sel \in SUBSET Steps,
             NEW whole \in BOOLEAN, NEW delay \in BOOLEAN, Load(c, j, sel, whole, delay)
      PROVE  FALSE
  BY <1>a DEF Load, Undisturbed, TypeOK
<1>b. ASSUME NEW w \in Workers, HandlerRollback(w)
      PROVE  FALSE
  BY <1>b DEF HandlerRollback, Undisturbed, TypeOK
<1>c. CASE UNCHANGED <<apiRetries, rollbacks>>
  <2>0. UndisturbedInv
    BY <1>c DEF Undisturbed
  <2> USE <2>0 DEF UndisturbedInv
  <2>1. ASSUME NEW c \in Clients, NEW a \in Accounts, NEW f \in BOOLEAN, StartCheck(c, a, f)
        PROVE  UndisturbedInv'
    BY <2>1 DEF StartCheck, RowsAgree, RowAgrees, WritersDistinct, Writing, AbsentJobs, Exists,
                NoRetryRequest, TypeOK
  <2>2. ASSUME NEW c \in Clients, StartCommit(c)
        PROVE  UndisturbedInv'
    <3>1. PICK j \in Jobs :
            /\ ~Exists(j)
            /\ jobs' = [jobs EXCEPT ![j] =
                   refresh_job_counters([k \in Steps |-> "queued"], "collecting")]
            /\ tasks' = [t \in TaskIds |->
                   IF t[1] = j THEN [status |-> "queued", retry |-> 0, delayed |-> FALSE]
                   ELSE tasks[t]]
      BY <2>2 DEF StartCommit
    <3>2. jobs'[j].status = "collecting"
      BY <3>1 DEF refresh_job_counters, TypeOK
    <3>3. \A t \in TaskIds : t[1] = j => tasks[t].status = "absent"
      BY <3>1, TaskIdParts DEF AbsentJobs
    <3>4. \A t \in TaskIds : tasks[t].status # "absent" => tasks'[t] = tasks[t]
      BY <3>1, <3>3
    <3>5. UNCHANGED <<pc, at, mem, eval>>
      BY <2>2 DEF StartCommit
    <3>6. RowsAgree'
      <4> SUFFICES ASSUME NEW w \in Workers PROVE RowAgrees(w)'
        BY DEF RowsAgree
      <4>1. RowAgrees(w) /\ (pc[w] # "idle" => at[w] \in TaskIds)
        BY DEF RowsAgree, TypeOK
      <4>2. pc[w] = "write" => \A k \in Steps : <<at[w][1], k>> \in TaskIds
        BY <4>1, TaskIdParts, TaskIdPair
      <4> QED BY <4>1, <4>2, <3>4, <3>5 DEF RowAgrees
    <3>7. WritersDistinct'
      BY <3>5 DEF WritersDistinct, Writing
    <3>8. AbsentJobs'
      BY <3>1, <3>2 DEF AbsentJobs, Exists, TaskIds, TypeOK
    <3>9. NoRetryRequest'
      BY <2>2 DEF StartCommit, NoRetryRequest, NoReq, TypeOK
    <3>10. Completed'
      <4> SUFFICES ASSUME NEW i \in Jobs, jobs'[i].status = "completed", NEW k \in Steps
                   PROVE  tasks'[<<i, k>>].status = "succeeded"
        OBVIOUS
      <4>1. i # j /\ jobs[i].status = "completed"
        BY <3>1, <3>2 DEF TypeOK
      <4> QED BY <4>1, <3>1 DEF TaskIds
    <3> QED BY <3>6, <3>7, <3>8, <3>9, <3>10
  <2>3. ASSUME NEW c \in Clients, RetryCommit(c)
        PROVE  UndisturbedInv'
    BY <2>3 DEF RetryCommit, NoRetryRequest
  <2>4. ASSUME NEW w \in Workers, Claim(w)
        PROVE  UndisturbedInv'
    <3>1. PICK t \in TaskIds :
            /\ Claimable(t)
            /\ at' = [at EXCEPT ![w] = t]
      BY <2>4 DEF Claim
    <3>2. tasks[t].status = "queued" /\ \A v \in Workers : pc[v] = "claimed" => at[v] # t
      BY <3>1 DEF Claimable, Locked
    <3>3. \A v \in Workers \ {w} : Writing(v) => at[v] # t
      BY <3>2 DEF Writing, RowsAgree, RowAgrees
    <3>4. pc' = [pc EXCEPT ![w] = "claimed"] /\ UNCHANGED <<jobs, tasks, eval, req>>
      BY <2>4 DEF Claim
    <3>5. \A v \in Workers \ {w} : mem'[v] = mem[v]
      BY <2>4 DEF Claim, TypeOK
    <3>6. RowsAgree'
      BY <3>1, <3>2, <3>4, <3>5 DEF RowsAgree, RowAgrees, TypeOK
    <3>7. WritersDistinct'
      BY <3>1, <3>3, <3>4 DEF WritersDistinct, Writing, TypeOK
    <3> QED BY <3>4, <3>6, <3>7 DEF AbsentJobs, Exists, NoRetryRequest
  <2>5. ASSUME NEW w \in Workers, Writing(w), NEW row \in TaskRow,
               tasks' = [tasks EXCEPT ![at[w]] = row],
               UNCHANGED <<jobs, at, eval, req>>,
               \A v \in Workers \ {w} : pc'[v] = pc[v] /\ mem'[v] = mem[v],
               RowAgrees(w)'
        PROVE  UndisturbedInv'
    <3>1. at[w] \in TaskIds /\ tasks[at[w]].status \in {"queued", "running", "failed"}
      BY <2>5 DEF Writing, RowsAgree, RowAgrees, TypeOK
    <3>2. AbsentJobs' /\ Completed'
      BY <2>5, <3>1, WriteRow
    <3>3. RowsAgree'
      BY <2>5, WriteRowOthers DEF RowsAgree
    <3>4. WritersDistinct'
      BY <2>5 DEF WritersDistinct, Writing
    <3> QED BY <2>5, <3>2, <3>3, <3>4 DEF NoRetryRequest
  <2>6. ASSUME NEW w \in Workers, HandlerCommit(w)
        PROVE  UndisturbedInv'
    <3> DEFINE row == [tasks[at[w]] EXCEPT !.status = "running"]
    <3>1. at[w] \in TaskIds /\ Writing(w)
      BY <2>6 DEF HandlerCommit, Writing, TypeOK
    <3>2. row \in TaskRow /\ row.status = "running"
      BY <3>1 DEF TypeOK, TaskRow, TaskStatuses
    <3>3. /\ tasks' = [tasks EXCEPT ![at[w]] = row]
          /\ pc' = [pc EXCEPT ![w] = "running"] /\ UNCHANGED <<jobs, at, mem, eval, req>>
      BY <2>6, <3>1 DEF HandlerCommit, TypeOK
    <3> HIDE DEF row
    <3>4. RowAgrees(w)'
      BY <3>1, <3>2, <3>3 DEF RowAgrees, TypeOK
    <3> QED BY <2>5, <3>1, <3>2, <3>3, <3>4 DEF TypeOK
  <2>7. ASSUME NEW w \in Workers, HandlerSucceeds(w)
        PROVE  UndisturbedInv'
    <3> DEFINE row == [tasks[at[w]] EXCEPT !.status = "succeeded"]
    <3>1. at[w] \in TaskIds /\ Writing(w)
      BY <2>7 DEF HandlerSucceeds, Writing, TypeOK
    <3>2. row \in TaskRow /\ row.status = "succeeded"
      BY <3>1 DEF TypeOK, TaskRow, TaskStatuses, TERMINAL_TASK_STATUSES
    <3>3. /\ tasks' = [tasks EXCEPT ![at[w]] = row]
          /\ pc' = [pc EXCEPT ![w] = "evaluate"] /\ UNCHANGED <<jobs, at, eval, req>>
          /\ \A v \in Workers \ {w} : mem'[v] = mem[v]
      BY <2>7, <3>1 DEF HandlerSucceeds, TypeOK
    <3> HIDE DEF row
    <3>4. RowAgrees(w)'
      BY <3>1, <3>2, <3>3 DEF RowAgrees, TypeOK
    <3> QED BY <2>5, <3>1, <3>2, <3>3, <3>4 DEF TypeOK
  <2>8. ASSUME NEW w \in Workers, HandlerFails(w)
        PROVE  UndisturbedInv'
    <3> DEFINE row == [tasks[at[w]] EXCEPT !.status = "failed"]
    <3>1. at[w] \in TaskIds /\ Writing(w)
      BY <2>8 DEF HandlerFails, Writing, TypeOK, RowsAgree, RowAgrees
    <3>2. row \in TaskRow /\ row.status = "failed"
      BY <3>1 DEF TypeOK, TaskRow, TaskStatuses, TERMINAL_TASK_STATUSES
    <3>3. /\ tasks' = [tasks EXCEPT ![at[w]] = row]
          /\ pc' = [pc EXCEPT ![w] = "retry"] /\ UNCHANGED <<jobs, at, eval, req>>
          /\ \A v \in Workers \ {w} : mem'[v] = mem[v]
          /\ mem'[w].status = "failed"
      BY <2>8, <3>1 DEF HandlerFails, TypeOK
    <3> HIDE DEF row
    <3>4. RowAgrees(w)'
      BY <3>1, <3>2, <3>3 DEF RowAgrees, TypeOK
    <3> QED BY <2>5, <3>1, <3>2, <3>3, <3>4 DEF TypeOK
  <2>9. ASSUME NEW w \in Workers, ScheduleRetry(w)
        PROVE  UndisturbedInv'
    <3> DEFINE row == schedule_retry(tasks[at[w]], mem[w], TRUE)
    <3>1. at[w] \in TaskIds /\ Writing(w) /\ mem[w].status = "failed"
      BY <2>9 DEF ScheduleRetry, Writing, TypeOK, RowsAgree, RowAgrees
    <3>2. row \in TaskRow
      BY <3>1, ScheduleRetryRow DEF TypeOK
    <3>3. /\ tasks' = [tasks EXCEPT ![at[w]] = row]
          /\ pc' = [pc EXCEPT ![w] = "evaluate"] /\ UNCHANGED <<jobs, at, eval, req>>
          /\ \A v \in Workers \ {w} : mem'[v] = mem[v]
          /\ mem'[w].status # "succeeded"
      BY <2>9, <3>1 DEF ScheduleRetry, TypeOK
    <3> HIDE DEF row
    <3>4. RowAgrees(w)'
      BY <3>1, <3>2, <3>3 DEF RowAgrees, TypeOK
    <3> QED BY <2>5, <3>1, <3>2, <3>3, <3>4 DEF TypeOK
  <2>10. ASSUME NEW w \in Workers, EvaluateRead(w)
         PROVE  UndisturbedInv'
    <3>1. at[w] \in TaskIds /\ at[w] = <<at[w][1], at[w][2]>> /\ at[w][1] \in Jobs
      BY <2>10, TaskIdParts DEF EvaluateRead, TypeOK
    <3>2. /\ pc' = [pc EXCEPT ![w] = "write"] /\ UNCHANGED <<jobs, tasks, at, mem, req>>
          /\ eval'[w].computed = evaluate_job(Seen(w))
          /\ \A v \in Workers \ {w} : eval'[v] = eval[v]
      BY <2>10 DEF EvaluateRead, TypeOK
    <3>3. ASSUME evaluate_job(Seen(w)).status = "completed", NEW k \in Steps
          PROVE  tasks[<<at[w][1], k>>].status = "succeeded"
      <4>1. Seen(w)[k] = "succeeded"
        BY <3>3, EvaluateJob
      <4>2. CASE k = at[w][2]
        BY <4>1, <4>2, <3>1, <2>10 DEF Seen, EvaluateRead, RowsAgree, RowAgrees
      <4>3. CASE k # at[w][2]
        BY <4>1, <4>3 DEF Seen
      <4> QED BY <4>2, <4>3
    <3>4. RowAgrees(w)'
      BY <3>2, <3>3, EvaluateJob DEF RowAgrees, TypeOK
    <3>5. RowsAgree'
      BY <3>2, <3>4 DEF RowsAgree, RowAgrees, TypeOK
    <3>6. WritersDistinct'
      BY <3>2 DEF WritersDistinct, Writing, TypeOK
    <3> QED BY <3>2, <3>5, <3>6 DEF AbsentJobs, Exists, NoRetryRequest
  <2>11. ASSUME NEW w \in Workers, EvaluateCommit(w)
         PROVE  UndisturbedInv'
    <3> DEFINE j == at[w][1]
               new == Update(jobs[j], eval[w].loaded, eval[w].computed)
    <3>1. j \in Jobs /\ at[w] = <<j, at[w][2]>> /\ at[w][2] \in Steps
      BY <2>11, TaskIdParts DEF EvaluateCommit, TypeOK
    <3>2. new.status \in {jobs[j].status, eval[w].computed.status}
      BY <3>1, UpdateRow DEF TypeOK
    <3>3. /\ jobs' = [jobs EXCEPT ![j] = new] /\ pc' = [pc EXCEPT ![w] = "idle"]
          /\ UNCHANGED <<tasks, req>>
          /\ \A v \in Workers \ {w} : at'[v] = at[v] /\ mem'[v] = mem[v] /\ eval'[v] = eval[v]
      BY <2>11 DEF EvaluateCommit, TypeOK
    <3>4. eval[w].computed.status # "absent" /\
          (eval[w].computed.status = "completed" =>
              \A k \in Steps : tasks[<<j, k>>].status = "succeeded")
      BY <2>11 DEF EvaluateCommit, RowsAgree, RowAgrees
    <3> HIDE DEF new, j
    <3>5. RowsAgree'
      BY <3>3 DEF RowsAgree, RowAgrees, TypeOK
    <3>6. WritersDistinct'
      BY <3>3 DEF WritersDistinct, Writing, TypeOK
    <3>7. AbsentJobs'
      <4> SUFFICES ASSUME NEW i \in Jobs, jobs'[i].status = "absent"
                   PROVE  jobs[i].status = "absent"
        BY <3>3 DEF AbsentJobs, Exists
      <4> QED BY <3>1, <3>2, <3>3, <3>4 DEF TypeOK
    <3>8. Completed'
      <4> SUFFICES ASSUME NEW i \in Jobs, jobs'[i].status = "completed", NEW k \in Steps
                   PROVE  tasks[<<i, k>>].status = "succeeded"
        BY <3>3
      <4>1. CASE i = j
        BY <4>1, <3>1, <3>2, <3>3, <3>4 DEF TypeOK
      <4>2. CASE i # j
        BY <4>2, <3>1, <3>3 DEF TypeOK
      <4> QED BY <4>1, <4>2
    <3> QED BY <3>3, <3>5, <3>6, <3>7, <3>8 DEF NoRetryRequest
  <2>12. ASSUME NEW w \in Workers, CrashRestart(w)
         PROVE  UndisturbedInv'
    <3>1. /\ pc' = [pc EXCEPT ![w] = "idle"] /\ UNCHANGED <<jobs, tasks, req>>
          /\ \A v \in Workers \ {w} : at'[v] = at[v] /\ mem'[v] = mem[v] /\ eval'[v] = eval[v]
      BY <2>12 DEF CrashRestart, TypeOK
    <3>2. RowsAgree'
      BY <3>1 DEF RowsAgree, RowAgrees, TypeOK
    <3>3. WritersDistinct'
      BY <3>1 DEF WritersDistinct, Writing, TypeOK
    <3> QED BY <3>1, <3>2, <3>3 DEF AbsentJobs, Exists, NoRetryRequest
  <2>13. ASSUME NEW t \in TaskIds, DelayExpires(t)
         PROVE  UndisturbedInv'
    <3>1. \A u \in TaskIds : tasks'[u].status = tasks[u].status
      BY <2>13 DEF DelayExpires, TypeOK, TaskRow
    <3>2. UNCHANGED <<jobs, pc, at, mem, eval, req>>
      BY <2>13 DEF DelayExpires
    <3>3. \A w \in Workers : pc[w] # "idle" =>
              at[w] \in TaskIds /\ \A k \in Steps : <<at[w][1], k>> \in TaskIds
      BY TaskIdParts, TaskIdPair DEF TypeOK
    <3>4. RowsAgree'
      BY <3>1, <3>2, <3>3 DEF RowsAgree, RowAgrees
    <3>5. AbsentJobs' /\ Completed'
      BY <3>1, <3>2, TaskIdPair DEF AbsentJobs, Exists, TaskIds
    <3> QED BY <3>2, <3>4, <3>5 DEF WritersDistinct, Writing, NoRetryRequest
  <2>14. CASE UNCHANGED vars
    BY <2>14 DEF vars, RowsAgree, RowAgrees, WritersDistinct, Writing, AbsentJobs, Exists,
                 NoRetryRequest
  <2> HIDE DEF UndisturbedInv
  <2> QED
    BY <2>1, <2>2, <2>3, <2>4, <2>6, <2>7, <2>8, <2>9, <2>10, <2>11, <2>12, <2>13, <2>14,
       <1>a, <1>b, TaskIdParts DEF Next, WorkerStep, RetryTask, RetryJob
<1>d. UNCHANGED <<apiRetries, rollbacks>>
  BY <1>a, <1>b, TaskIdParts
     DEF Next, WorkerStep, RetryTask, RetryJob, StartCheck, StartCommit, RetryCommit, Claim,
         HandlerCommit, HandlerSucceeds, HandlerFails, ScheduleRetry, EvaluateRead,
         EvaluateCommit, CrashRestart, DelayExpires, ghosts, vars
<1> QED BY <1>c, <1>d

\* The whole inductive invariant.
LEMMA Invariant == Spec => []IInv
<1>1. Init => IInv
  BY InitTypeOK, InitRetry, InitUndisturbed DEF IInv
<1>2. IInv /\ [Next]_vars => IInv'
  BY NextTypeOK, NextRetry, NextUndisturbed DEF IInv
<1> QED BY <1>1, <1>2, PTL DEF Spec

\* No two workers are ever inside the handler of one task, across crashes, as long
\* as no retry request and no handler rollback has happened.
THEOREM TaskMutualExclusion == Spec => []TaskMutex
<1>1. IInv => TaskMutex
  BY DEF IInv, UndisturbedInv, WritersDistinct, Writing, TaskMutex, InHandler
<1> QED BY <1>1, Invariant, PTL

\* Under the same condition a job is marked completed only when all its tasks have
\* succeeded, however the evaluations of several workers interleave.
THEOREM CompletedIsSound == Spec => []CompletedSound
<1>1. IInv => CompletedSound
  BY DEF IInv, UndisturbedInv, CompletedSound
<1> QED BY <1>1, Invariant, PTL

-----------------------------------------------------------------------------
(* Rows exist before anybody works on them *)

Existing ==
    /\ AbsentJobs
    /\ \A w \in Workers : pc[w] # "idle" => Exists(at[w][1])
    /\ \A w \in Workers : pc[w] = "write" => eval[w].computed.status # "absent"
    /\ \A c \in Clients : req[c].op = "retry" => Exists(req[c].job)

\* A task that is not absent belongs to a job that exists.
LEMMA TaskExists ==
    ASSUME TypeOK, Existing, NEW t \in TaskIds, tasks[t].status # "absent"
    PROVE  Exists(t[1])
BY TaskIdParts DEF Existing, AbsentJobs

\* Jobs stay, and only tasks of existing jobs change: Existing is kept.
LEMMA ExistingKept ==
    ASSUME TypeOK, Existing,
           \A j \in Jobs : Exists(j) => jobs'[j].status # "absent",
           \A t \in TaskIds : tasks'[t] = tasks[t] \/ jobs'[t[1]].status # "absent",
           \A w \in Workers : pc'[w] # "idle" => at'[w] \in TaskIds /\
               (Exists(at'[w][1]) \/ (pc[w] # "idle" /\ at'[w] = at[w])),
           \A w \in Workers : pc'[w] = "write" => eval'[w].computed.status # "absent",
           \A c \in Clients : req'[c].op = "retry" => req'[c].job \in Jobs /\
               (Exists(req'[c].job) \/ (req[c].op = "retry" /\ req'[c] = req[c]))
    PROVE  Existing'
<1>1. AbsentJobs'
  <2> SUFFICES ASSUME NEW j \in Jobs, jobs'[j].status = "absent", NEW k \in Steps
               PROVE  tasks'[<<j, k>>].status = "absent"
    BY DEF AbsentJobs, Exists
  <2>1. <<j, k>> \in TaskIds /\ <<j, k>>[1] = j
    BY DEF TaskIds
  <2>2. tasks'[<<j, k>>] = tasks[<<j, k>>] /\ ~Exists(j)
    BY <2>1
  <2> QED BY <2>2 DEF Existing, AbsentJobs
<1>2. \A w \in Workers : pc'[w] # "idle" => jobs'[at'[w][1]].status # "absent"
  BY TaskIdParts DEF Existing
<1>3. \A c \in Clients : req'[c].op = "retry" => jobs'[req'[c].job].status # "absent"
  BY DEF Existing
<1> QED BY <1>1, <1>2, <1>3 DEF Existing, Exists

LEMMA NextExisting == TypeOK /\ Existing /\ [Next]_vars => Existing'
<1> SUFFICES ASSUME TypeOK, Existing, [Next]_vars PROVE Existing'
  OBVIOUS
<1>0. \A c \in Clients : req[c].op = "retry" => req[c].job \in Jobs
  BY RetryRequest
<1>1. ASSUME NEW c \in Clients, NEW a \in Accounts, NEW f \in BOOLEAN, StartCheck(c, a, f)
      PROVE  Existing'
  BY <1>0, <1>1, ExistingKept DEF StartCheck, TypeOK, Existing, Exists
<1>2. ASSUME NEW c \in Clients, StartCommit(c)
      PROVE  Existing'
  <2>1. PICK j \in Jobs :
          /\ jobs' = [jobs EXCEPT ![j] =
                 refresh_job_counters([k \in Steps |-> "queued"], "collecting")]
          /\ tasks' = [t \in TaskIds |->
                 IF t[1] = j THEN [status |-> "queued", retry |-> 0, delayed |-> FALSE]
                 ELSE tasks[t]]
    BY <1>2 DEF StartCommit
  <2>2. jobs'[j].status = "collecting" /\ \A i \in Jobs \ {j} : jobs'[i] = jobs[i]
    BY <2>1 DEF refresh_job_counters, TypeOK
  <2>3. \A t \in TaskIds : tasks'[t] = tasks[t] \/ jobs'[t[1]].status # "absent"
    BY <2>1, <2>2
  <2>4. UNCHANGED <<pc, at, mem, eval>> /\ req' = [req EXCEPT ![c] = NoReq]
    BY <1>2 DEF StartCommit
  <2>5. \A d \in Clients : req'[d].op = "retry" => req[d].op = "retry" /\ req'[d] = req[d]
    BY <2>4 DEF TypeOK, NoReq
  <2> QED BY <1>0, <2>2, <2>3, <2>4, <2>5, ExistingKept DEF TypeOK, Existing, Exists
<1>3. ASSUME NEW c \in Clients, NEW j \in Jobs, NEW sel \in SUBSET Steps,
             NEW whole \in BOOLEAN, NEW delay \in BOOLEAN, Load(c, j, sel, whole, delay), Exists(j)
      PROVE  Existing'
  <2>1. UNCHANGED <<jobs, tasks, pc, at, mem, eval>>
    BY <1>3 DEF Load
  <2>2. \A d \in Clients : req'[d].op = "retry" =>
            (d = c /\ req'[d].job = j) \/ (req[d].op = "retry" /\ req'[d] = req[d])
    BY <1>3 DEF Load, TypeOK
  <2> QED BY <1>0, <1>3, <2>1, <2>2, ExistingKept DEF TypeOK, Existing, Exists
<1>4. ASSUME NEW c \in Clients, RetryCommit(c)
      PROVE  Existing'
  <2>1. req[c].job \in Jobs /\ Exists(req[c].job)
    BY <1>0, <1>4 DEF RetryCommit, Existing
  <2>2. \A i \in Jobs : Exists(i) => jobs'[i].status # "absent"
    BY <1>4, <2>1 DEF RetryCommit, TypeOK, JobRow, Exists
  <2>3. \A t \in TaskIds : tasks'[t] = tasks[t] \/ jobs'[t[1]].status # "absent"
    BY <1>4, <2>1, <2>2 DEF RetryCommit
  <2>4. \A d \in Clients : req'[d].op = "retry" => req[d].op = "retry" /\ req'[d] = req[d]
    BY <1>4 DEF RetryCommit, TypeOK, NoReq
  <2>5. UNCHANGED <<pc, at, mem, eval>>
    BY <1>4 DEF RetryCommit
  <2> QED BY <1>0, <2>2, <2>3, <2>4, <2>5, ExistingKept DEF TypeOK, Existing
<1>5. ASSUME NEW w \in Workers, Claim(w)
      PROVE  Existing'
  <2>1. PICK t \in TaskIds : tasks[t].status = "queued" /\ at' = [at EXCEPT ![w] = t]
    BY <1>5 DEF Claim, Claimable
  <2>2. Exists(t[1])
    BY <2>1, TaskExists
  <2>3. pc' = [pc EXCEPT ![w] = "claimed"] /\ UNCHANGED <<jobs, tasks, eval, req>>
    BY <1>5 DEF Claim
  <2> QED BY <1>0, <2>1, <2>2, <2>3, ExistingKept DEF TypeOK, Existing, Exists
<1>6. ASSUME NEW w \in Workers,
             HandlerCommit(w) \/ HandlerSucceeds(w) \/ HandlerFails(w) \/ HandlerRollback(w)
             \/ ScheduleRetry(w)
      PROVE  Existing'
  <2>1. pc[w] # "idle" /\ at[w] \in TaskIds /\ Exists(at[w][1])
    BY <1>6 DEF HandlerCommit, HandlerSucceeds, HandlerFails, HandlerRollback, ScheduleRetry,
                TypeOK, Existing
  <2>2. UNCHANGED <<jobs, at, eval, req>>
    BY <1>6 DEF HandlerCommit, HandlerSucceeds, HandlerFails, HandlerRollback, ScheduleRetry
  <2>3. \A v \in Workers : pc'[v] = "write" => pc[v] = "write"
    BY <1>6 DEF HandlerCommit, HandlerSucceeds, HandlerFails, HandlerRollback, ScheduleRetry, TypeOK
  <2>4. \A v \in Workers : pc'[v] # "idle" => pc[v] # "idle"
    BY <1>6, <2>1 DEF HandlerCommit, HandlerSucceeds, HandlerFails, HandlerRollback, ScheduleRetry,
                      TypeOK
  <2>5. \A t \in TaskIds : tasks'[t] = tasks[t] \/ t = at[w]
    BY <1>6 DEF HandlerCommit, HandlerSucceeds, HandlerFails, HandlerRollback, ScheduleRetry, TypeOK
  <2> QED BY <1>0, <2>1, <2>2, <2>3, <2>4, <2>5, ExistingKept DEF TypeOK, Existing, Exists
<1>7. ASSUME NEW w \in Workers, EvaluateRead(w)
      PROVE  Existing'
  <2>1. /\ pc' = [pc EXCEPT ![w] = "write"] /\ pc[w] = "evaluate"
        /\ UNCHANGED <<jobs, tasks, at, req>>
        /\ \A v \in Workers \ {w} : eval'[v] = eval[v]
        /\ eval'[w].computed = evaluate_job(Seen(w))
    BY <1>7 DEF EvaluateRead, TypeOK
  <2>2. evaluate_job(Seen(w)).status # "absent"
    BY EvaluateJob
  <2> QED BY <1>0, <2>1, <2>2, ExistingKept DEF TypeOK, Existing, Exists
<1>8. ASSUME NEW w \in Workers, EvaluateCommit(w)
      PROVE  Existing'
  <2> DEFINE j == at[w][1]
             new == Update(jobs[j], eval[w].loaded, eval[w].computed)
  <2>1. j \in Jobs /\ Exists(j) /\ eval[w].computed.status # "absent"
    BY <1>8, TaskIdParts DEF EvaluateCommit, TypeOK, Existing
  <2>2. new.status # "absent"
    BY <2>1, UpdateRow DEF TypeOK, Exists
  <2>3. jobs' = [jobs EXCEPT ![j] = new]
    BY <1>8 DEF EvaluateCommit
  <2> HIDE DEF new, j
  <2>4. \A i \in Jobs : Exists(i) => jobs'[i].status # "absent"
    BY <2>1, <2>2, <2>3 DEF TypeOK, Exists
  <2>5. /\ UNCHANGED <<tasks, req>> /\ pc'[w] = "idle"
        /\ \A v \in Workers \ {w} : pc'[v] = pc[v] /\ at'[v] = at[v] /\ eval'[v] = eval[v]
    BY <1>8 DEF EvaluateCommit, TypeOK
  <2> QED BY <1>0, <2>4, <2>5, ExistingKept DEF TypeOK, Existing
<1>9. ASSUME NEW w \in Workers, CrashRestart(w)
      PROVE  Existing'
  <2>1. /\ UNCHANGED <<jobs, tasks, req>> /\ pc'[w] = "idle"
        /\ \A v \in Workers \ {w} : pc'[v] = pc[v] /\ at'[v] = at[v] /\ eval'[v] = eval[v]
    BY <1>9 DEF CrashRestart, TypeOK
  <2> QED BY <1>0, <2>1, ExistingKept DEF TypeOK, Existing, Exists
<1>10. ASSUME NEW t \in TaskIds, DelayExpires(t)
       PROVE  Existing'
  <2>1. /\ UNCHANGED <<jobs, pc, at, eval, req>>
        /\ \A u \in TaskIds : tasks'[u].status = tasks[u].status
    BY <1>10 DEF DelayExpires, TypeOK, TaskRow
  <2>2. \A j \in Jobs, k \in Steps : <<j, k>> \in TaskIds
    BY DEF TaskIds
  <2> QED BY <2>1, <2>2 DEF Existing, AbsentJobs, Exists
<1>11. CASE UNCHANGED vars
  BY <1>11 DEF vars, Existing, AbsentJobs, Exists
<1> QED
  BY <1>1, <1>2, <1>3, <1>4, <1>5, <1>6, <1>7, <1>8, <1>9, <1>10, <1>11, TaskIdParts
     DEF Next, WorkerStep, RetryTask, RetryJob

\* Whatever is worked on exists.
LEMMA AlwaysExisting == Spec => []Existing
<1>1. Init => Existing
  BY DEF Init, Existing, AbsentJobs, Exists, AbsentJob, AbsentTask, NoReq, TaskIds
<1> QED BY <1>1, NextExisting, TypeCorrect, PTL DEF Spec

-----------------------------------------------------------------------------
(* A claim keeps its row *)

\* An open claim locks its row, so the row stays as the claim found it and no other
\* worker has it claimed.
ClaimHolds(w) == pc[w] = "claimed" =>
    /\ tasks[at[w]].status = "queued" /\ tasks[at[w]].retry = mem[w].retry
    /\ \A v \in Workers \ {w} : pc[v] = "claimed" => at[v] # at[w]

ClaimsHold == \A w \in Workers : ClaimHolds(w)

\* A step that opens no claim and changes no row that is claimed afterwards.
LEMMA ClaimsKept ==
    ASSUME TypeOK, ClaimsHold,
           \A v \in Workers : pc'[v] = "claimed" =>
               /\ pc[v] = "claimed" /\ at'[v] = at[v] /\ mem'[v] = mem[v]
               /\ tasks'[at[v]].status = tasks[at[v]].status
               /\ tasks'[at[v]].retry = tasks[at[v]].retry
    PROVE  ClaimsHold'
BY DEF ClaimsHold, ClaimHolds

\* The steps of a worker that holds a task, apart from its claim.
Works(w) ==
    \/ HandlerCommit(w) \/ HandlerSucceeds(w) \/ HandlerFails(w) \/ HandlerRollback(w)
    \/ ScheduleRetry(w) \/ EvaluateRead(w) \/ EvaluateCommit(w) \/ CrashRestart(w)

LEMMA WorksAlone ==
    ASSUME TypeOK, NEW w \in Workers, Works(w)
    PROVE  /\ pc[w] # "idle" /\ at[w] \in TaskIds /\ pc'[w] # "claimed"
           /\ UNCHANGED req
           /\ \A v \in Workers \ {w} : pc'[v] = pc[v] /\ at'[v] = at[v] /\ mem'[v] = mem[v]
           /\ \A t \in TaskIds : t # at[w] => tasks'[t] = tasks[t]
BY DEF Works, HandlerCommit, HandlerSucceeds, HandlerFails, HandlerRollback, ScheduleRetry, EvaluateRead,
       EvaluateCommit, CrashRestart, TypeOK

\* A worker writes a task that another one has claimed at most when it is the one that
\* committed the claim, and then nobody has.
LEMMA WorksUnclaimed ==
    ASSUME TypeOK, ClaimsHold, NEW w \in Workers, Works(w), UNCHANGED tasks \/ pc[w] = "claimed"
               \/ ~LockedByOther(w, at[w])
    PROVE  ClaimsHold'
<1>1. \A v \in Workers \ {w} : pc[v] = "claimed" => tasks'[at[v]] = tasks[at[v]]
  <2> SUFFICES ASSUME NEW v \in Workers \ {w}, pc[v] = "claimed"
               PROVE  tasks'[at[v]] = tasks[at[v]]
    OBVIOUS
  <2>1. at[v] \in TaskIds
    BY DEF TypeOK
  <2>2. at[v] # at[w] \/ UNCHANGED tasks
    BY DEF ClaimsHold, ClaimHolds, LockedByOther
  <2> QED BY <2>1, <2>2, WorksAlone
<1>2. pc'[w] # "claimed"
  BY WorksAlone
<1>3. \A v \in Workers \ {w} : pc'[v] = pc[v] /\ at'[v] = at[v] /\ mem'[v] = mem[v]
  BY WorksAlone
<1> QED BY <1>1, <1>2, <1>3, ClaimsKept

LEMMA StartsAbsent ==
    ASSUME TypeOK, Existing, NEW c \in Clients, StartCommit(c), NEW t \in TaskIds
    PROVE  \/ tasks'[t] = tasks[t]
           \/ /\ tasks[t].status = "absent" /\ ~Exists(t[1])
              /\ tasks'[t] = [status |-> "queued", retry |-> 0, delayed |-> FALSE]
<1>1. PICK j \in Jobs :
        /\ ~Exists(j)
        /\ tasks' = [u \in TaskIds |->
               IF u[1] = j THEN [status |-> "queued", retry |-> 0, delayed |-> FALSE]
               ELSE tasks[u]]
  BY DEF StartCommit
<1> QED BY <1>1, TaskExists

LEMMA NextClaims == TypeOK /\ Existing /\ ClaimsHold /\ [Next]_vars => ClaimsHold'
<1> SUFFICES ASSUME TypeOK, Existing, ClaimsHold, [Next]_vars PROVE ClaimsHold'
  OBVIOUS
<1>1. ASSUME UNCHANGED <<tasks, pc, at, mem>> PROVE ClaimsHold'
  BY <1>1, ClaimsKept
<1>2. ASSUME NEW c \in Clients, StartCommit(c) PROVE ClaimsHold'
  <2>1. UNCHANGED <<pc, at, mem>>
    BY <1>2 DEF StartCommit
  <2>2. \A v \in Workers : pc[v] = "claimed" => tasks'[at[v]] = tasks[at[v]]
    BY <1>2, StartsAbsent DEF TypeOK, ClaimsHold, ClaimHolds
  <2> QED BY <2>1, <2>2, ClaimsKept
<1>3. ASSUME NEW c \in Clients, RetryCommit(c) PROVE ClaimsHold'
  <2>1. UNCHANGED <<pc, at, mem>>
    BY <1>3 DEF RetryCommit
  <2>2. \A v \in Workers : pc[v] = "claimed" => tasks'[at[v]] = tasks[at[v]]
    <3> SUFFICES ASSUME NEW v \in Workers, pc[v] = "claimed" PROVE tasks'[at[v]] = tasks[at[v]]
      OBVIOUS
    <3>1. at[v] \in TaskIds /\ Locked(at[v]) /\ at[v] = <<at[v][1], at[v][2]>>
      BY TaskIdParts DEF TypeOK, Locked
    <3>2. ~(at[v][1] = req[c].job /\ at[v][2] \in req[c].sel)
      BY <1>3, <3>1 DEF RetryCommit
    <3> QED BY <1>3, <3>1, <3>2 DEF RetryCommit
  <2> QED BY <2>1, <2>2, ClaimsKept
<1>4. ASSUME NEW w \in Workers, Claim(w) PROVE ClaimsHold'
  <2>1. PICK t \in TaskIds :
          /\ Claimable(t)
          /\ at' = [at EXCEPT ![w] = t]
          /\ mem' = [mem EXCEPT ![w] = [status |-> "running", retry |-> tasks[t].retry]]
    BY <1>4 DEF Claim
  <2>2. pc[w] = "idle" /\ pc' = [pc EXCEPT ![w] = "claimed"] /\ UNCHANGED tasks
    BY <1>4 DEF Claim
  <2>3. \A v \in Workers \ {w} : pc[v] = "claimed" => at[v] # t
    BY <2>1 DEF Claimable, Locked
  <2>4. pc'[w] = "claimed" /\ at'[w] = t /\ mem'[w].retry = tasks[t].retry
    BY <2>1, <2>2 DEF TypeOK
  <2>5. \A v \in Workers \ {w} : pc'[v] = pc[v] /\ at'[v] = at[v] /\ mem'[v] = mem[v]
    BY <2>1, <2>2 DEF TypeOK
  <2>6. tasks'[t].status = "queued"
    BY <2>1, <2>2 DEF Claimable
  <2> QED BY <2>2, <2>3, <2>4, <2>5, <2>6 DEF ClaimsHold, ClaimHolds
<1>5. ASSUME NEW w \in Workers, Works(w) PROVE ClaimsHold'
  <2>1. UNCHANGED tasks \/ pc[w] = "claimed" \/ ~LockedByOther(w, at[w])
    BY <1>5 DEF Works, HandlerCommit, HandlerSucceeds, HandlerFails, HandlerRollback, ScheduleRetry,
                EvaluateRead, EvaluateCommit, CrashRestart
  <2> QED BY <1>5, <2>1, WorksUnclaimed
<1>6. ASSUME NEW t \in TaskIds, DelayExpires(t) PROVE ClaimsHold'
  <2>1. /\ UNCHANGED <<pc, at, mem>>
        /\ \A u \in TaskIds : tasks'[u].status = tasks[u].status /\ tasks'[u].retry = tasks[u].retry
    BY <1>6 DEF DelayExpires, TypeOK, TaskRow
  <2> QED BY <2>1, ClaimsKept DEF TypeOK
<1>7. ASSUME NEW c \in Clients, NEW a \in Accounts, NEW f \in BOOLEAN, StartCheck(c, a, f)
      PROVE  ClaimsHold'
  BY <1>1, <1>7 DEF StartCheck
<1>8. ASSUME NEW c \in Clients, NEW j \in Jobs, NEW sel \in SUBSET Steps,
             NEW whole \in BOOLEAN, NEW delay \in BOOLEAN, Load(c, j, sel, whole, delay)
      PROVE  ClaimsHold'
  BY <1>1, <1>8 DEF Load
<1>9. CASE UNCHANGED vars
  BY <1>1, <1>9 DEF vars
<1> QED
  BY <1>2, <1>3, <1>4, <1>5, <1>6, <1>7, <1>8, <1>9, TaskIdParts
     DEF Next, WorkerStep, RetryTask, RetryJob, Works

LEMMA AlwaysClaimed == Spec => []ClaimsHold
<1>1. Init => ClaimsHold
  BY DEF Init, ClaimsHold, ClaimHolds
<1> QED BY <1>1, NextClaims, TypeCorrect, AlwaysExisting, PTL DEF Spec

-----------------------------------------------------------------------------
(* A task that runs beside its unfinished parent *)

\* A task with a predecessor is not its own predecessor.
LEMMA OtherTask ==
    ASSUME NEW t \in TaskIds, t[2] > 1
    PROVE  <<t[1], t[2] - 1>> \in TaskIds /\ <<t[1], t[2] - 1>> # t
<1>1. t[1] \in Jobs /\ t[2] \in Steps /\ t[2] \in Nat
  BY TaskIdParts, StepsFinite
<1>2. t[2] - 1 \in Steps
  BY <1>1, PlanAssumption DEF Steps
<1>3. t[2] - 1 # t[2]
  BY <1>1
<1> QED BY <1>1, <1>2, <1>3, TaskIdPair

\* The parent has ended, or is in an attempt that is not its first.
Ended(row) == task_terminal(row.status) \/ row.retry > 0

\* A task that has ended once stays so: a retry counts, an outcome ends it, and the
\* commit of a claim finds it as it was claimed.
LEMMA EndedStays ==
    ASSUME TypeOK, Existing, ClaimsHold, [Next]_vars,
           NEW t \in TaskIds, Exists(t[1]), Ended(tasks[t])
    PROVE  Ended(tasks'[t])
<1>0. tasks[t] \in TaskRow
  BY DEF TypeOK
<1>1. ASSUME tasks'[t].status = tasks[t].status, tasks'[t].retry = tasks[t].retry
      PROVE  Ended(tasks'[t])
  BY <1>1 DEF Ended
<1>2. ASSUME NEW copy \in TaskCopy, NEW delay \in BOOLEAN,
             tasks'[t] = schedule_retry(tasks[t], copy, delay)
      PROVE  Ended(tasks'[t])
  <2>1. CASE copy.retry >= MaxRetries
    BY <1>0, <1>2, <2>1 DEF schedule_retry, Ended, task_terminal, TERMINAL_TASK_STATUSES, TaskRow
  <2>2. CASE ~(copy.retry >= MaxRetries)
    BY <1>2, <2>2 DEF schedule_retry, Ended, TaskCopy
  <2> QED BY <2>1, <2>2
<1>3. ASSUME NEW c \in Clients, StartCommit(c) PROVE Ended(tasks'[t])
  BY <1>1, <1>3, StartsAbsent
<1>4. ASSUME NEW c \in Clients, RetryCommit(c) PROVE Ended(tasks'[t])
  <2>1. req[c].delay \in BOOLEAN /\ req[c].rows \in [Steps -> TaskCopy]
    BY <1>4, RetryRequest DEF RetryCommit
  <2>2. req[c].rows[t[2]] \in TaskCopy
    BY <2>1, TaskIdParts
  <2>3. tasks'[t] = tasks[t] \/ tasks'[t] = schedule_retry(tasks[t], req[c].rows[t[2]], req[c].delay)
    BY <1>4 DEF RetryCommit
  <2> QED BY <1>1, <1>2, <2>1, <2>2, <2>3
<1>5. ASSUME NEW w \in Workers, HandlerCommit(w) PROVE Ended(tasks'[t])
  <2>1. at[w] \in TaskIds /\ tasks[at[w]].status = "queued"
    BY <1>5 DEF HandlerCommit, TypeOK, ClaimsHold, ClaimHolds
  <2>2. tasks[at[w]] \in TaskRow
    BY <2>1 DEF TypeOK
  <2>3. t = at[w] => tasks[t].retry > 0 /\ tasks'[t].retry = tasks[t].retry
    BY <1>5, <2>1, <2>2 DEF HandlerCommit, TypeOK, TaskRow, Ended, task_terminal, TERMINAL_TASK_STATUSES
  <2>4. t # at[w] => tasks'[t] = tasks[t]
    BY <1>5 DEF HandlerCommit, TypeOK
  <2> QED BY <1>1, <2>3, <2>4 DEF Ended
<1>6. ASSUME NEW w \in Workers, HandlerSucceeds(w) \/ HandlerFails(w) PROVE Ended(tasks'[t])
  <2>1. t # at[w] => tasks'[t] = tasks[t]
    BY <1>6 DEF HandlerSucceeds, HandlerFails, TypeOK
  <2>2. t = at[w] => tasks'[t].status \in {"succeeded", "failed"}
    BY <1>0, <1>6 DEF HandlerSucceeds, HandlerFails, TypeOK, TaskRow
  <2> QED BY <1>1, <2>1, <2>2 DEF Ended, task_terminal, TERMINAL_TASK_STATUSES
<1>7. ASSUME NEW w \in Workers, ScheduleRetry(w) PROVE Ended(tasks'[t])
  <2>1. mem[w] \in TaskCopy /\ TRUE \in BOOLEAN
    BY DEF TypeOK
  <2>2. tasks'[t] = tasks[t] \/ tasks'[t] = schedule_retry(tasks[t], mem[w], TRUE)
    BY <1>7 DEF ScheduleRetry, TypeOK
  <2> QED BY <1>1, <1>2, <2>1, <2>2
<1>8. ASSUME NEW u \in TaskIds, DelayExpires(u) PROVE Ended(tasks'[t])
  BY <1>0, <1>1, <1>8 DEF DelayExpires, TypeOK, TaskRow
<1>9. ASSUME UNCHANGED tasks PROVE Ended(tasks'[t])
  BY <1>1, <1>9
<1>10. ASSUME NEW w \in Workers,
              Claim(w) \/ HandlerRollback(w) \/ EvaluateRead(w) \/ EvaluateCommit(w) \/ CrashRestart(w)
       PROVE  UNCHANGED tasks
  BY <1>10 DEF Claim, HandlerRollback, EvaluateRead, EvaluateCommit, CrashRestart
<1>11. ASSUME NEW c \in Clients, NEW j \in Jobs, NEW sel \in SUBSET Steps,
              NEW whole \in BOOLEAN, NEW delay \in BOOLEAN, Load(c, j, sel, whole, delay)
       PROVE  UNCHANGED tasks
  BY <1>11 DEF Load
<1>12. ASSUME NEW c \in Clients, NEW a \in Accounts, NEW f \in BOOLEAN, StartCheck(c, a, f)
       PROVE  UNCHANGED tasks
  BY <1>12 DEF StartCheck
<1>13. CASE UNCHANGED vars
  BY <1>9, <1>13 DEF vars
<1> QED
  BY <1>3, <1>4, <1>5, <1>6, <1>7, <1>8, <1>9, <1>10, <1>11, <1>12, <1>13, TaskIdParts
     DEF Next, WorkerStep, RetryTask, RetryJob

\* A worker that is in a handler after a step was in it already, or has just claimed the
\* task when its parent was terminal.
LEMMA EntersHandler ==
    ASSUME TypeOK, [Next]_vars, NEW w \in Workers, InHandler(w)'
    PROVE  \/ InHandler(w) /\ at'[w] = at[w]
           \/ UNCHANGED tasks /\ \E t \in TaskIds : Claimable(t) /\ at'[w] = t
<1>1. ASSUME NEW v \in Workers, Claim(v)
      PROVE  \/ InHandler(w) /\ at'[w] = at[w]
             \/ UNCHANGED tasks /\ \E t \in TaskIds : Claimable(t) /\ at'[w] = t
  <2>1. PICK t \in TaskIds : Claimable(t) /\ at' = [at EXCEPT ![v] = t]
    BY <1>1 DEF Claim
  <2>2. UNCHANGED tasks /\ pc' = [pc EXCEPT ![v] = "claimed"]
    BY <1>1 DEF Claim
  <2>3. CASE w = v
    BY <2>1, <2>2, <2>3 DEF TypeOK
  <2>4. CASE w # v
    BY <2>1, <2>2, <2>4 DEF TypeOK, InHandler
  <2> QED BY <2>3, <2>4
<1>2. ASSUME NEW v \in Workers, HandlerCommit(v) \/ HandlerSucceeds(v) \/ HandlerFails(v)
                 \/ ScheduleRetry(v) \/ EvaluateRead(v) \/ EvaluateCommit(v) \/ HandlerRollback(v)
                 \/ CrashRestart(v)
      PROVE  InHandler(w) /\ at'[w] = at[w]
  BY <1>2 DEF HandlerCommit, HandlerSucceeds, HandlerFails, ScheduleRetry, EvaluateRead,
              EvaluateCommit, HandlerRollback, CrashRestart, TypeOK, InHandler
<1>3. ASSUME UNCHANGED <<pc, at>> PROVE InHandler(w) /\ at'[w] = at[w]
  BY <1>3 DEF InHandler
<1>4. ASSUME NEW c \in Clients, StartCommit(c) \/ RetryCommit(c) PROVE UNCHANGED <<pc, at>>
  BY <1>4 DEF StartCommit, RetryCommit
<1>5. ASSUME NEW c \in Clients, NEW a \in Accounts, NEW f \in BOOLEAN, StartCheck(c, a, f)
      PROVE  UNCHANGED <<pc, at>>
  BY <1>5 DEF StartCheck
<1>6. ASSUME NEW c \in Clients, NEW j \in Jobs, NEW sel \in SUBSET Steps,
             NEW whole \in BOOLEAN, NEW delay \in BOOLEAN, Load(c, j, sel, whole, delay)
      PROVE  UNCHANGED <<pc, at>>
  BY <1>6 DEF Load
<1>7. ASSUME NEW t \in TaskIds, DelayExpires(t) PROVE UNCHANGED <<pc, at>>
  BY <1>7 DEF DelayExpires
<1>8. CASE UNCHANGED vars
  BY <1>3, <1>8 DEF vars
<1> QED
  BY <1>1, <1>2, <1>3, <1>4, <1>5, <1>6, <1>7, <1>8, TaskIdParts
     DEF Next, WorkerStep, RetryTask, RetryJob

LEMMA NextEarlyStart ==
    TypeOK /\ Existing /\ ClaimsHold /\ EarlyStartIsRetry /\ [Next]_vars => EarlyStartIsRetry'
<1> SUFFICES ASSUME TypeOK, Existing, ClaimsHold, EarlyStartIsRetry, [Next]_vars,
                    NEW w \in Workers, InHandler(w)', at'[w][2] > 1
             PROVE  Ended(tasks'[<<at'[w][1], at'[w][2] - 1>>])
  BY DEF EarlyStartIsRetry, Ended
<1>1. CASE InHandler(w) /\ at'[w] = at[w]
  <2> DEFINE parent == <<at[w][1], at[w][2] - 1>>
  <2>1. at[w] \in TaskIds /\ Exists(at[w][1])
    BY <1>1 DEF TypeOK, Existing, InHandler
  <2>2. parent \in TaskIds
    BY <1>1, <2>1, OtherTask
  <2>3. Ended(tasks[parent])
    BY <1>1 DEF EarlyStartIsRetry, Ended
  <2>4. parent[1] = at[w][1]
    OBVIOUS
  <2> HIDE DEF parent
  <2>5. Ended(tasks'[parent])
    BY <2>1, <2>2, <2>3, <2>4, EndedStays
  <2> QED BY <1>1, <2>5 DEF parent
<1>2. CASE UNCHANGED tasks /\ \E t \in TaskIds : Claimable(t) /\ at'[w] = t
  BY <1>2 DEF Claimable, Ended
<1> QED BY <1>1, <1>2, EntersHandler

\* THEOREM.  A task that runs beside its unfinished parent has overtaken a retry of the
\* parent, and never runs before the parent has ended once: for every number of workers,
\* with retry requests, crashes and rolled back handlers
\* (claim_next_queued_task and schedule_retry, app/sync/queue/database.py).
THEOREM EarlyStartsAreRetries == Spec => []EarlyStartIsRetry
<1>1. Init => EarlyStartIsRetry
  BY DEF Init, EarlyStartIsRetry, InHandler
<1> QED BY <1>1, NextEarlyStart, TypeCorrect, AlwaysExisting, AlwaysClaimed, PTL DEF Spec

-----------------------------------------------------------------------------
(* How often a handler runs *)

\* A sum over a finite set counts tokens: f[x] of them for every x of S.
Tokens(f, S) == {u \in S \X Nat : u[2] < f[u[1]]}

LEMMA TokensFinite ==
    ASSUME NEW S, IsFiniteSet(S), NEW n \in Nat, NEW f, \A y \in S : f[y] \in 0..n
    PROVE  IsFiniteSet(Tokens(f, S)) /\ Cardinality(Tokens(f, S)) \in Nat
<1>1. IsFiniteSet(0..n)
  BY FS_Interval
<1>2. IsFiniteSet(S \X (0..n))
  BY <1>1, FS_Product
<1>3. Tokens(f, S) \subseteq S \X (0..n)
  BY DEF Tokens
<1> QED BY <1>2, <1>3, FS_Subset, FS_CardinalityType

LEMMA TokensOfOne ==
    ASSUME NEW x, NEW n \in Nat
    PROVE  IsFiniteSet({x} \X (0 .. (n - 1))) /\ Cardinality({x} \X (0 .. (n - 1))) = n
<1>1. IsFiniteSet({x}) /\ Cardinality({x}) = 1
  BY FS_Singleton
<1>2. IsFiniteSet(0 .. (n - 1)) /\ Cardinality(0 .. (n - 1)) = n
  BY FS_Interval
<1> QED BY <1>1, <1>2, FS_Product

LEMMA TokensSplit ==
    ASSUME NEW S, IsFiniteSet(S), NEW n \in Nat, NEW f, \A y \in S : f[y] \in 0..n, NEW x \in S
    PROVE  Cardinality(Tokens(f, S)) = f[x] + Cardinality(Tokens(f, S \ {x}))
<1> DEFINE own == {x} \X (0 .. (f[x] - 1))
           others == Tokens(f, S \ {x})
<1>0. f[x] \in Nat
  OBVIOUS
<1>1. IsFiniteSet(own) /\ Cardinality(own) = f[x]
  BY <1>0, TokensOfOne
<1>2. IsFiniteSet(others) /\ Cardinality(others) \in Nat
  <2>1. IsFiniteSet(S \ {x})
    BY FS_Subset
  <2> QED BY <2>1, TokensFinite
<1>3. Tokens(f, S) = own \cup others /\ own \cap others = {} /\ f[x] \in Nat
  BY DEF Tokens
<1> HIDE DEF own, others
<1>4. Cardinality(own \cup others)
          = Cardinality(own) + Cardinality(others) - Cardinality(own \cap others)
  BY <1>1, <1>2, FS_Union
<1>5. Cardinality(own \cap others) = 0
  BY <1>3, FS_EmptySet
<1> QED BY <1>1, <1>2, <1>3, <1>4, <1>5 DEF others

\* Two sums that differ in one element differ by what it adds to each.
LEMMA TokensChange ==
    ASSUME NEW S, IsFiniteSet(S), NEW n \in Nat, NEW f, NEW g,
           \A y \in S : f[y] \in 0..n /\ g[y] \in 0..n,
           NEW x \in S, \A y \in S \ {x} : f[y] = g[y]
    PROVE  Cardinality(Tokens(g, S)) = Cardinality(Tokens(f, S)) + g[x] - f[x]
<1>1. Tokens(g, S \ {x}) = Tokens(f, S \ {x})
  BY DEF Tokens
<1>2. IsFiniteSet(S \ {x})
  BY FS_Subset
<1>3. Cardinality(Tokens(f, S \ {x})) \in Nat
  BY <1>2, TokensFinite
<1>4. /\ Cardinality(Tokens(f, S)) = f[x] + Cardinality(Tokens(f, S \ {x}))
      /\ Cardinality(Tokens(g, S)) = g[x] + Cardinality(Tokens(g, S \ {x}))
  BY TokensSplit
<1>5. f[x] \in Nat /\ g[x] \in Nat
  OBVIOUS
<1> QED BY <1>1, <1>3, <1>4, <1>5

LEMMA NoTokens ==
    ASSUME NEW S, NEW f, \A y \in S : f[y] = 0
    PROVE  Cardinality(Tokens(f, S)) = 0
<1>1. Tokens(f, S) = {}
  BY DEF Tokens
<1> QED BY <1>1, FS_EmptySet

\* The runs that a row, a worker and a request still have to give to task t.
\* A row that somebody has claimed gives none: its runs are the worker's.
LeftInRow(row, locked) ==
    IF row.status = "absent" THEN MaxRetries + 1
    ELSE IF row.status = "queued" /\ ~locked THEN MaxRetries + 1 - row.retry
    ELSE 0

LeftInHand(place, task, copy, t) ==
    IF task = t /\ place \in {"claimed", "running", "retry"} THEN MaxRetries - copy.retry
    ELSE IF task = t /\ place = "rolledback" THEN MaxRetries
    ELSE 0

LeftInRequest(q, t) ==
    IF q.op = "retry" /\ q.job = t[1] /\ t[2] \in q.sel THEN MaxRetries - q.rows[t[2]].retry
    ELSE 0

InHands(t) == [w \in Workers |-> LeftInHand(pc[w], at[w], mem[w], t)]
InRequests(t) == [c \in Clients |-> LeftInRequest(req[c], t)]

Held(t) == Cardinality(Tokens(InHands(t), Workers))
Asked(t) == Cardinality(Tokens(InRequests(t), Clients))
Queued(t) == LeftInRow(tasks[t], Locked(t))

\* What was run and what may still be run stay within the budget together.
Spent(t) == attempts[t] + Queued(t) + Held(t) + Asked(t)
Budget == (MaxRetries + 1) * (1 + rollbacks) + MaxRetries * apiRetries + crashes

SpentBound == \A t \in TaskIds : Spent(t) <= Budget

\* Workers and requests are finitely many.
FiniteActors == IsFiniteSet(Workers) /\ IsFiniteSet(Clients)

CountsOK == TypeOK /\ RetryBound /\ CopiesBound

LeftOK ==
    \A t \in TaskIds :
        /\ \A w \in Workers : InHands(t)[w] \in 0..MaxRetries
        /\ \A c \in Clients : InRequests(t)[c] \in 0..MaxRetries
        /\ Queued(t) \in 0..(MaxRetries + 1)

LEMMA LeftType == CountsOK => LeftOK
<1> SUFFICES ASSUME CountsOK, NEW t \in TaskIds
             PROVE  /\ \A w \in Workers : InHands(t)[w] \in 0..MaxRetries
                    /\ \A c \in Clients : InRequests(t)[c] \in 0..MaxRetries
                    /\ Queued(t) \in 0..(MaxRetries + 1)
  BY DEF LeftOK
<1>1. ASSUME NEW w \in Workers PROVE InHands(t)[w] \in 0..MaxRetries
  <2>1. mem[w].retry \in 0..MaxRetries
    BY BoundsAssumption DEF CountsOK, CopiesBound, TypeOK, TaskCopy
  <2> QED BY <2>1, BoundsAssumption DEF InHands, LeftInHand
<1>2. ASSUME NEW c \in Clients PROVE InRequests(t)[c] \in 0..MaxRetries
  <2>1. CASE req[c].op = "retry"
    <3>1. req[c].rows \in [Steps -> TaskCopy] /\ t[2] \in Steps
      BY <2>1, RetryRequest, TaskIdParts DEF CountsOK
    <3>2. req[c].rows[t[2]].retry \in 0..MaxRetries
      BY <2>1, <3>1, BoundsAssumption DEF CountsOK, CopiesBound, TaskCopy
    <3> QED BY <3>2, BoundsAssumption DEF InRequests, LeftInRequest
  <2>2. CASE req[c].op # "retry"
    BY <2>2, BoundsAssumption DEF InRequests, LeftInRequest
  <2> QED BY <2>1, <2>2
<1>3. tasks[t] \in TaskRow /\ tasks[t].retry \in 0..MaxRetries
  BY BoundsAssumption DEF CountsOK, RetryBound, TypeOK, TaskRow
<1>4. Queued(t) \in 0..(MaxRetries + 1)
  BY <1>3, BoundsAssumption DEF Queued, LeftInRow
<1> QED BY <1>1, <1>2, <1>4

LEMMA LeftTypeNext == CountsOK' => LeftOK'
BY LeftType, PTL

SpentOK ==
    \A t \in TaskIds :
        attempts[t] \in Nat /\ Queued(t) \in Nat /\ Held(t) \in Nat /\ Asked(t) \in Nat

LEMMA SpentTypes == FiniteActors => (CountsOK => SpentOK)
<1> SUFFICES ASSUME FiniteActors, CountsOK, NEW t \in TaskIds
             PROVE  attempts[t] \in Nat /\ Queued(t) \in Nat /\ Held(t) \in Nat /\ Asked(t) \in Nat
  BY DEF SpentOK
<1>1. attempts[t] \in Nat /\ Queued(t) \in Nat
  BY LeftType, BoundsAssumption DEF CountsOK, LeftOK, TypeOK
<1>2. Held(t) \in Nat
  BY LeftType, TokensFinite, BoundsAssumption DEF LeftOK, FiniteActors, Held
<1>3. Asked(t) \in Nat
  BY LeftType, TokensFinite, BoundsAssumption DEF LeftOK, FiniteActors, Asked
<1> QED BY <1>1, <1>2, <1>3

LEMMA SpentType ==
    ASSUME FiniteActors, CountsOK, NEW t \in TaskIds
    PROVE  attempts[t] \in Nat /\ Queued(t) \in Nat /\ Held(t) \in Nat /\ Asked(t) \in Nat
BY SpentTypes DEF SpentOK

\* A step of one worker changes only what that worker holds.
LEMMA HeldChange ==
    ASSUME FiniteActors, CountsOK, CountsOK', NEW t \in TaskIds, NEW w \in Workers,
           \A v \in Workers \ {w} : pc'[v] = pc[v] /\ at'[v] = at[v] /\ mem'[v] = mem[v]
    PROVE  Held(t)' = Held(t) + LeftInHand(pc'[w], at'[w], mem'[w], t)
                              - LeftInHand(pc[w], at[w], mem[w], t)
<1> DEFINE f == InHands(t)
           g == InHands(t)'
<1>1. \A v \in Workers : f[v] \in 0..MaxRetries
  BY LeftType DEF LeftOK
<1>2. \A v \in Workers : g[v] \in 0..MaxRetries
  BY LeftTypeNext DEF LeftOK
<1>3. \A v \in Workers \ {w} : f[v] = g[v]
  BY DEF InHands
<1>4. f[w] = LeftInHand(pc[w], at[w], mem[w], t) /\ g[w] = LeftInHand(pc'[w], at'[w], mem'[w], t)
  BY DEF InHands
<1>5. Held(t) = Cardinality(Tokens(f, Workers)) /\ Held(t)' = Cardinality(Tokens(g, Workers))
  BY DEF Held
<1> HIDE DEF f, g
<1>6. Cardinality(Tokens(g, Workers)) = Cardinality(Tokens(f, Workers)) + g[w] - f[w]
  <2>1. IsFiniteSet(Workers) /\ MaxRetries \in Nat
    BY BoundsAssumption DEF FiniteActors
  <2>2. \A y \in Workers : f[y] \in 0..MaxRetries /\ g[y] \in 0..MaxRetries
    BY <1>1, <1>2
  <2> QED BY <1>3, <2>1, <2>2, TokensChange, SMTT(30)
<1> QED BY <1>4, <1>5, <1>6

\* A step of one request changes only what that request asks for.
LEMMA AskedChange ==
    ASSUME FiniteActors, CountsOK, CountsOK', NEW t \in TaskIds, NEW c \in Clients,
           \A d \in Clients \ {c} : req'[d] = req[d]
    PROVE  Asked(t)' = Asked(t) + LeftInRequest(req'[c], t) - LeftInRequest(req[c], t)
<1> DEFINE f == InRequests(t)
           g == InRequests(t)'
<1>1. \A d \in Clients : f[d] \in 0..MaxRetries
  BY LeftType DEF LeftOK
<1>2. \A d \in Clients : g[d] \in 0..MaxRetries
  BY LeftTypeNext DEF LeftOK
<1>3. \A d \in Clients \ {c} : f[d] = g[d]
  BY DEF InRequests
<1>4. f[c] = LeftInRequest(req[c], t) /\ g[c] = LeftInRequest(req'[c], t)
  BY DEF InRequests
<1>5. Asked(t) = Cardinality(Tokens(f, Clients)) /\ Asked(t)' = Cardinality(Tokens(g, Clients))
  BY DEF Asked
<1> HIDE DEF f, g
<1>6. Cardinality(Tokens(g, Clients)) = Cardinality(Tokens(f, Clients)) + g[c] - f[c]
  <2>1. IsFiniteSet(Clients) /\ MaxRetries \in Nat
    BY BoundsAssumption DEF FiniteActors
  <2>2. \A y \in Clients : f[y] \in 0..MaxRetries /\ g[y] \in 0..MaxRetries
    BY <1>1, <1>2
  <2> QED BY <1>3, <2>1, <2>2, TokensChange, SMTT(30)
<1> QED BY <1>4, <1>5, <1>6

\* The budget grows by what a rollback, a retry request or a crash costs.
LEMMA BudgetGrows ==
    ASSUME CountsOK
    PROVE  /\ Budget \in Nat
           /\ rollbacks' = rollbacks + 1 /\ UNCHANGED <<apiRetries, crashes>> =>
                  Budget' = Budget + MaxRetries + 1
           /\ apiRetries' = apiRetries + 1 /\ UNCHANGED <<rollbacks, crashes>> =>
                  Budget' = Budget + MaxRetries
           /\ crashes' = crashes + 1 /\ UNCHANGED <<rollbacks, apiRetries>> =>
                  Budget' = Budget + 1
           /\ UNCHANGED <<rollbacks, apiRetries, crashes>> => Budget' = Budget
<1>1. MaxRetries \in Nat /\ rollbacks \in Nat /\ apiRetries \in Nat /\ crashes \in Nat
  BY BoundsAssumption DEF CountsOK, TypeOK
<1>2. \A m, n \in Nat : m * n \in Nat /\ m * (n + 1) = m * n + m
  OBVIOUS
<1>3. (MaxRetries + 1) * (1 + rollbacks) \in Nat /\ MaxRetries * apiRetries \in Nat
  BY <1>1, <1>2
<1>4. \A p, q, n \in Nat : (p + q + n) \in Nat
  OBVIOUS
<1>5. Budget \in Nat
  BY <1>1, <1>3, <1>4 DEF Budget
<1>6. ASSUME rollbacks' = rollbacks + 1, UNCHANGED <<apiRetries, crashes>>
      PROVE  Budget' = Budget + MaxRetries + 1
  <2>1. 1 + rollbacks' = (1 + rollbacks) + 1
    BY <1>1, <1>6
  <2>2. (MaxRetries + 1) * (1 + rollbacks') = (MaxRetries + 1) * (1 + rollbacks) + (MaxRetries + 1)
    <3>1. MaxRetries + 1 \in Nat /\ 1 + rollbacks \in Nat
      BY <1>1
    <3> QED BY <1>2, <2>1, <3>1
  <2>3. Budget' = (MaxRetries + 1) * (1 + rollbacks') + MaxRetries * apiRetries + crashes
    BY <1>6 DEF Budget
  <2> QED BY <1>1, <1>3, <2>2, <2>3 DEF Budget
<1>7. ASSUME apiRetries' = apiRetries + 1, UNCHANGED <<rollbacks, crashes>>
      PROVE  Budget' = Budget + MaxRetries
  <2>1. MaxRetries * apiRetries' = MaxRetries * apiRetries + MaxRetries
    BY <1>1, <1>2, <1>7
  <2>2. Budget' = (MaxRetries + 1) * (1 + rollbacks) + MaxRetries * apiRetries' + crashes
    BY <1>7 DEF Budget
  <2> QED BY <1>1, <1>3, <2>1, <2>2 DEF Budget
<1>8. ASSUME crashes' = crashes + 1, UNCHANGED <<rollbacks, apiRetries>>
      PROVE  Budget' = Budget + 1
  <2>1. Budget' = (MaxRetries + 1) * (1 + rollbacks) + MaxRetries * apiRetries + (crashes + 1)
    BY <1>8 DEF Budget
  <2> QED BY <1>1, <1>3, <2>1 DEF Budget
<1>9. UNCHANGED <<rollbacks, apiRetries, crashes>> => Budget' = Budget
  BY DEF Budget
<1> QED BY <1>5, <1>6, <1>7, <1>8, <1>9

LEMMA BudgetType == CountsOK => Budget \in Nat
BY BudgetGrows

\* The steps of a worker that neither dies nor rolls its claim back spend what it holds.
LEMMA WorkerSpends ==
    ASSUME FiniteActors, CountsOK, CountsOK', ClaimsHold, NEW w \in Workers, Works(w),
           NEW t \in TaskIds
    PROVE  Spent(t)' <= Spent(t) + Budget' - Budget
<1>0. /\ pc[w] # "idle" /\ at[w] \in TaskIds /\ pc'[w] # "claimed" /\ UNCHANGED req
      /\ \A v \in Workers \ {w} : pc'[v] = pc[v] /\ at'[v] = at[v] /\ mem'[v] = mem[v]
      /\ t # at[w] => tasks'[t] = tasks[t]
  BY WorksAlone DEF CountsOK
<1>1. /\ attempts[t] \in Nat /\ Queued(t) \in Nat /\ Held(t) \in Nat /\ Asked(t) \in Nat
      /\ Budget \in Nat
  BY SpentType, BudgetGrows
<1>2. UNCHANGED attempts
  BY DEF Works, HandlerCommit, HandlerSucceeds, HandlerFails, HandlerRollback, ScheduleRetry,
         EvaluateRead, EvaluateCommit, CrashRestart, ghosts
<1>3. Asked(t)' = Asked(t)
  BY <1>0 DEF Asked, InRequests
<1> DEFINE before == LeftInHand(pc[w], at[w], mem[w], t)
           after == LeftInHand(pc'[w], at'[w], mem'[w], t)
<1>4. Held(t)' = Held(t) + after - before
  BY <1>0, HeldChange
<1>5. before \in 0..MaxRetries /\ after \in 0..MaxRetries
  <2>1. before = InHands(t)[w] /\ after = InHands(t)'[w]
    BY DEF InHands
  <2> QED BY <2>1, LeftType, LeftTypeNext DEF LeftOK
<1>6. Queued(t)' \in Nat
  BY LeftTypeNext, BoundsAssumption DEF LeftOK
<1>7. SUFFICES Queued(t)' + after <= Queued(t) + before + (Budget' - Budget)
                   /\ Budget' - Budget \in Int
  BY <1>1, <1>2, <1>3, <1>4, <1>5, <1>6 DEF Spent
<1>8. Budget' - Budget \in Int /\ Budget' - Budget >= 0
  <2>1. \/ rollbacks' = rollbacks + 1 /\ UNCHANGED <<apiRetries, crashes>>
        \/ crashes' = crashes + 1 /\ UNCHANGED <<rollbacks, apiRetries>>
        \/ UNCHANGED <<rollbacks, apiRetries, crashes>>
    BY DEF Works, HandlerCommit, HandlerSucceeds, HandlerFails, HandlerRollback, ScheduleRetry,
           EvaluateRead, EvaluateCommit, CrashRestart, ghosts
  <2> QED BY <1>1, <2>1, BudgetGrows, BoundsAssumption
<1> HIDE DEF before, after
<1>9. CASE t # at[w]
  <2>1. Locked(t)' <=> Locked(t)
    BY <1>0, <1>9 DEF Locked
  <2>2. Queued(t)' = Queued(t)
    BY <1>0, <1>9, <2>1 DEF Queued, LeftInRow
  <2>3. at'[w] = at[w] \/ at'[w] = NoTask
    BY <1>0 DEF Works, HandlerCommit, HandlerSucceeds, HandlerFails, HandlerRollback, ScheduleRetry,
                EvaluateRead, EvaluateCommit, CrashRestart, CountsOK, TypeOK
  <2>4. after = 0
    BY <1>9, <2>3, TaskIdParts DEF after, LeftInHand
  <2> QED BY <1>1, <1>5, <1>8, <2>2, <2>4
<1>10. CASE t = at[w]
  <2>0. /\ tasks[t] \in TaskRow /\ tasks'[t] \in TaskRow
        /\ tasks[t].retry \in 0..MaxRetries /\ tasks'[t].retry \in 0..MaxRetries
        /\ mem[w] \in TaskCopy /\ mem[w].retry \in 0..MaxRetries
        /\ mem'[w] \in TaskCopy /\ mem'[w].retry \in 0..MaxRetries
    BY BoundsAssumption DEF CountsOK, RetryBound, CopiesBound, TypeOK, TaskRow, TaskCopy
  <2>1. Locked(t)' <=> LockedByOther(w, t)
    BY <1>0, <1>10 DEF Locked, LockedByOther
  <2>2. pc[w] # "claimed" => (Locked(t) <=> LockedByOther(w, t))
    BY <1>0, <1>10 DEF Locked, LockedByOther
  <2>3. pc[w] = "claimed" => /\ Locked(t) /\ ~LockedByOther(w, t)
                             /\ tasks[t].status = "queued" /\ tasks[t].retry = mem[w].retry
    BY <1>10 DEF Locked, LockedByOther, ClaimsHold, ClaimHolds
  <2>4. ASSUME HandlerCommit(w) \/ HandlerSucceeds(w) \/ HandlerFails(w)
        PROVE  Queued(t)' + after <= Queued(t) + before
    <3>1. tasks'[t].status \in {"running", "succeeded", "failed"}
      BY <1>10, <2>0, <2>4 DEF HandlerCommit, HandlerSucceeds, HandlerFails, CountsOK, TypeOK, TaskRow
    <3>2. Queued(t)' = 0
      BY <3>1 DEF Queued, LeftInRow
    <3>3. after <= before
      <4>1. CASE HandlerCommit(w)
        <5>1. pc[w] = "claimed" /\ pc'[w] = "running" /\ UNCHANGED <<at, mem>>
          BY <4>1 DEF HandlerCommit, CountsOK, TypeOK
        <5>2. after = before
          BY <1>10, <5>1 DEF after, before, LeftInHand
        <5> QED BY <1>5, <5>2
      <4>2. CASE HandlerSucceeds(w)
        BY <1>5, <1>10, <4>2 DEF HandlerSucceeds, CountsOK, TypeOK, after, LeftInHand
      <4>3. CASE HandlerFails(w) /\ pc[w] # "rolledback"
        <5>1. mem'[w].retry = mem[w].retry /\ pc'[w] = "retry" /\ at'[w] = t
          BY <1>10, <2>0, <4>3 DEF HandlerFails, CountsOK, TypeOK
        <5> QED BY <1>10, <2>0, <4>3, <5>1, BoundsAssumption DEF HandlerFails, after, before, LeftInHand
      <4>4. CASE HandlerFails(w) /\ pc[w] = "rolledback"
        BY <1>5, <1>10, <4>4 DEF before, LeftInHand
      <4> QED BY <2>4, <4>1, <4>2, <4>3, <4>4
    <3> QED BY <1>1, <1>5, <3>2, <3>3
  <2>5. ASSUME ScheduleRetry(w) PROVE Queued(t)' + after <= Queued(t) + before
    <3>1. after = 0
      BY <2>5 DEF ScheduleRetry, CountsOK, TypeOK, after, LeftInHand
    <3>2. before = MaxRetries - mem[w].retry
      BY <1>10, <2>5 DEF ScheduleRetry, before, LeftInHand
    <3>3. tasks'[t] = schedule_retry(tasks[t], mem[w], TRUE)
      BY <1>10, <2>5 DEF ScheduleRetry, CountsOK, TypeOK
    <3>4. CASE mem[w].retry >= MaxRetries
      <4>1. tasks'[t] = tasks[t] \/ tasks'[t].status = "failed"
        BY <2>0, <3>3, <3>4 DEF schedule_retry, TaskRow
      <4>2. Locked(t)' <=> Locked(t)
        BY <2>1, <2>2, <2>5 DEF ScheduleRetry
      <4>3. Queued(t)' = Queued(t) \/ Queued(t)' = 0
        BY <4>1, <4>2 DEF Queued, LeftInRow
      <4> QED BY <1>1, <1>5, <3>1, <4>3
    <3>5. CASE ~(mem[w].retry >= MaxRetries)
      <4>1. tasks'[t].status = "queued" /\ tasks'[t].retry = mem[w].retry + 1
        BY <3>3, <3>5 DEF schedule_retry
      <4>2. Queued(t)' <= MaxRetries - mem[w].retry
        BY <2>0, <4>1, BoundsAssumption DEF Queued, LeftInRow
      <4> QED BY <1>1, <1>5, <1>6, <2>0, <3>1, <3>2, <4>2, BoundsAssumption
    <3> QED BY <3>4, <3>5
  <2>6. ASSUME EvaluateRead(w) \/ EvaluateCommit(w) PROVE Queued(t)' + after <= Queued(t) + before
    <3>1. after = 0
      BY <2>6 DEF EvaluateRead, EvaluateCommit, CountsOK, TypeOK, after, LeftInHand
    <3>2. UNCHANGED tasks /\ pc[w] # "claimed"
      BY <2>6 DEF EvaluateRead, EvaluateCommit
    <3>3. Queued(t)' = Queued(t)
      BY <2>1, <2>2, <3>2 DEF Queued, LeftInRow
    <3> QED BY <1>1, <1>5, <3>1, <3>3
  <2>7. ASSUME HandlerRollback(w)
        PROVE  Queued(t)' + after <= Queued(t) + before + MaxRetries + 1
    <3>1. UNCHANGED <<tasks, at, mem>> /\ pc[w] \in {"claimed", "running"}
      BY <2>7 DEF HandlerRollback
    <3>2. before = MaxRetries - mem[w].retry
      BY <1>10, <3>1 DEF before, LeftInHand
    <3>3. CASE pc[w] = "claimed"
      <4>1. Queued(t)' = MaxRetries + 1 - mem[w].retry
        BY <2>1, <2>3, <3>1, <3>3 DEF Queued, LeftInRow
      <4> QED BY <1>1, <1>5, <2>0, <3>2, <4>1, BoundsAssumption
    <3>4. CASE pc[w] # "claimed"
      <4>1. Queued(t)' = Queued(t)
        BY <2>1, <2>2, <3>1, <3>4 DEF Queued, LeftInRow
      <4> QED BY <1>1, <1>5, <4>1, BoundsAssumption
    <3> QED BY <3>3, <3>4
  <2>8. ASSUME CrashRestart(w) PROVE Queued(t)' + after <= Queued(t) + before + 1
    <3>1. after = 0
      BY <1>10, <2>8, TaskIdParts DEF CrashRestart, CountsOK, TypeOK, after, LeftInHand
    <3>2. UNCHANGED tasks
      BY <2>8 DEF CrashRestart
    <3>3. CASE pc[w] = "claimed"
      <4>1. Queued(t)' = MaxRetries + 1 - mem[w].retry
        BY <2>1, <2>3, <3>2, <3>3 DEF Queued, LeftInRow
      <4>2. before = MaxRetries - mem[w].retry
        BY <1>10, <3>3 DEF before, LeftInHand
      <4> QED BY <1>1, <1>5, <2>0, <3>1, <4>1, <4>2, BoundsAssumption
    <3>4. CASE pc[w] # "claimed"
      <4>1. Queued(t)' = Queued(t)
        BY <2>1, <2>2, <3>2, <3>4 DEF Queued, LeftInRow
      <4> QED BY <1>1, <1>5, <3>1, <4>1
    <3> QED BY <3>3, <3>4
  <2>9. HandlerRollback(w) => Budget' = Budget + MaxRetries + 1
    BY BudgetGrows DEF HandlerRollback
  <2>10. CrashRestart(w) => Budget' = Budget + 1
    BY BudgetGrows DEF CrashRestart
  <2> QED
    BY <1>1, <1>5, <1>6, <1>8, <2>4, <2>5, <2>6, <2>7, <2>8, <2>9, <2>10, BoundsAssumption DEF Works
<1> QED BY <1>9, <1>10, <1>8

\* A claim moves the runs of the row into the worker's hand, and is one of them.
LEMMA ClaimSpends ==
    ASSUME FiniteActors, CountsOK, CountsOK', NEW w \in Workers, Claim(w), NEW t \in TaskIds
    PROVE  Spent(t)' <= Spent(t)
<1>1. PICK u \in TaskIds :
        /\ Claimable(u)
        /\ at' = [at EXCEPT ![w] = u]
        /\ mem' = [mem EXCEPT ![w] = [status |-> "running", retry |-> tasks[u].retry]]
        /\ attempts' = [attempts EXCEPT ![u] = @ + 1]
  BY DEF Claim
<1>2. pc[w] = "idle" /\ pc' = [pc EXCEPT ![w] = "claimed"] /\ UNCHANGED <<tasks, req>>
  BY DEF Claim
<1>3. pc'[w] = "claimed" /\ at'[w] = u /\ mem'[w].retry = tasks[u].retry
  BY <1>1, <1>2 DEF CountsOK, TypeOK
<1>4. \A v \in Workers \ {w} : pc'[v] = pc[v] /\ at'[v] = at[v] /\ mem'[v] = mem[v]
  BY <1>1, <1>2 DEF CountsOK, TypeOK
<1>5. attempts[t] \in Nat /\ Queued(t) \in Nat /\ Held(t) \in Nat /\ Asked(t) \in Nat
  BY SpentType
<1>6. Asked(t)' = Asked(t)
  BY <1>2 DEF Asked, InRequests
<1>7. LeftInHand(pc[w], at[w], mem[w], t) = 0
  BY <1>2 DEF LeftInHand
<1>8. Held(t)' = Held(t) + LeftInHand(pc'[w], at'[w], mem'[w], t)
                         - LeftInHand(pc[w], at[w], mem[w], t)
  BY <1>4, HeldChange
<1>9. CASE t # u
  <2>1. LeftInHand(pc'[w], at'[w], mem'[w], t) = 0
    BY <1>3, <1>9 DEF LeftInHand
  <2>2. Locked(t)' <=> Locked(t)
    BY <1>2, <1>3, <1>4, <1>9 DEF Locked
  <2>3. Queued(t)' = Queued(t)
    BY <1>2, <2>2 DEF Queued, LeftInRow
  <2>4. attempts'[t] = attempts[t]
    BY <1>1, <1>9 DEF CountsOK, TypeOK
  <2> QED BY <1>5, <1>6, <1>7, <1>8, <2>1, <2>3, <2>4 DEF Spent
<1>10. CASE t = u
  <2>0. tasks[t].retry \in 0..MaxRetries
    BY BoundsAssumption DEF CountsOK, RetryBound, TypeOK, TaskRow
  <2>1. LeftInHand(pc'[w], at'[w], mem'[w], t) = MaxRetries - tasks[t].retry
    BY <1>3, <1>10 DEF LeftInHand
  <2>2. Queued(t) = MaxRetries + 1 - tasks[t].retry
    BY <1>1, <1>10 DEF Queued, LeftInRow, Claimable
  <2>3. Locked(t)'
    BY <1>3, <1>10 DEF Locked
  <2>4. Queued(t)' = 0
    BY <1>1, <1>2, <1>10, <2>3 DEF Queued, LeftInRow, Claimable
  <2>5. attempts'[t] = attempts[t] + 1
    BY <1>1, <1>10 DEF CountsOK, TypeOK
  <2> QED BY <1>5, <1>6, <1>7, <1>8, <2>0, <2>1, <2>2, <2>4, <2>5, BoundsAssumption DEF Spent
<1> QED BY <1>9, <1>10

\* A retry request holds at most max_retries runs, and its commit gives them to the row.
LEMMA RequestSpends ==
    ASSUME FiniteActors, CountsOK, CountsOK', Existing, NEW c \in Clients, NEW t \in TaskIds,
           \/ StartCommit(c) \/ RetryCommit(c)
           \/ \E a \in Accounts, f \in BOOLEAN : StartCheck(c, a, f)
           \/ \E j \in Jobs, sel \in SUBSET Steps, whole \in BOOLEAN, delay \in BOOLEAN :
                  Load(c, j, sel, whole, delay)
    PROVE  Spent(t)' <= Spent(t) + Budget' - Budget
<1> DEFINE before == LeftInRequest(req[c], t)
           after == LeftInRequest(req'[c], t)
<1>1. /\ attempts[t] \in Nat /\ Queued(t) \in Nat /\ Held(t) \in Nat /\ Asked(t) \in Nat
      /\ Budget \in Nat /\ Queued(t)' \in Nat
  BY SpentType, BudgetGrows, LeftTypeNext, BoundsAssumption DEF LeftOK
<1>2. /\ UNCHANGED <<pc, at, mem, attempts, rollbacks, crashes>>
      /\ \A d \in Clients \ {c} : req'[d] = req[d]
  BY DEF StartCommit, RetryCommit, StartCheck, Load, ghosts, CountsOK, TypeOK
<1>3. Held(t)' = Held(t)
  BY <1>2 DEF Held, InHands
<1>4. Asked(t)' = Asked(t) + after - before
  BY <1>2, AskedChange
<1>5. before \in 0..MaxRetries /\ after \in 0..MaxRetries
  <2>1. before = InRequests(t)[c] /\ after = InRequests(t)'[c]
    BY DEF InRequests
  <2> QED BY <2>1, LeftType, LeftTypeNext DEF LeftOK
<1>6. Locked(t)' <=> Locked(t)
  BY <1>2 DEF Locked
<1> HIDE DEF before, after
<1>7. CASE StartCommit(c)
  <2>1. req'[c] = NoReq /\ UNCHANGED apiRetries
    BY <1>7 DEF StartCommit, ghosts, CountsOK, TypeOK
  <2>2. after = 0
    BY <2>1 DEF after, LeftInRequest, NoReq
  <2>3. tasks'[t] = tasks[t] \/ (tasks[t].status = "absent" /\ tasks'[t].retry = 0)
    BY <1>7, StartsAbsent DEF CountsOK
  <2>4. Queued(t)' <= Queued(t)
    <3>1. tasks'[t].retry = 0 => Queued(t)' <= MaxRetries + 1
      BY BoundsAssumption DEF Queued, LeftInRow
    <3>2. tasks[t].status = "absent" => Queued(t) = MaxRetries + 1
      BY DEF Queued, LeftInRow
    <3>3. tasks'[t] = tasks[t] => Queued(t)' = Queued(t)
      BY <1>6 DEF Queued, LeftInRow
    <3> QED BY <1>1, <2>3, <3>1, <3>2, <3>3
  <2>5. Budget' = Budget
    BY <1>2, <2>1, BudgetGrows
  <2> QED BY <1>1, <1>2, <1>3, <1>4, <1>5, <2>2, <2>4, <2>5 DEF Spent
<1>8. CASE RetryCommit(c)
  <2>1. /\ req[c].op = "retry" /\ req'[c] = NoReq /\ UNCHANGED apiRetries
        /\ req[c].delay \in BOOLEAN /\ req[c].rows \in [Steps -> TaskCopy]
    BY <1>8, RetryRequest DEF RetryCommit, ghosts, CountsOK, TypeOK
  <2>2. after = 0
    BY <2>1 DEF after, LeftInRequest, NoReq
  <2>3. Budget' = Budget
    BY <1>2, <2>1, BudgetGrows
  <2>4. Queued(t)' <= Queued(t) + before
    <3>1. CASE t[1] = req[c].job /\ t[2] \in req[c].sel
      <4> DEFINE copy == req[c].rows[t[2]]
      <4>1. before = MaxRetries - copy.retry
        BY <2>1, <3>1 DEF before, LeftInRequest
      <4>2. copy \in TaskCopy /\ tasks[t] \in TaskRow
        BY <2>1, TaskIdParts DEF CountsOK, TypeOK
      <4>3. tasks'[t] = schedule_retry(tasks[t], copy, req[c].delay)
        BY <1>8, <3>1 DEF RetryCommit
      <4> HIDE DEF copy
      <4>4. CASE copy.retry >= MaxRetries
        <5>1. tasks'[t] = tasks[t] \/ tasks'[t].status = "failed"
          BY <4>2, <4>3, <4>4 DEF schedule_retry, TaskRow
        <5>2. Queued(t)' = Queued(t) \/ Queued(t)' = 0
          BY <1>6, <5>1 DEF Queued, LeftInRow
        <5> QED BY <1>1, <1>5, <5>2
      <4>5. CASE ~(copy.retry >= MaxRetries)
        <5>1. tasks'[t].status = "queued" /\ tasks'[t].retry = copy.retry + 1
          BY <4>3, <4>5 DEF schedule_retry
        <5>2. copy.retry \in Nat /\ copy.retry < MaxRetries
          BY <4>2, <4>5, BoundsAssumption DEF TaskCopy
        <5>3. Queued(t)' <= MaxRetries - copy.retry
          BY <5>1, <5>2, BoundsAssumption DEF Queued, LeftInRow
        <5> QED BY <1>1, <1>5, <4>1, <5>2, <5>3, BoundsAssumption
      <4> QED BY <4>4, <4>5
    <3>2. CASE ~(t[1] = req[c].job /\ t[2] \in req[c].sel)
      <4>1. tasks'[t] = tasks[t]
        BY <1>8, <3>2 DEF RetryCommit
      <4>2. Queued(t)' = Queued(t)
        BY <1>6, <4>1 DEF Queued, LeftInRow
      <4> QED BY <1>1, <1>5, <4>2
    <3> QED BY <3>1, <3>2
  <2> QED BY <1>1, <1>2, <1>3, <1>4, <1>5, <2>2, <2>3, <2>4 DEF Spent
<1>9. CASE \E a \in Accounts, f \in BOOLEAN : StartCheck(c, a, f)
  <2>1. PICK a \in Accounts : req' = [req EXCEPT ![c] = [op |-> "start", account |-> a]]
    BY <1>9 DEF StartCheck
  <2>2. UNCHANGED <<tasks, apiRetries>>
    BY <1>9 DEF StartCheck, ghosts
  <2>3. after = 0
    BY <2>1 DEF after, LeftInRequest, CountsOK, TypeOK
  <2>4. Queued(t)' = Queued(t) /\ Budget' = Budget
    BY <1>2, <1>6, <2>2, BudgetGrows DEF Queued, LeftInRow
  <2> QED BY <1>1, <1>2, <1>3, <1>4, <1>5, <2>3, <2>4 DEF Spent
<1>10. CASE \E j \in Jobs, sel \in SUBSET Steps, whole \in BOOLEAN, delay \in BOOLEAN :
                Load(c, j, sel, whole, delay)
  <2>1. req[c] = NoReq /\ apiRetries' = apiRetries + 1 /\ UNCHANGED tasks
    BY <1>10 DEF Load
  <2>2. before = 0
    BY <2>1 DEF before, LeftInRequest, NoReq
  <2>3. Queued(t)' = Queued(t)
    BY <1>6, <2>1 DEF Queued, LeftInRow
  <2>4. Budget' = Budget + MaxRetries
    BY <1>2, <2>1, BudgetGrows
  <2> QED BY <1>1, <1>2, <1>3, <1>4, <1>5, <2>2, <2>3, <2>4, BoundsAssumption DEF Spent
<1> QED BY <1>7, <1>8, <1>9, <1>10

LEMMA NextSpends ==
    FiniteActors /\ CountsOK /\ CountsOK' /\ Existing /\ ClaimsHold /\ SpentBound /\ [Next]_vars
        => SpentBound'
<1> SUFFICES ASSUME FiniteActors, CountsOK, CountsOK', Existing, ClaimsHold, SpentBound, [Next]_vars,
                    NEW t \in TaskIds
             PROVE  Spent(t)' <= Budget'
  BY DEF SpentBound
<1>1. /\ attempts[t] \in Nat /\ Queued(t) \in Nat /\ Held(t) \in Nat /\ Asked(t) \in Nat
      /\ Budget \in Nat
  BY SpentType, BudgetGrows
<1>2. Spent(t) \in Nat /\ Spent(t) <= Budget
  BY <1>1 DEF Spent, SpentBound
<1>3. ASSUME UNCHANGED <<attempts, pc, at, mem, req, apiRetries, crashes, rollbacks>>,
             tasks'[t].status = tasks[t].status, tasks'[t].retry = tasks[t].retry
      PROVE  Spent(t)' <= Budget'
  <2>1. Locked(t)' <=> Locked(t)
    BY <1>3 DEF Locked
  <2>2. Queued(t)' = Queued(t)
    BY <1>3, <2>1 DEF Queued, LeftInRow
  <2>3. Held(t)' = Held(t) /\ Asked(t)' = Asked(t)
    BY <1>3 DEF Held, InHands, Asked, InRequests
  <2>4. Budget' = Budget
    BY <1>3 DEF Budget
  <2> QED BY <1>2, <1>3, <2>2, <2>3, <2>4 DEF Spent
<1>4. Budget' \in Nat /\ Spent(t)' \in Int
  <2>1. Budget' \in Nat
    <3>1. (CountsOK => Budget \in Nat)'
      BY BudgetType, PTL
    <3> QED BY <3>1
  <2>2. attempts'[t] \in Nat /\ Queued(t)' \in Nat /\ Held(t)' \in Nat /\ Asked(t)' \in Nat
    <3>1. SpentOK'
      BY SpentTypes, PTL
    <3> QED BY <3>1 DEF SpentOK
  <2> QED BY <2>1, <2>2 DEF Spent
<1>5. ASSUME Spent(t)' <= Spent(t) + Budget' - Budget PROVE Spent(t)' <= Budget'
  BY <1>1, <1>2, <1>4, <1>5
<1>6. ASSUME NEW w \in Workers, Works(w) PROVE Spent(t)' <= Budget'
  BY <1>5, <1>6, WorkerSpends
<1>7. ASSUME NEW w \in Workers, Claim(w) PROVE Spent(t)' <= Budget'
  <2>1. Budget' = Budget
    BY <1>7 DEF Claim, Budget
  <2> QED BY <1>2, <1>4, <1>7, <2>1, ClaimSpends
<1>8. ASSUME NEW c \in Clients, StartCommit(c) \/ RetryCommit(c) PROVE Spent(t)' <= Budget'
  BY <1>5, <1>8, RequestSpends
<1>9. ASSUME NEW c \in Clients, NEW a \in Accounts, NEW f \in BOOLEAN, StartCheck(c, a, f)
      PROVE  Spent(t)' <= Budget'
  BY <1>5, <1>9, RequestSpends
<1>10. ASSUME NEW c \in Clients, NEW j \in Jobs, NEW sel \in SUBSET Steps,
              NEW whole \in BOOLEAN, NEW delay \in BOOLEAN, Load(c, j, sel, whole, delay)
       PROVE  Spent(t)' <= Budget'
  BY <1>5, <1>10, RequestSpends
<1>11. ASSUME NEW u \in TaskIds, DelayExpires(u) PROVE Spent(t)' <= Budget'
  <2>1. tasks'[t].status = tasks[t].status /\ tasks'[t].retry = tasks[t].retry
    BY <1>11 DEF DelayExpires, CountsOK, TypeOK, TaskRow
  <2> QED BY <1>3, <1>11, <2>1 DEF DelayExpires, ghosts
<1>12. CASE UNCHANGED vars
  BY <1>3, <1>12 DEF vars
<1> QED
  BY <1>6, <1>7, <1>8, <1>9, <1>10, <1>11, <1>12, TaskIdParts
     DEF Next, WorkerStep, RetryTask, RetryJob, Works

LEMMA InitSpends == FiniteActors /\ Init => SpentBound
<1> SUFFICES ASSUME FiniteActors, Init, NEW t \in TaskIds PROVE Spent(t) <= Budget
  BY DEF SpentBound
<1>1. attempts[t] = 0 /\ Queued(t) = MaxRetries + 1
  BY DEF Init, Queued, LeftInRow, AbsentTask
<1>2. Held(t) = 0
  <2>1. \A w \in Workers : InHands(t)[w] = 0
    BY DEF Init, InHands, LeftInHand
  <2> QED BY <2>1, NoTokens DEF Held
<1>3. Asked(t) = 0
  <2>1. \A c \in Clients : InRequests(t)[c] = 0
    BY DEF Init, InRequests, LeftInRequest, NoReq
  <2> QED BY <2>1, NoTokens DEF Asked
<1>4. Budget = MaxRetries + 1
  <2>1. Budget = (MaxRetries + 1) * (1 + 0) + MaxRetries * 0 + 0
    BY DEF Init, Budget
  <2> QED BY <2>1, BoundsAssumption
<1> QED BY <1>1, <1>2, <1>3, <1>4, BoundsAssumption DEF Spent

\* THEOREM.  However stale the copies are that workers and retry requests increment, the
\* handler of a task is started at most max_retries + 1 times, and max_retries times more
\* for each retry request, max_retries + 1 times more for each rolled back handler and once
\* more for each crash (schedule_retry and claim_next_queued_task,
\* app/sync/queue/database.py, and the loop of scripts/sync_worker.py).
THEOREM AttemptsBounded == FiniteActors /\ Spec => []AttemptsBound
<1> SUFFICES ASSUME FiniteActors PROVE Spec => []AttemptsBound
  OBVIOUS
<1>1. Init => SpentBound
  BY InitSpends
<1>2. Spec => []CountsOK
  BY Invariant, PTL DEF IInv, CountsOK
<1>3. CountsOK /\ CountsOK' /\ Existing /\ ClaimsHold /\ SpentBound /\ [Next]_vars => SpentBound'
  BY NextSpends
<1>4. CountsOK /\ SpentBound => AttemptsBound
  <2> SUFFICES ASSUME CountsOK, SpentBound, NEW t \in TaskIds PROVE attempts[t] <= Budget
    BY DEF AttemptsBound, Budget
  <2>1. attempts[t] \in Nat /\ Queued(t) \in Nat /\ Held(t) \in Nat /\ Asked(t) \in Nat
    BY SpentType
  <2>2. Budget \in Nat /\ Spent(t) <= Budget
    BY BudgetGrows DEF SpentBound
  <2> QED BY <2>1, <2>2 DEF Spent
<1> QED BY <1>1, <1>2, <1>3, <1>4, AlwaysExisting, AlwaysClaimed, PTL DEF Spec

-----------------------------------------------------------------------------
(* One worker *)

\* One sync worker process, and nobody retries by hand.
OneWorker == \A v, w \in Workers : v = w
NoApiRetries == MaxApiRetries = 0

\* create_job_with_plan sets the job to collecting: the plan has a collector.
PlanCollects == \E k \in Steps : Plan[k].category = "collector"

StatusesOf(j) == [k \in Steps |-> tasks[<<j, k>>].status]

\* Without retry requests none is ever in flight.
LEMMA NoRetryInFlight == NoApiRetries /\ Spec => []NoRetryRequest
<1> SUFFICES ASSUME NoApiRetries PROVE Spec => []NoRetryRequest
  OBVIOUS
<1>1. Init => NoRetryRequest
  BY DEF Init, NoRetryRequest, NoReq
<1>2. TypeOK /\ NoRetryRequest /\ [Next]_vars => NoRetryRequest'
  <2> SUFFICES ASSUME TypeOK, NoRetryRequest, [Next]_vars PROVE NoRetryRequest'
    OBVIOUS
  <2>1. \A c \in Clients, j \in Jobs, sel \in SUBSET Steps, whole \in BOOLEAN, delay \in BOOLEAN :
            ~Load(c, j, sel, whole, delay)
    BY DEF Load, TypeOK, NoApiRetries
  <2>2. ASSUME NEW c \in Clients, StartCommit(c) \/ RetryCommit(c) PROVE NoRetryRequest'
    BY <2>2 DEF StartCommit, RetryCommit, NoRetryRequest, NoReq, TypeOK
  <2>3. ASSUME NEW c \in Clients, NEW a \in Accounts, NEW f \in BOOLEAN, StartCheck(c, a, f)
        PROVE  NoRetryRequest'
    BY <2>3 DEF StartCheck, NoRetryRequest, TypeOK
  <2>4. ASSUME UNCHANGED req PROVE NoRetryRequest'
    BY <2>4 DEF NoRetryRequest
  <2>5. ASSUME NEW w \in Workers, WorkerStep(w) \/ HandlerRollback(w) \/ CrashRestart(w)
        PROVE  UNCHANGED req
    BY <2>5 DEF WorkerStep, Claim, HandlerCommit, HandlerSucceeds, HandlerFails, ScheduleRetry,
                EvaluateRead, EvaluateCommit, HandlerRollback, CrashRestart
  <2>6. ASSUME NEW t \in TaskIds, DelayExpires(t) PROVE UNCHANGED req
    BY <2>6 DEF DelayExpires
  <2> QED BY <2>1, <2>2, <2>3, <2>4, <2>5, <2>6, TaskIdParts DEF Next, RetryTask, RetryJob, vars
<1> QED BY <1>1, <1>2, TypeCorrect, PTL DEF Spec

-----------------------------------------------------------------------------
(* The evaluation of a job *)

\* What one worker has in hand: its copy of the task agrees with the row, and what it
\* loaded and computed for the job is still so.
InHand(w) ==
    /\ pc[w] = "retry" => tasks[at[w]].status = "failed" /\ mem[w].status = "failed"
    /\ pc[w] = "evaluate" => mem[w].status = tasks[at[w]].status
    /\ pc[w] = "write" =>
           /\ eval[w].loaded = jobs[at[w][1]]
           /\ eval[w].computed = evaluate_job(StatusesOf(at[w][1]))

LoneInv == QuiescentJobEvaluated /\ \A w \in Workers : InHand(w)

\* QuiescentJobEvaluated speaks of StatusesOf.
LEMMA Quiescent ==
    /\ QuiescentJobEvaluated <=>
         \A j \in Jobs : Exists(j) /\ (\A w \in Workers : ~HoldsJob(w, j)) =>
             jobs[j] = evaluate_job(StatusesOf(j))
    /\ QuiescentJobEvaluated' <=>
         \A j \in Jobs : Exists(j)' /\ (\A w \in Workers : ~HoldsJob(w, j)') =>
             jobs'[j] = evaluate_job(StatusesOf(j)')
BY DEF QuiescentJobEvaluated, StatusesOf, evaluate_job, refresh_job_counters, JobStatus, Open

\* The statuses of a job's tasks change only with the rows.
LEMMA StatusesSame ==
    ASSUME NEW j \in Jobs, \A k \in Steps : tasks'[<<j, k>>].status = tasks[<<j, k>>].status
    PROVE  StatusesOf(j)' = StatusesOf(j)
BY DEF StatusesOf

\* A new job is what its evaluation would make of it.
LEMMA NewJobEvaluated ==
    ASSUME PlanCollects
    PROVE  refresh_job_counters([k \in Steps |-> "queued"], "collecting")
             = evaluate_job([k \in Steps |-> "queued"])
<1> DEFINE st == [k \in Steps |-> "queued"]
<1>1. Open(st, "collector")
  BY DEF PlanCollects, Open, task_terminal, TERMINAL_TASK_STATUSES
<1>2. JobStatus(st) = "collecting"
  BY <1>1 DEF JobStatus
<1> QED BY <1>2 DEF evaluate_job

\* An active verdict means a task that is not terminal.
LEMMA ActiveMeansOpen ==
    ASSUME NEW st, evaluate_job(st).status \in PHASE_STATUSES
    PROVE  \E k \in Steps : ~task_terminal(st[k])
<1>1. JobStatus(st) \in PHASE_STATUSES
  BY DEF evaluate_job, refresh_job_counters
<1>2. \E cat \in Categories : Open(st, cat)
  BY <1>1 DEF JobStatus, PHASE_STATUSES, Categories
<1> QED BY <1>2 DEF Open

\* An UPDATE from an up to date copy writes what was computed.
LEMMA UpdateFresh ==
    ASSUME NEW row \in JobRow, NEW computed \in JobRow
    PROVE  Update(row, row, computed) = computed
BY DEF Update, JobRow

\* Steps that only move the worker along, writing at most the task it holds.
LEMMA LoneWorker ==
    ASSUME OneWorker, TypeOK, LoneInv, NEW w \in Workers,
           pc[w] # "idle", pc'[w] # "idle", at'[w] = at[w], UNCHANGED jobs,
           \A t \in TaskIds : tasks'[t] = tasks[t] \/ t = at[w],
           InHand(w)'
    PROVE  LoneInv'
<1>1. at[w] \in TaskIds /\ \A v \in Workers : v = w
  BY DEF TypeOK, OneWorker
<1>2. QuiescentJobEvaluated'
  <2> SUFFICES ASSUME NEW j \in Jobs, Exists(j)', \A v \in Workers : ~HoldsJob(v, j)'
               PROVE  jobs'[j] = evaluate_job(StatusesOf(j)')
    BY Quiescent
  <2>1. at[w][1] # j
    BY DEF HoldsJob
  <2>2. Exists(j) /\ \A v \in Workers : ~HoldsJob(v, j)
    BY <1>1, <2>1 DEF Exists, HoldsJob
  <2>3. \A k \in Steps : tasks'[<<j, k>>] = tasks[<<j, k>>]
    BY <1>1, <2>1, TaskIdPair
  <2>4. StatusesOf(j)' = StatusesOf(j)
    BY <2>3, StatusesSame
  <2>5. jobs[j] = evaluate_job(StatusesOf(j))
    BY <2>2, Quiescent DEF LoneInv
  <2> QED BY <2>4, <2>5
<1> QED BY <1>1, <1>2 DEF LoneInv

\* Steps that leave the worker where it is, write no existing job and no status of a
\* task that exists.
LEMMA LoneBeside ==
    ASSUME TypeOK, Existing, LoneInv, UNCHANGED <<pc, at, mem, eval>>,
           \A j \in Jobs : Exists(j) => jobs'[j] = jobs[j],
           \A t \in TaskIds : Exists(t[1]) => tasks'[t].status = tasks[t].status,
           \A j \in Jobs : ~Exists(j) /\ Exists(j)' => jobs'[j] = evaluate_job(StatusesOf(j)')
    PROVE  LoneInv'
<1>1. \A j \in Jobs : Exists(j) => StatusesOf(j)' = StatusesOf(j)
  <2> SUFFICES ASSUME NEW j \in Jobs, Exists(j) PROVE StatusesOf(j)' = StatusesOf(j)
    OBVIOUS
  <2>1. \A k \in Steps : <<j, k>> \in TaskIds /\ <<j, k>>[1] = j
    BY DEF TaskIds
  <2> QED BY <2>1, StatusesSame
<1>2. QuiescentJobEvaluated'
  <2> SUFFICES ASSUME NEW j \in Jobs, Exists(j)', \A v \in Workers : ~HoldsJob(v, j)'
               PROVE  jobs'[j] = evaluate_job(StatusesOf(j)')
    BY Quiescent
  <2>1. CASE Exists(j)
    <3>1. \A v \in Workers : ~HoldsJob(v, j)
      BY DEF HoldsJob
    <3>2. jobs[j] = evaluate_job(StatusesOf(j))
      BY <2>1, <3>1, Quiescent DEF LoneInv
    <3> QED BY <1>1, <2>1, <3>2
  <2>2. CASE ~Exists(j)
    BY <2>2
  <2> QED BY <2>1, <2>2
<1>3. ASSUME NEW w \in Workers PROVE InHand(w)'
  <2>1. InHand(w)
    BY DEF LoneInv
  <2>2. pc[w] # "idle" => at[w] \in TaskIds /\ at[w][1] \in Jobs /\ Exists(at[w][1])
    BY TaskIdParts DEF TypeOK, Existing
  <2> QED BY <1>1, <2>1, <2>2 DEF InHand
<1> QED BY <1>2, <1>3 DEF LoneInv

\* Every step keeps the invariant of the lone worker.
LEMMA NextLone ==
    OneWorker /\ PlanCollects /\ MaxCrashes = 0
    /\ TypeOK /\ Existing /\ NoRetryRequest /\ LoneInv /\ [Next]_vars => LoneInv'
<1> SUFFICES ASSUME OneWorker, PlanCollects, MaxCrashes = 0,
                    TypeOK, Existing, NoRetryRequest, LoneInv, [Next]_vars
             PROVE  LoneInv'
  OBVIOUS
<1>0. \A v, w \in Workers : v = w
  BY DEF OneWorker
<1>1. ASSUME NEW c \in Clients, NEW a \in Accounts, NEW f \in BOOLEAN, StartCheck(c, a, f)
      PROVE  LoneInv'
  BY <1>1, LoneBeside DEF StartCheck, Exists
<1>2. ASSUME NEW c \in Clients, StartCommit(c) PROVE LoneInv'
  <2>1. PICK j \in Jobs :
          /\ ~Exists(j)
          /\ jobs' = [jobs EXCEPT ![j] =
                 refresh_job_counters([k \in Steps |-> "queued"], "collecting")]
          /\ tasks' = [t \in TaskIds |->
                 IF t[1] = j THEN [status |-> "queued", retry |-> 0, delayed |-> FALSE]
                 ELSE tasks[t]]
    BY <1>2 DEF StartCommit
  <2>2. \A i \in Jobs \ {j} : jobs'[i] = jobs[i]
    BY <2>1 DEF TypeOK
  <2>3. \A k \in Steps : tasks'[<<j, k>>].status = "queued"
    <3> SUFFICES ASSUME NEW k \in Steps PROVE tasks'[<<j, k>>].status = "queued"
      OBVIOUS
    <3>1. <<j, k>> \in TaskIds /\ <<j, k>>[1] = j
      BY DEF TaskIds
    <3> QED BY <2>1, <3>1
  <2>4. StatusesOf(j)' = [k \in Steps |-> "queued"]
    BY <2>3 DEF StatusesOf
  <2>5. jobs'[j] = evaluate_job([k \in Steps |-> "queued"])
    BY <2>1, NewJobEvaluated DEF TypeOK
  <2>6. \A t \in TaskIds : Exists(t[1]) => tasks'[t].status = tasks[t].status
    BY <2>1
  <2> QED BY <1>2, <2>1, <2>2, <2>4, <2>5, <2>6, LoneBeside DEF StartCommit, Exists
<1>3. ASSUME NEW c \in Clients, NEW j \in Jobs, NEW sel \in SUBSET Steps,
             NEW whole \in BOOLEAN, NEW delay \in BOOLEAN, Load(c, j, sel, whole, delay)
      PROVE  LoneInv'
  BY <1>3, LoneBeside DEF Load, Exists
<1>4. ASSUME NEW c \in Clients, RetryCommit(c) PROVE FALSE
  BY <1>4 DEF RetryCommit, NoRetryRequest
<1>5. ASSUME NEW w \in Workers, Claim(w) PROVE LoneInv'
  <2>1. /\ pc[w] = "idle" /\ pc'[w] = "claimed" /\ UNCHANGED <<jobs, tasks>>
    BY <1>5 DEF Claim, TypeOK
  <2>2. QuiescentJobEvaluated'
    <3> SUFFICES ASSUME NEW j \in Jobs, Exists(j)', \A v \in Workers : ~HoldsJob(v, j)'
                 PROVE  jobs'[j] = evaluate_job(StatusesOf(j)')
      BY Quiescent
    <3>1. Exists(j) /\ \A v \in Workers : ~HoldsJob(v, j)
      BY <1>0, <2>1 DEF Exists, HoldsJob
    <3>2. StatusesOf(j)' = StatusesOf(j)
      BY <2>1, StatusesSame
    <3> QED BY <2>1, <3>1, <3>2, Quiescent DEF LoneInv
  <2>3. \A v \in Workers : InHand(v)'
    BY <1>0, <2>1 DEF InHand
  <2> QED BY <2>2, <2>3 DEF LoneInv
<1>6. ASSUME NEW w \in Workers, HandlerCommit(w) PROVE LoneInv'
  BY <1>6, LoneWorker DEF HandlerCommit, InHand, TypeOK
<1>7. ASSUME NEW w \in Workers, HandlerRollback(w) PROVE LoneInv'
  BY <1>7, LoneWorker DEF HandlerRollback, InHand, TypeOK
<1>8. ASSUME NEW w \in Workers, HandlerSucceeds(w) PROVE LoneInv'
  <2>1. at[w] \in TaskIds
    BY <1>8 DEF HandlerSucceeds, TypeOK
  <2>2. /\ tasks'[at[w]].status = "succeeded" /\ mem'[w].status = "succeeded"
        /\ pc[w] # "idle" /\ pc'[w] = "evaluate" /\ at'[w] = at[w]
        /\ \A t \in TaskIds : tasks'[t] = tasks[t] \/ t = at[w]
        /\ UNCHANGED jobs
    BY <1>8, <2>1 DEF HandlerSucceeds, TypeOK, TaskRow, TaskCopy
  <2> QED BY <2>2, LoneWorker DEF InHand
<1>9. ASSUME NEW w \in Workers, HandlerFails(w) PROVE LoneInv'
  <2>1. at[w] \in TaskIds
    BY <1>9 DEF HandlerFails, TypeOK
  <2>2. /\ tasks'[at[w]].status = "failed" /\ mem'[w].status = "failed"
        /\ pc[w] # "idle" /\ pc'[w] = "retry" /\ at'[w] = at[w]
        /\ \A t \in TaskIds : tasks'[t] = tasks[t] \/ t = at[w]
        /\ UNCHANGED jobs
    BY <1>9, <2>1 DEF HandlerFails, TypeOK, TaskRow, TaskCopy
  <2> QED BY <2>2, LoneWorker DEF InHand
<1>10. ASSUME NEW w \in Workers, ScheduleRetry(w) PROVE LoneInv'
  <2>1. at[w] \in TaskIds /\ pc[w] = "retry"
    BY <1>10 DEF ScheduleRetry, TypeOK
  <2>2. tasks[at[w]].status = "failed" /\ mem[w].status = "failed"
    BY <2>1 DEF LoneInv, InHand
  <2>3. /\ pc'[w] = "evaluate" /\ at'[w] = at[w]
        /\ \A t \in TaskIds : tasks'[t] = tasks[t] \/ t = at[w]
        /\ UNCHANGED jobs
    BY <1>10 DEF ScheduleRetry, TypeOK
  <2>4. tasks'[at[w]] = schedule_retry(tasks[at[w]], mem[w], TRUE)
    BY <1>10, <2>1 DEF ScheduleRetry, TypeOK
  <2>5. mem'[w] = IF mem[w].retry >= MaxRetries THEN mem[w]
                  ELSE [status |-> "queued", retry |-> mem[w].retry + 1]
    BY <1>10 DEF ScheduleRetry, TypeOK
  <2>6. tasks[at[w]] \in TaskRow
    BY <2>1 DEF TypeOK
  <2>7. mem'[w].status = tasks'[at[w]].status
    BY <2>2, <2>4, <2>5, <2>6 DEF schedule_retry, TaskRow
  <2> QED BY <2>1, <2>3, <2>7, LoneWorker DEF InHand
<1>11. ASSUME NEW w \in Workers, EvaluateRead(w) PROVE LoneInv'
  <2>1. /\ at[w] \in TaskIds /\ at[w][1] \in Jobs /\ pc[w] = "evaluate"
        /\ at[w] = <<at[w][1], at[w][2]>>
    BY <1>11, TaskIdParts DEF EvaluateRead, TypeOK
  <2>2. mem[w].status = tasks[at[w]].status
    BY <2>1 DEF LoneInv, InHand
  <2>3. Seen(w) = StatusesOf(at[w][1])
    BY <2>1, <2>2 DEF Seen, StatusesOf
  <2>4. /\ pc'[w] = "write" /\ at'[w] = at[w] /\ UNCHANGED <<jobs, tasks>>
        /\ eval'[w].loaded = jobs[at[w][1]] /\ eval'[w].computed = evaluate_job(Seen(w))
    BY <1>11 DEF EvaluateRead, TypeOK
  <2>5. StatusesOf(at[w][1])' = StatusesOf(at[w][1])
    BY <2>4 DEF StatusesOf
  <2>6. InHand(w)'
    BY <2>3, <2>4, <2>5 DEF InHand
  <2> QED BY <2>1, <2>4, <2>6, LoneWorker
<1>12. ASSUME NEW w \in Workers, EvaluateCommit(w) PROVE LoneInv'
  <2> DEFINE j == at[w][1]
  <2>1. j \in Jobs /\ pc[w] = "write"
    BY <1>12, TaskIdParts DEF EvaluateCommit, TypeOK
  <2>2. eval[w].loaded = jobs[j] /\ eval[w].computed = evaluate_job(StatusesOf(j))
    BY <2>1 DEF LoneInv, InHand
  <2>3. Update(jobs[j], eval[w].loaded, eval[w].computed) = evaluate_job(StatusesOf(j))
    BY <2>1, <2>2, UpdateFresh, EvaluateJob DEF TypeOK
  <2>4. /\ jobs'[j] = evaluate_job(StatusesOf(j)) /\ pc'[w] = "idle" /\ UNCHANGED tasks
        /\ \A i \in Jobs \ {j} : jobs'[i] = jobs[i]
    BY <1>12, <2>1, <2>3 DEF EvaluateCommit, TypeOK
  <2>5. QuiescentJobEvaluated'
    <3> SUFFICES ASSUME NEW i \in Jobs, Exists(i)'
                 PROVE  jobs'[i] = evaluate_job(StatusesOf(i)')
      BY Quiescent
    <3>1. StatusesOf(i)' = StatusesOf(i)
      BY <2>4, StatusesSame
    <3>2. CASE i = j
      BY <2>4, <3>1, <3>2
    <3>3. CASE i # j
      <4>1. Exists(i) /\ \A v \in Workers : ~HoldsJob(v, i)
        BY <1>0, <2>4, <3>3 DEF Exists, HoldsJob
      <4> QED BY <2>4, <3>1, <3>3, <4>1, Quiescent DEF LoneInv
    <3> QED BY <3>2, <3>3
  <2>6. \A v \in Workers : InHand(v)'
    BY <1>0, <2>4 DEF InHand
  <2> QED BY <2>5, <2>6 DEF LoneInv
<1>13. ASSUME NEW w \in Workers, CrashRestart(w) PROVE FALSE
  BY <1>13 DEF CrashRestart, TypeOK
<1>14. ASSUME NEW t \in TaskIds, DelayExpires(t) PROVE LoneInv'
  <2>1. \A u \in TaskIds : tasks'[u].status = tasks[u].status
    BY <1>14 DEF DelayExpires, TypeOK, TaskRow
  <2> QED BY <1>14, <2>1, LoneBeside DEF DelayExpires, Exists
<1>15. CASE UNCHANGED vars
  BY <1>15, LoneBeside DEF vars, Exists
<1> QED
  BY <1>1, <1>2, <1>3, <1>4, <1>5, <1>6, <1>7, <1>8, <1>9, <1>10, <1>11, <1>12, <1>13, <1>14,
     <1>15, TaskIdParts DEF Next, WorkerStep, RetryTask, RetryJob

\* One worker that does not die, any number of jobs and start requests, handlers that
\* fail and roll back.
Lone == OneWorker /\ NoApiRetries /\ MaxCrashes = 0 /\ PlanCollects

\* A job that no worker is busy with carries exactly the evaluation of its tasks
\* (evaluate_job_after_tasks, refresh_job_counters).
THEOREM JobsEvaluated == Lone /\ Spec => []QuiescentJobEvaluated
<1> SUFFICES ASSUME Lone PROVE Spec => []QuiescentJobEvaluated
  OBVIOUS
<1>1. Init => LoneInv
  BY DEF Init, LoneInv, QuiescentJobEvaluated, Exists, AbsentJob, InHand
<1>2. TypeOK /\ Existing /\ NoRetryRequest /\ LoneInv /\ [Next]_vars => LoneInv'
  BY NextLone DEF Lone
<1>3. Spec => []NoRetryRequest
  BY NoRetryInFlight DEF Lone
<1>4. LoneInv => QuiescentJobEvaluated
  BY DEF LoneInv
<1> QED BY <1>1, <1>2, <1>3, <1>4, TypeCorrect, AlwaysExisting, PTL DEF Spec

\* An active job has a task still to run or a worker about to evaluate it, so nothing
\* blocks the later starts of its account for good.
THEOREM ActiveJobsProgress == Lone /\ Spec => []ActiveJobHasWork
<1> SUFFICES ASSUME Lone PROVE Spec => []ActiveJobHasWork
  OBVIOUS
<1>1. QuiescentJobEvaluated => ActiveJobHasWork
  <2> SUFFICES ASSUME QuiescentJobEvaluated, NEW j \in Jobs, Active(j),
                      \A w \in Workers : ~HoldsJob(w, j)
               PROVE  \E k \in Steps : ~task_terminal(tasks[<<j, k>>].status)
    BY DEF ActiveJobHasWork
  <2>1. Exists(j)
    BY DEF Active, Exists, PHASE_STATUSES
  <2>2. jobs[j] = evaluate_job(StatusesOf(j))
    BY <2>1, Quiescent
  <2>3. \E k \in Steps : ~task_terminal(StatusesOf(j)[k])
    BY <2>2, ActiveMeansOpen DEF Active
  <2> QED BY <2>3 DEF StatusesOf
<1>2. Spec => []QuiescentJobEvaluated
  BY JobsEvaluated
<1> QED BY <1>1, <1>2, PTL
=============================================================================
