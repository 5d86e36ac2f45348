---------------------------- MODULE SyncPipeline ----------------------------
(***************************************************************************)
(* The durable sync pipeline: sync_jobs and sync_tasks rows in Postgres,    *)
(* the API requests that start and retry jobs (app/sync/service.py), and    *)
(* the worker processes that claim tasks, run their handlers, reschedule    *)
(* failures and evaluate the job (scripts/sync_worker.py).                  *)
(*                                                                         *)
(* Every session is READ COMMITTED with autoflush=False and                 *)
(* expire_on_commit=False (app/core/db.py): a row loaded once is never      *)
(* refreshed by a later query, and an UPDATE carries only the columns whose *)
(* value differs from the loaded one.  So a worker and an API request work  *)
(* on private copies of rows, and a read and the write that depends on it   *)
(* are separate steps here.                                                *)
(***************************************************************************)
EXTENDS Integers, Sequences, FiniteSets

CONSTANTS
    Plan,           \* the planner's task specs, in order; each one's parent is
                    \* the one before it
    Jobs,           \* 1..n, in the order of created_at
    Accounts,       \* cloud accounts
    Workers,        \* sync worker processes
    Clients,        \* concurrent API requests
    MaxRetries,     \* SyncTask.max_retries
    \* Bounds on what the environment may do
    MaxApiRetries, MaxCrashes, MaxRollbacks

Steps == 1..Len(Plan)
TaskIds == Jobs \X Steps
NoTask == <<0, 0>>

Categories == {"collector", "analyzer", "scorer", "summarizer"}
TERMINAL_TASK_STATUSES == {"succeeded", "failed"}
TaskStatuses == {"absent", "queued", "running"} \cup TERMINAL_TASK_STATUSES
PHASE_STATUSES == {"collecting", "analyzing", "scoring", "summarizing"}
TERMINAL_JOB_STATUSES == {"completed", "completed_with_errors", "failed"}
JobStatuses == {"absent"} \cup PHASE_STATUSES \cup TERMINAL_JOB_STATUSES

TaskSpec == [category : Categories, priority : Nat,
             critical : BOOLEAN, commits : BOOLEAN]

ASSUME PlanAssumption == Plan \in Seq(TaskSpec) /\ Len(Plan) > 0
ASSUME JobsAssumption == Jobs \subseteq Nat \ {0} /\ IsFiniteSet(Jobs)
ASSUME BoundsAssumption ==
    MaxRetries \in Nat /\ MaxApiRetries \in Nat /\ MaxCrashes \in Nat /\ MaxRollbacks \in Nat

VARIABLES
    jobs,       \* sync_jobs: status and the task counters
    account,    \* sync_jobs.cloud_account_id
    tasks,      \* sync_tasks: status, retry_count, scheduled_at in the future
    pc,         \* where each worker is in its loop
    at,         \* the task each worker holds
    mem,        \* the worker's in-memory copy of that task row
    eval,       \* the job row it loaded for the evaluation, and the one it computed
    req,        \* the API requests in flight
    attempts,   \* how often the handler of each task was started; nothing reads it
    apiRetries, crashes, rollbacks      \* how much the environment has done

vars == <<jobs, account, tasks, pc, at, mem, eval, req, attempts, apiRetries, crashes, rollbacks>>
ghosts == <<attempts, apiRetries, crashes, rollbacks>>

TaskRow == [status : TaskStatuses, retry : Nat, delayed : BOOLEAN]
TaskCopy == [status : TaskStatuses, retry : Nat]
JobRow == [status : JobStatuses, completed : Nat, failed : Nat]

\* "claimed": the claim is flushed but not committed, so the row is locked and
\* still reads queued to everyone else.  "running": the handler committed.
\* "rolledback": the handler rolled the session back and is raising.
WorkerPCs == {"idle", "claimed", "running", "rolledback", "retry", "evaluate", "write"}

AbsentTask == [status |-> "absent", retry |-> 0, delayed |-> FALSE]
AbsentJob == [status |-> "absent", completed |-> 0, failed |-> 0]
NoCopy == [status |-> "absent", retry |-> 0]
NoEval == [loaded |-> AbsentJob, computed |-> AbsentJob]
NoReq == [op |-> "none"]

Requests ==
    {NoReq} \cup
    [op : {"start"}, account : Accounts] \cup
    [op : {"retry"}, job : Jobs, whole : BOOLEAN, sel : SUBSET Steps, delay : BOOLEAN,
     rows : [Steps -> TaskCopy], status : JobStatuses]

Init ==
    /\ jobs = [j \in Jobs |-> AbsentJob]
    /\ account \in [Jobs -> Accounts]
    /\ tasks = [t \in TaskIds |-> AbsentTask]
    /\ pc = [w \in Workers |-> "idle"]
    /\ at = [w \in Workers |-> NoTask]
    /\ mem = [w \in Workers |-> NoCopy]
    /\ eval = [w \in Workers |-> NoEval]
    /\ req = [c \in Clients |-> NoReq]
    /\ attempts = [t \in TaskIds |-> 0]
    /\ apiRetries = 0 /\ crashes = 0 /\ rollbacks = 0

-----------------------------------------------------------------------------
(* What the rows say *)

Exists(j) == jobs[j].status # "absent"
Active(j) == jobs[j].status \in PHASE_STATUSES

task_terminal(s) == s \in TERMINAL_TASK_STATUSES

\* The worker is inside the handler of its task.
InHandler(w) == pc[w] \in {"claimed", "running"}

(* Operators named Mutant... are plausible slips in the definition that follows *)
(* them; nothing uses them.                                                   *)
MutantLocked(t) == FALSE

\* A worker that has claimed a task and not committed holds its row lock.
Locked(t) == \E w \in Workers : pc[w] = "claimed" /\ at[w] = t
LockedByOther(w, t) == \E v \in Workers \ {w} : pc[v] = "claimed" /\ at[v] = t

HoldsJob(w, j) == pc[w] # "idle" /\ at[w][1] = j

(* evaluate_job_after_tasks as a function of the task statuses it sees *)

Open(st, category) == \E k \in Steps : Plan[k].category = category /\ ~task_terminal(st[k])

MutantJobStatus(st) ==
    IF Open(st, "collector") THEN "collecting"
    ELSE IF \E k \in Steps : st[k] = "failed" /\ Plan[k].critical THEN "failed"
    ELSE "completed"

JobStatus(st) ==
    IF Open(st, "collector") THEN "collecting"
    ELSE IF Open(st, "analyzer") THEN "analyzing"
    ELSE IF Open(st, "scorer") THEN "scoring"
    ELSE IF Open(st, "summarizer") THEN "summarizing"
    ELSE IF \E k \in Steps : st[k] = "failed" /\ Plan[k].critical THEN "failed"
    ELSE IF \E k \in Steps : st[k] = "failed" THEN "completed_with_errors"
    ELSE "completed"

refresh_job_counters(st, status) ==
    [status    |-> status,
     completed |-> Cardinality({k \in Steps : st[k] = "succeeded"}),
     failed    |-> Cardinality({k \in Steps : st[k] = "failed"})]

evaluate_job(st) == refresh_job_counters(st, JobStatus(st))

\* The UPDATE of a job row: only the columns that differ from the loaded row.
Update(row, loaded, computed) ==
    [status    |-> IF computed.status = loaded.status THEN row.status ELSE computed.status,
     completed |-> IF computed.completed = loaded.completed THEN row.completed
                   ELSE computed.completed,
     failed    |-> IF computed.failed = loaded.failed THEN row.failed ELSE computed.failed]

MutantRetryOffByOne(row, copy, delay) ==
    IF copy.retry > MaxRetries THEN [row EXCEPT !.status = "failed"]
    ELSE [status |-> "queued", retry |-> copy.retry + 1, delayed |-> row.delayed \/ delay]

\* DatabaseTaskQueue.schedule_retry, from the copy of the row that the session
\* holds: past max_retries the status is written only if the copy's differs, and
\* scheduled_at is written only for a positive delay.
schedule_retry(row, copy, delay) ==
    IF copy.retry >= MaxRetries
    THEN [row EXCEPT !.status = IF copy.status = "failed" THEN @ ELSE "failed"]
    ELSE [status |-> "queued", retry |-> copy.retry + 1, delayed |-> row.delayed \/ delay]

-----------------------------------------------------------------------------
(* API requests *)

\* start_sync_job up to count_active_jobs_for_scope: refused when the account has
\* an active job, unless force_new.
StartCheck(c, a, force_new) ==
    /\ req[c] = NoReq
    /\ \E j \in Jobs : ~Exists(j)
    /\ force_new \/ ~\E j \in Jobs : Active(j) /\ account[j] = a
    /\ req' = [req EXCEPT ![c] = [op |-> "start", account |-> a]]
    /\ UNCHANGED <<jobs, account, tasks, pc, at, mem, eval, ghosts>>

\* create_job_with_plan after the check, and the commit: the job in collecting
\* with every planned task queued.  No unique index stops a second active job.
StartCommit(c) ==
    /\ req[c].op = "start"
    /\ \E j \in Jobs :
        /\ ~Exists(j) /\ \A i \in Jobs : i < j => Exists(i)
        /\ jobs' = [jobs EXCEPT ![j] =
               refresh_job_counters([k \in Steps |-> "queued"], "collecting")]
        /\ account' = [account EXCEPT ![j] = req[c].account]
        /\ tasks' = [t \in TaskIds |->
               IF t[1] = j THEN [status |-> "queued", retry |-> 0, delayed |-> FALSE]
               ELSE tasks[t]]
    /\ req' = [req EXCEPT ![c] = NoReq]
    /\ UNCHANGED <<pc, at, mem, eval, ghosts>>

\* The rows a retry request loads before it writes anything.
Load(c, j, sel, whole, delay) ==
    /\ req[c] = NoReq
    /\ apiRetries < MaxApiRetries
    /\ apiRetries' = apiRetries + 1
    /\ req' = [req EXCEPT ![c] =
           [op |-> "retry", job |-> j, whole |-> whole, sel |-> sel, delay |-> delay,
            rows |-> [k \in Steps |->
                [status |-> tasks[<<j, k>>].status, retry |-> tasks[<<j, k>>].retry]],
            status |-> jobs[j].status]]
    /\ UNCHANGED <<jobs, account, tasks, pc, at, mem, eval, attempts, crashes, rollbacks>>

\* POST /sync/tasks/{id}/retry: any task, whatever its status.
RetryTask(c, t, delay) == Exists(t[1]) /\ Load(c, t[1], {t[2]}, FALSE, delay)

\* POST /sync/jobs/{id}/retry: the failed tasks, or those of them in task_ids.
RetryJob(c, j, sel, delay) ==
    /\ Exists(j)
    /\ \A k \in sel : tasks[<<j, k>>].status = "failed"
    /\ Load(c, j, sel, TRUE, delay)

\* schedule_retry on every selected copy; retry_job then sets the job to
\* collecting; commit.  An UPDATE waits for the row lock of an open claim.
RetryCommit(c) ==
    /\ req[c].op = "retry"
    /\ \A k \in req[c].sel : ~Locked(<<req[c].job, k>>)
    /\ tasks' = [t \in TaskIds |->
           IF t[1] = req[c].job /\ t[2] \in req[c].sel
           THEN schedule_retry(tasks[t], req[c].rows[t[2]], req[c].delay)
           ELSE tasks[t]]
    /\ jobs' = IF req[c].whole /\ req[c].status # "collecting"
               THEN [jobs EXCEPT ![req[c].job].status = "collecting"] ELSE jobs
    /\ req' = [req EXCEPT ![c] = NoReq]
    /\ UNCHANGED <<account, pc, at, mem, eval, ghosts>>

-----------------------------------------------------------------------------
(* The worker loop *)

MutantClaimable(t) == tasks[t].status = "queued" /\ ~tasks[t].delayed /\ ~Locked(t)
MutantClaimableParentSucceeded(t) ==
    /\ tasks[t].status = "queued" /\ ~tasks[t].delayed
    /\ ~Locked(t)
    /\ t[2] > 1 => tasks[<<t[1], t[2] - 1>>].status = "succeeded"

\* claim_next_queued_task: queued, due, not locked, parent terminal.
Claimable(t) ==
    /\ tasks[t].status = "queued" /\ ~tasks[t].delayed
    /\ ~Locked(t)
    /\ t[2] > 1 => task_terminal(tasks[<<t[1], t[2] - 1>>].status)

\* ORDER BY priority, created_at
Before(t, u) ==
    \/ Plan[t[2]].priority < Plan[u[2]].priority
    \/ Plan[t[2]].priority = Plan[u[2]].priority /\ t[1] < u[1]

Claim(w) ==
    /\ pc[w] = "idle"
    /\ \E t \in TaskIds :
        /\ Claimable(t)
        /\ \A u \in TaskIds \ {t} : Claimable(u) => Before(t, u)
        /\ at' = [at EXCEPT ![w] = t]
        /\ mem' = [mem EXCEPT ![w] = [status |-> "running", retry |-> tasks[t].retry]]
        /\ attempts' = [attempts EXCEPT ![t] = @ + 1]
    /\ pc' = [pc EXCEPT ![w] = "claimed"]
    /\ UNCHANGED <<jobs, account, tasks, eval, req, apiRetries, crashes, rollbacks>>

\* A handler that commits on the way (inventory snapshots, findings): the claim
\* becomes visible and its row lock is released.
HandlerCommit(w) ==
    /\ pc[w] = "claimed" /\ Plan[at[w][2]].commits
    /\ tasks' = [tasks EXCEPT ![at[w]].status = "running"]
    /\ pc' = [pc EXCEPT ![w] = "running"]
    /\ UNCHANGED <<jobs, account, at, mem, eval, req, ghosts>>

\* run_task's success path and the commit after it.
HandlerSucceeds(w) ==
    /\ pc[w] \in {"claimed", "running"} /\ ~LockedByOther(w, at[w])
    /\ tasks' = [tasks EXCEPT ![at[w]].status = "succeeded"]
    /\ mem' = [mem EXCEPT ![w].status = "succeeded"]
    /\ pc' = [pc EXCEPT ![w] = "evaluate"]
    /\ UNCHANGED <<jobs, account, at, eval, req, ghosts>>

\* run_task's except path and the commit after it.  After a rollback the copy is
\* expired and reloaded from the row.
HandlerFails(w) ==
    /\ pc[w] \in {"claimed", "running", "rolledback"} /\ ~LockedByOther(w, at[w])
    /\ tasks' = [tasks EXCEPT ![at[w]].status = "failed"]
    /\ mem' = [mem EXCEPT ![w] =
           [status |-> "failed",
            retry  |-> IF pc[w] = "rolledback" THEN tasks[at[w]].retry ELSE @.retry]]
    /\ pc' = [pc EXCEPT ![w] = "retry"]
    /\ UNCHANGED <<jobs, account, at, eval, req, ghosts>>

\* A handler whose inner commit fails rolls the session back before it raises: an
\* uncommitted claim is gone and its lock with it.
HandlerRollback(w) ==
    /\ pc[w] \in {"claimed", "running"} /\ Plan[at[w][2]].commits
    /\ rollbacks < MaxRollbacks
    /\ rollbacks' = rollbacks + 1
    /\ pc' = [pc EXCEPT ![w] = "rolledback"]
    /\ UNCHANGED <<jobs, account, tasks, at, mem, eval, req, attempts, apiRetries, crashes>>

\* The worker's schedule_retry, in the transaction after the one that committed
\* the failure.
ScheduleRetry(w) ==
    /\ pc[w] = "retry" /\ ~LockedByOther(w, at[w])
    /\ tasks' = [tasks EXCEPT ![at[w]] = schedule_retry(@, mem[w], TRUE)]
    /\ mem' = [mem EXCEPT ![w] =
           IF @.retry >= MaxRetries THEN @ ELSE [status |-> "queued", retry |-> @.retry + 1]]
    /\ pc' = [pc EXCEPT ![w] = "evaluate"]
    /\ UNCHANGED <<jobs, account, at, eval, req, ghosts>>

\* The statuses a worker's evaluation sees: the rows, except that its own task is
\* the copy in its identity map.
Seen(w) == [k \in Steps |->
    IF k = at[w][2] THEN mem[w].status ELSE tasks[<<at[w][1], k>>].status]

MutantEvaluateRead(w) ==
    /\ pc[w] = "evaluate"
    /\ IF mem[w].status = "failed"
       THEN pc' = [pc EXCEPT ![w] = "idle"] /\ UNCHANGED eval
       ELSE /\ eval' = [eval EXCEPT ![w] =
                  [loaded |-> jobs[at[w][1]], computed |-> evaluate_job(Seen(w))]]
            /\ pc' = [pc EXCEPT ![w] = "write"]
    /\ UNCHANGED <<jobs, account, tasks, at, mem, req, ghosts>>

EvaluateRead(w) ==
    /\ pc[w] = "evaluate"
    /\ eval' = [eval EXCEPT ![w] =
           [loaded |-> jobs[at[w][1]], computed |-> evaluate_job(Seen(w))]]
    /\ pc' = [pc EXCEPT ![w] = "write"]
    /\ UNCHANGED <<jobs, account, tasks, at, mem, req, ghosts>>

MutantEvaluateCommit(w) ==
    /\ pc[w] = "write"
    /\ jobs' = [jobs EXCEPT ![at[w][1]].status = eval[w].computed.status]
    /\ pc' = [pc EXCEPT ![w] = "idle"]
    /\ at' = [at EXCEPT ![w] = NoTask]
    /\ mem' = [mem EXCEPT ![w] = NoCopy]
    /\ eval' = [eval EXCEPT ![w] = NoEval]
    /\ UNCHANGED <<account, tasks, req, ghosts>>

EvaluateCommit(w) ==
    /\ pc[w] = "write"
    /\ jobs' = [jobs EXCEPT ![at[w][1]] = Update(@, eval[w].loaded, eval[w].computed)]
    /\ pc' = [pc EXCEPT ![w] = "idle"]
    /\ at' = [at EXCEPT ![w] = NoTask]
    /\ mem' = [mem EXCEPT ![w] = NoCopy]
    /\ eval' = [eval EXCEPT ![w] = NoEval]
    /\ UNCHANGED <<account, tasks, req, ghosts>>

\* The process dies; its open transaction is rolled back and its copies are gone.
\* The restarted worker reaps ingestion jobs only, and no sync task.
CrashRestart(w) ==
    /\ pc[w] # "idle" /\ crashes < MaxCrashes
    /\ crashes' = crashes + 1
    /\ pc' = [pc EXCEPT ![w] = "idle"]
    /\ at' = [at EXCEPT ![w] = NoTask]
    /\ mem' = [mem EXCEPT ![w] = NoCopy]
    /\ eval' = [eval EXCEPT ![w] = NoEval]
    /\ UNCHANGED <<jobs, account, tasks, req, attempts, apiRetries, rollbacks>>

\* scheduled_at <= now
DelayExpires(t) ==
    /\ tasks[t].delayed
    /\ tasks' = [tasks EXCEPT ![t].delayed = FALSE]
    /\ UNCHANGED <<jobs, account, pc, at, mem, eval, req, ghosts>>

WorkerStep(w) ==
    \/ Claim(w) \/ HandlerCommit(w) \/ HandlerSucceeds(w) \/ HandlerFails(w)
    \/ ScheduleRetry(w) \/ EvaluateRead(w) \/ EvaluateCommit(w)

Next ==
    \/ \E c \in Clients, a \in Accounts, force_new \in BOOLEAN : StartCheck(c, a, force_new)
    \/ \E c \in Clients : StartCommit(c)
    \/ \E c \in Clients, t \in TaskIds, delay \in BOOLEAN : RetryTask(c, t, delay)
    \/ \E c \in Clients, j \in Jobs, sel \in SUBSET Steps, delay \in BOOLEAN :
           RetryJob(c, j, sel, delay)
    \/ \E c \in Clients : RetryCommit(c)
    \/ \E w \in Workers : WorkerStep(w)
    \/ \E w \in Workers : HandlerRollback(w)
    \/ \E w \in Workers : CrashRestart(w)
    \/ \E t \in TaskIds : DelayExpires(t)

Spec == Init /\ [][Next]_vars

\* The worker loop never stops and every handler returns or raises; time passes;
\* an API request that passed its check goes on to commit.
Fairness ==
    /\ \A w \in Workers : WF_vars(WorkerStep(w))
    /\ \A t \in TaskIds : WF_vars(DelayExpires(t))
    /\ \A c \in Clients : WF_vars(StartCommit(c))

FairSpec == Spec /\ Fairness

-----------------------------------------------------------------------------
(* Properties *)

\* Types of the rows, the copies and the requests in flight.
TypeOK ==
    /\ jobs \in [Jobs -> JobRow]
    /\ account \in [Jobs -> Accounts]
    /\ tasks \in [TaskIds -> TaskRow]
    /\ pc \in [Workers -> WorkerPCs]
    /\ at \in [Workers -> TaskIds \cup {NoTask}]
    /\ \A w \in Workers : pc[w] # "idle" => at[w] \in TaskIds
    /\ mem \in [Workers -> TaskCopy]
    /\ eval \in [Workers -> [loaded : JobRow, computed : JobRow]]
    /\ req \in [Clients -> Requests]
    /\ attempts \in [TaskIds -> Nat]
    /\ apiRetries \in Nat /\ crashes \in Nat /\ rollbacks \in Nat

\* No retry request and no rolled back handler so far.
Undisturbed == apiRetries = 0 /\ rollbacks = 0

\* What max_retries bounds is retry_count, which schedule_retry checks and increments
\* on copies: an increment is lost when a retry request and a worker, or two workers,
\* hold one task.  What it is for is how often a handler runs, and that stays bounded
\* too, for any number of workers: a retry request costs at most max_retries more
\* runs however old its copy is, a rolled back claim a budget of its own, and a
\* worker that dies one run.
AttemptsBound ==
    \A t \in TaskIds :
        attempts[t] <= (MaxRetries + 1) * (1 + rollbacks) + MaxRetries * apiRetries + crashes

\* FOR UPDATE SKIP LOCKED and the status written by the claim give each task to at
\* most one worker at a time, across worker crashes, as long as no retry request
\* re-queues a running task and no handler rolls its own claim back.
TaskMutex == Undisturbed =>
    \A v, w \in Workers : v # w /\ InHandler(v) /\ InHandler(w) => at[v] # at[w]

\* A job marked completed has every task succeeded, although evaluations of two
\* workers interleave and write what they computed from older reads.
CompletedSound == Undisturbed =>
    \A j \in Jobs : jobs[j].status = "completed" =>
        \A k \in Steps : tasks[<<j, k>>].status = "succeeded"

\* A job that no worker is busy with carries exactly the evaluation of its tasks:
\* phase or verdict, and both counters.
QuiescentJobEvaluated ==
    \A j \in Jobs : Exists(j) /\ (\A w \in Workers : ~HoldsJob(w, j)) =>
        jobs[j] = evaluate_job([k \in Steps |-> tasks[<<j, k>>].status])

\* A job in an active status has a task still to run, or a worker about to
\* evaluate it.  Otherwise nothing will ever finish it, and it blocks every later
\* start for its account.
ActiveJobHasWork ==
    \A j \in Jobs : Active(j) =>
        \/ \E k \in Steps : ~task_terminal(tasks[<<j, k>>].status)
        \/ \E w \in Workers : HoldsJob(w, j)

\* A task whose handler runs beside its unfinished parent has overtaken a retry of
\* the parent, because the failure that is committed before its retry reads as
\* terminal.  It never runs before the parent has ended once.
EarlyStartIsRetry ==
    \A w \in Workers : InHandler(w) /\ at[w][2] > 1 =>
        LET parent == tasks[<<at[w][1], at[w][2] - 1>>]
        IN  task_terminal(parent.status) \/ parent.retry > 0

\* Every job that is created reaches a verdict.
JobsFinish == \A j \in Jobs : Exists(j) ~> jobs[j].status \in TERMINAL_JOB_STATUSES
=============================================================================
