# A TLA+ model of the efficyo backend

The backend collects the inventory and the cost of cloud accounts, derives
findings and recommendations from them, and lets people approve and execute these
recommendations. It is a FastAPI application and a few worker processes around one
Postgres database; all coordination goes through rows, row locks and commits. What
is hard in it is therefore not computation but what happens *between* two commits:
handlers work on rows they loaded earlier, commit several times on their way, and
meet each other's half-finished work.

The models share one reading of the persistence layer (`app/core/db.py`): READ
COMMITTED sessions with `autoflush=False` and `expire_on_commit=False`. A row loaded
once stays as loaded, a read takes no lock, an UPDATE carries only the columns whose
value differs from the loaded one, and an UPDATE that is flushed and not committed
locks its row. So a read and the write that depends on it are separate steps, each
commit is one step, and a process can die between any two of them.

## Inventory

| Component | State | Operations | What is hard |
|---|---|---|---|
| Sync pipeline (`app/sync`, `scripts/sync_worker.py`) | `sync_jobs`, `sync_tasks` | start, retry a task, retry a job; claim, run, reschedule, evaluate | workers, API retries, handlers that commit or roll back the worker's session, crashes |
| Legacy ingestion jobs (`ingestion_job_service`) | `ingestion_jobs` with a partial unique index | create, reap (three callers), dequeue, execute | reapers against live workers, lost outcomes |
| Approval requests (`approval_request_service`) | `approval_requests`, `approval_assignments` | submit, approve, reject, execute | concurrent decisions from stale copies |
| Recommendation outcomes (`recommendation_outcome_service`, `outcome_impact_service`) | `workflow_status` per recommendation | approve, reject, apply, verify | many writers, few checks |
| Bulk tagging (`bulk_tagging_service`) | `tagging_batches` and their rows | create, hooks of approval and rejection, execute | one commit per row, partial failure |
| Safe execution (`safe_execution_service`) | outcome, AWS | execute one recommendation | gates read before the call |
| Execution policy, eligibility, preflight | policies per scope | resolve, decide, dry run | precedence of scopes |
| Inventory (`aws_inventory_service`, `aws_extended_inventory`) | `resource_snapshots` in batches | some forty collectors, region by region | one call of hundreds fails; what counts as unknown |
| Detection and rules (`detection_service`, `detection_extended_service`, `app/rules`) | `findings` of a sync run | detect, evaluate rules, clear on retry | commits after every detector; rules replacing code |
| Recommendations (`recommendation_service`) | `recommendations` with a lifecycle state | generate, reconcile, snooze, dismiss, reactivate | identity across syncs, users acting during a generation |
| Cost data (`app/cost`, `scripts/cost_sync_daily.py`) | snapshots, fetch locks, usage rows, lock file | fetch, cache, quota | check-then-act quota, locks that live in a transaction |
| Notifications (`notification_*_service`, dispatcher) | delivery logs, inbox, policies, snoozes, destinations | dispatch, retry, snooze, read | a unique index that rolls back the caller's rows; resends |
| Digest scheduler (`workers/digest_scheduler.py`) | schedules | send what is due, mark it | send and mark are separate; edits in between |
| Access (`access_resolution_service`, `access_grant_service`, `authz`) | memberships, grants | resolve, grant | one right computed in several places |
| Authentication, context (`auth_service`, `me_service`, `context_defaults_service`) | users, sessions, defaults | invite, log in, switch, GET /me | repairs written from rows read earlier |
| Organisations, tenants, accounts | rows | create, suspend, delete | cascades that leave rows behind |
| Resource schedule script | lock file | enqueue syncs once | stale lock files |
| Copilot, summaries, trends, views | none | read | nothing changes state |

Interactions: the API creates `sync_jobs` and `ingestion_jobs`; the one worker
process takes pipeline tasks first and ingestion jobs when there is none; both run
the inventory, detection and recommendation services, and the same worker refreshes
cost data, after which recommendations are generated again. Recommendations are approved
singly or through an approval request, whose decision calls back into outcomes and
into the tagging batch that hangs on it. Notifications run on the caller's session
and commit or roll back there.

## Modules

| Module | Models |
|---|---|
| `SyncPlan` | the planner's chain of seven tasks, and its first two |
| `SyncPipeline` | jobs, tasks, API requests, workers |
| `IngestionJobs` | legacy jobs, reapers, API requests, workers |
| `Unanimity` | what an approval request promises (abstract specification) |
| `ApprovalWorkflow` | outcomes, approval requests, batches, execution; implements `Unanimity` |
| `AwsInventory` | the collectors: what a resource becomes when calls fail |
| `Detection` | the hard-coded detectors, from snapshots to findings |
| `RuleEngine` | the rule files, their loader, evaluator and engine |
| `RecommendationBuilder` | from a finding to a recommendation |
| `FindingsPipeline` | the inventory and analyzer tasks over the four modules above, with commits, crashes and retries |
| `RecommendationLifecycle` | recommendation rows over many generations, and users |
| `CostSync` | a cost sync as one transaction, its callers, the script's lock file |
| `Notifications` | dispatch, delivery log, retries, snoozes, inbox |
| `DigestWorker` | the digest schedule and its worker |
| `AccessRules` | roles, levels, visibility and defaults as operators |
| `Access` | users, sessions, members, grants, tenants, accounts, GET /me; over `AccessRules` |
| `MC...` | constants for TLC |
| `...Proofs` | theorems and their proofs |

`PROJECT.json` maps every definition to the lines it models.

### SyncPipeline

`jobs` and `tasks` are the two tables; `mem[w]` is a worker's copy of its task row,
`eval[w]` the job row it loaded for the evaluation and the one it computed, `req[c]`
an API request between its read and its commit. A worker goes through `Claim`
(flushed, not committed: the row is locked and reads queued), possibly
`HandlerCommit` (a collector or the analyzer bundle commits the shared session, so
the claim becomes visible), `HandlerSucceeds` or `HandlerFails`, `ScheduleRetry`,
`EvaluateRead` and `EvaluateCommit`. `HandlerRollback` is a handler whose inner
commit failed, `CrashRestart` a worker that died. `scheduled_at` is one bit, "still
in the future", which `DelayExpires` clears. The order of claims is the code's
(priority, then creation). The row of a task keeps what properties tell apart: its
status, `retry_count` and the delay; results, error texts, events and heartbeats are
left out. `attempts` is a history variable: how often the handler of a task was started,
which `retry_count` is meant to bound and, with lost increments, does not count.

### IngestionJobs

`status` is the table, `stale` says that `updated_at` is more than 30 minutes old.
`CreateCheck`, `AutoReap`, `Insert` and `InsertConflict` are `create_sync_job` with
both of its calls of `get_active_sync_job`; `ApiReapRead` and `ApiReapCommit` the API
startup; `ReapRead` and `ReapCommit` the worker startup, which reaps everything
active. `Dequeue` takes a row lock that is gone before `ExecuteRead`. The unique
index of migration 016 is the guard of `Insert` and `ExecuteBegin`. The sync that a
job runs is one step with an arbitrary outcome (`ExecuteFinish`), whose commit may
fail (`ExecuteRecover`), and again (`ExecuteLost`). `silent` is a history variable: the
jobs that were stale at some time.

### ApprovalWorkflow

One HTTP request is one session of one user; `pc`, `at`, `on` and the copies in
`seen` are its program counter and identity map. A handler is a chain: the reads its
guards use (`SubmitRead`, `DecisionRead`, `ExecuteRead`, `SafeExecuteCheck`, ...) and
one step per commit. `ApproveAll` commits the decision inside
`approve_recommendation`, before the batch hook, whose rows are committed one by one
(`HookRow`). `RejectFlush` holds the row lock of the request until `RejectCommit`.
`execute_batch` keeps the results of rows in the session until the next commit
(`done`, `dirty`): a row is committed as in progress, and its result with the row
after it. `Abort` ends a session anywhere: a crash, a failed commit, or a
notification that rolls the shared session back. `raced` and `applied`
are history variables: the requests that a decision was written to from an outdated
copy, and per request the rows whose tags AWS has accepted.

Abstractions: a user has one request in flight (the same user submitting twice at
once is not modelled); adjacent reads of a handler are one step; a write of
`workflow_status` that does not depend on the value loaded just before it is one step
with that load; roles and the execution policy only restrict who may take a step and
are left to later modules; `Reviewers` bounds who uses the single-recommendation
endpoints.

`Unanimity` says what remains when all of this is hidden: votes are cast once, a
request is approved only by a vote that makes it unanimous, executed only after
that, and a rejection is final. The mapping reads the decision off the assignments
rather than off the status column, because a late partial approval may overwrite a
rejected status with `partially_approved`; the decision itself stays.

### AwsInventory, Detection, RuleEngine, RecommendationBuilder, FindingsPipeline

The first four are pure: a resource is a record of what AWS would answer, a fault the
kind of call that fails and how (skippable `ClientError`, another `ClientError`, a
`BotoCoreError`). `AwsInventory` says which rows the collectors make of that, with the
code's distinction between a row that is skipped, a value that becomes `None`, a value
that becomes 0 or an empty list, and an exception that ends the inventory. `Detection`
has one operator per detector; `RuleEngine` the eight YAML files as sets of records and
the evaluator's operators over a field that may be missing; `RecommendationBuilder` the
two tables of recommendation types. Text, evidence nobody reads and amounts are left
out; thresholds, regions, caps and missing values are kept.

`FindingsPipeline` runs them as the two tasks do, one step per commit. `snapshots` are the
latest batch of every type, `captured` the types whose latest batch is of this sync, `batches`
the extended rows still to be stored, `written` and `recs` what the analyzer's session sees,
`db` what is committed. A crash puts the task back to its start under the same run id, where
`clear_run` deletes what an earlier attempt left. `NextSync` is the next job of the account,
with the account and the fault that `later` holds for it; it may come at any point. It finds
the snapshots of its predecessors: an empty list stores nothing, so a type that could not be
listed, or whose last resource is gone, is analysed from its last batch. The inputs are the
accounts, faults, broken rule files, crashes and later syncs of `Scenarios`.

### RecommendationLifecycle

A key stands for (resource, finding type, recommendation type). `gen[g]` is a
generation between its read and its commit: the findings it read, the rows as it saw
them; its commit writes the columns it changed. It is started by the analyzer, by its
retry, by a cost refresh (which sees the findings of its own run only) and by the
endpoint. Users snooze, dismiss, reactivate and act on rows at any moment.

### CostSync

`sess[p]` is the transaction of one sync: the account, how many of the three calls it
made, the lock rows it wrote (`held`), the usage rows and the snapshot it has not
committed. A row that was flushed makes another writer of it wait (`Waits`); a read
does not see it. `commit` and `rollback` are the caller's. Requests, jobs and the
script differ in who may force a refresh, in the quota per job and in the lock file.
The amounts and the three API payloads are left out; the quota arithmetic is kept.

### Notifications and DigestWorker

`disp` is the request inside `dispatch_routed`: organisation channels first
(`org_send`), then user by user (`open_user`, `user_send`, with `Fallback` to the
organisation's channel), each send an arbitrary outcome; `finish` commits. Log rows are
flushed with the send, and the unique index may refuse one, which rolls back all that
the dispatch wrote since its last commit. `_record_delivery` commits the row of an
organisation's send (`Durable` adds the rows of the transaction to those already there); a
commit that fails is rolled back and swallowed, and the dispatch goes on without the rows,
whose users are noted in `swept`. Such a failure counts as a disturbance, like a change of
settings. One dispatch runs at a time, next to any number
of workers. `work` is a pass of the worker: it loads what is due,
sends, writes the result. Ages and back-off are classes of time, not numbers.
`DigestWorker` counts time in ticks of a short week because `compute_next_run` is
about days and weeks; a pass keeps the schedule it loaded while administrators edit
it. `digests` counts what was sent for a due time and is a history variable.

### AccessRules and Access

`AccessRules` has the evaluators one by one, as the code has them (for the session's
user, for an assignee, for a tenant, for the queue), over `member`, `grants`, `tenant`
and `account`. `Access` has the operations that change these, with the cascades of the
foreign keys, invitation, temporary password, password and OIDC login, the session's
organisation and the saved defaults. GET /me is two steps, because it writes back
columns computed from rows it read at its start; every other request is one. Demo
seeding, development headers and conflicts of identity between two OIDC subjects are
left out.

## Runs

| Run | Instance | Shows |
|---|---|---|
| `sync_concurrent` | 2 workers, 1 job, 2 tasks, 1 client, 1 retry request, 1 crash, 1 rollback | `AttemptsBound`, `TaskMutex`, `CompletedSound`, `EarlyStartIsRetry` |
| `sync_full_plan` | 1 worker, the 7 planned tasks, 1 rollback, fairness | `QuiescentJobEvaluated`, `ActiveJobHasWork`, `JobsFinish` |
| `ingestion_one_worker` | 1 worker, 2 clients, 2 accounts, 2 jobs, 1 crash, 1 lost outcome, fairness | `RunningIsOwned`, `JobsSettle`, `VerdictsStand` |
| `approvals` | 2 approvers, 1 admin, 2 requests, 1 recommendation | `ApprovedSound`, `OpenHasPending`, `KeepsUnanimity` |
| `approvals_batch` | 2 approvers, 1 admin, 1 request, a batch of 2 | `RowsAuthorised`, `BatchCompletedSound`, `CompletedMeansApplied` |
| `approvals_stalled` | 2 approvers, 1 request | *violates* `PartialHasPending` |
| `findings` | 1 sync of every account of `MCScenarios`: each resource type with every value its detectors tell apart, 2 regions, 1 fault of each kind, each rule file broken, 1 crash; and a second sync after it, over databases and network resources that changed, with or without a fault | `NoDuplicateFinding`, `RetryIdempotent`, `FaultContained`, `UnknownNotReported`, `PublicDatabaseReported`, `MigrationAgrees`, `StableIdentity` |
| `recommendations` | 2 keys, 2 runs, 1 generation at a time, 3 acts of users | `OneRowPerKey`, `FullSyncListsIssues`, `DecisionsSurviveGeneration` |
| `cost` | 1 request, 1 job, 1 script, 2 accounts, 3 syncs, 2 days, 1 crash, fairness | `OneFetcher`, `AccountQuota`, `OrgQuota`, `FailSafe`, `SyncsSettle` |
| `notifications` | 1 worker, 2 providers, 2 users, 2 events, 2 retries, 1 disturbance, fairness | `AttemptBound`, `OneCopyPerChannel`, `LostReceiptIsRepeat`, `RetriesSettle` |
| `digest` | 1 worker, 2 providers, 3 schedules, 8 ticks, 2 edits, 1 crash, fairness | `DigestBound`, `DueIsServed` |
| `access` | 1 tracked user, 2 organisations, 2 tenants, 2 accounts, 3 changes | `GrantsScoped`, `EvaluatorsAgree`, `MeSettles` |

Why the bounds are enough: every race in these components is between two sessions on
one row, so two workers, two requests or two approvers reach it; the third party
(client, admin, reaper) is there in each run. Two tasks suffice for everything that
relates a task to its parent: one worker retries the parent while the other claims the
child. The full plan is run with one worker for the phases. `MaxRetries` is 1 (`TaskSpec` has 3): one retry and one
exhaustion of retries are the two cases `schedule_retry` has. Two requests on one
recommendation let a resubmission meet the rows of its predecessor; two batch rows
let an execution stop between them, and the next one share the batch with what it
left. In `ingestion_one_worker` any job may fall silent at any time while it is active, also
one whose worker is alive, so that a reaper overruns it.

In `findings` the detectors look at one resource at a time, except for databases and
their clusters, subnets and route tables, and log groups and parameter groups, which
have scenarios of their own; a value stands on each side of every threshold. What a second
sync adds is a type read from the batch of the first, so it is run where findings relate
resources of two types. Two copies
of a key are enough to see a duplicate, and a second run is the first that has something
to reconcile. In `cost` the quota of one account ends inside a sync, one account has a
snapshot and lock rows and the other neither, and three syncs let two wait for a third.
The organisation's quota ends with the first whole sync; with account quotas that never
bind, its excess is reached exactly by two syncs of the two accounts and a waiting
third. In `notifications` the second event meets the rows of the first and two retries
are the last but one and the last; the disturbance is a change of settings, a crash, or a
commit that fails.
The week of `digest` has three days so that wrapping around it, and both sides of a due
time, fit into eight ticks. In `access` rights of different users do not depend on each
other, so one user is followed and everybody else is the operator who changes things;
three changes are enough to create a thing, use it, and take it away during a GET /me.

Deadlock checking is off where the bounds on jobs and retries make the model stop;
the system itself would only be idle.

### What the violation says

`approvals_stalled`: two approvers who decide at once both leave the request partially
approved, with nobody left to act. It needs nothing but what is deployed today.

### Known deviations

Cases the models contain, which the passing runs exclude by their bounds or which the
properties exempt by name. The first group are properties that fail once the bound is
lifted; their definitions are in the modules.

* `retry_job` (`sync/service.py:153`) puts the job back into collecting even when it
  re-queued nothing. No worker evaluates the job again, so it stays active and refuses
  later starts. `ActiveJobHasWork` fails with one worker and `MaxApiRetries = 1`; its run
  has no retry request.
* The failure of a task is committed before its retry is scheduled
  (`sync_worker.py:101`), and a failed parent counts as terminal; a second worker can claim
  the child in between, which then runs beside the retry of its parent (the deployment
  templates start one worker, a docstring invites more). `EarlyStartIsRetry` says that this
  is the only way for a child to start early.
* `schedule_retry` checks and increments a copy (`queue/database.py:33`). A retry request
  and a worker, or two workers, may hold one task, and an increment is lost: `retry_count`
  stays within `max_retries` and the handler runs more often than that. `AttemptsBound`
  bounds the runs themselves.
* The dequeue of an ingestion job is not a claim (`ingestion_job_service.py:268`).
  `NoDoubleExecution` fails with two workers.
* A job that runs longer than thirty minutes is failed by a create request or an API start
  while its worker is alive, and the worker later writes its own outcome over that.
  `VerdictsStand` says that a verdict changes in no other way.
* An account with log groups and without parameter groups ends the analysis with an
  `UnboundLocalError` (`detection_extended_service.py:1196`), and where there are parameter
  groups the flag of the last one is reported on the log groups.
  `AnalysisReachesRecommendations` fails in the scenario `LogGroupOnly`.
* A cost refresh (`ingestion_job_service.py:207-210`), like an endpoint that runs a single
  detector, generates from the findings of its own run and resolves recommendations of the
  other resource types whose issue persists. `ResolvedMeansGone` fails;
  `FullSyncListsIssues` says that the next full sync lists them again.
* The cluster rows of an earlier sync stay the latest of their type when a sync cannot or
  does not list any cluster (`detection_service.py:136-153`). If the cluster was not public then, its
  row suppresses the finding of a member that is public now (`:219-228`).
  `PublicDatabaseReported` exempts exactly that.
* The dedupe key of a delivery holds no time (`notification_dispatcher.py:298`) and the
  index on it is unique, so the second event of a kind fails its flush and the rollback
  (`:360`) takes inbox rows with it. So does a failing commit in `_record_delivery`
  (`:382-386`), which is swallowed. `InboxReceipt` fails in both cases;
  `LostReceiptIsRepeat` says that there is no third.
* A digest is sent twice when a pass dies between the send and `mark_run`, or when two
  passes overlap, although the scheduler's docstring calls it safe. `DigestOnce` fails;
  `DigestBound` is what holds with one worker.

* Nothing but a query keeps two submissions for one recommendation apart, and nothing two
  executions of one batch: with two admins a recommendation gets two open requests, and
  `BatchCompletedSound` fails. `CompletedMeansApplied` holds for any number.
* Two passes of the digest worker that overlap load and retry the same log rows:
  `AttemptBound` fails with two workers.
* Of two generations that overlap, the later commit may resolve or double what the earlier
  one found: `FullSyncListsIssues` and `OneRowPerKey` are for one generator.

The second group are exemptions and gaps a reader should know.

* Approvals: `OpenHasPending` says nothing of requests on which decisions overlapped
  (`raced`); what happens to those is what `approvals_stalled` shows.
* Findings, over several syncs: `UnknownNotReported` is about syncs that read no batch older
  than themselves; what an older batch reports may have changed since, or be gone.
  An error that the cost detectors swallow (`detection_service.py:1074-1078`, `1118-1122`) is
  read as an amount of 0.
* Findings: two finding types are lost by the rules that replaced their detectors
  (`NotCarriedOver`); a failed call that reads as "none" makes a finding of the types in
  `FailureReadsAsProblem`; a failure while listing target groups, parameter groups, IAM or
  S3 tags can end the whole inventory; an empty batch leaves the older snapshots the
  latest; resources of a region that was skipped look gone, so their recommendations are
  resolved; the confidence of `security_group_overly_permissive` depends on whether the
  rule or the table made it.
* Recommendations: there is no unique index on the key, so two generations at once
  insert two rows; a dismissal between a generation's read and its commit may be
  overwritten; a retry of the analyzer deletes the rows of its run with the decisions
  and outcomes on them; the endpoint may anchor on a run that is still being detected.
* Cost: the "fetch in progress" error cannot arise between two sessions, since a held
  lock is never visible; what keeps fetches apart is the row lock. A rollback erases the
  usage rows of calls that were paid for. Two first syncs of an account meet in the
  insert of the lock row, and the later one ends in an error. The lock file of a dead
  script stops every later script until somebody removes it.
* Notifications: a failed direct send or fallback is never retried, a retry ignores
  snoozes, the dispatcher ignores the snoozes of single users, and a medium-priority
  `top_actions` is routed to nobody. A digest that failed is not retried.
* Access: a GET /me that another request disturbs may leave defaults of the other
  organisation until the next one; a legacy `admin` membership with viewer grants may
  decide on requests it may not list (exempt in `QueueAgrees`); deleting an organisation
  leaves its tenants without one, where a docstring says they go with it; grants of a
  removed member stay; an invited user who signs in with OIDC first stays pending; the
  docstring of `can_submit_multi_approval_for_context` says "approver or admin" and its code
  asks for an admin (`access_resolution_service.py:306-323`).

## Fairness

`JobsFinish` assumes weak fairness of each worker's step (the loop of
`sync_worker.main` never ends and every handler returns or raises), of time
(`DelayExpires`) and of an API request that passed its check. It is stated without
crashes and retry requests: nothing in the code recovers a task left running by a dead
worker.

`JobsSettle` assumes the same for the worker and for requests, and that somebody keeps
asking for a sync of each account (strong fairness of `CreateCheck`), because between
two restarts a job whose outcome was never persisted is reaped by the next request
only. That is a condition on the users, not something the code guarantees: the
property reads "whoever asks again is not refused forever". The schedule script does
not help, it enqueues pipeline jobs. It also takes for granted that the worker finds time for
ingestion jobs, which it looks at only when no pipeline task is due.

`SyncsSettle` assumes that a running cost sync goes on (weak fairness of each process's
step): the AWS client has timeouts and a wait for a row lock ends with the holder's
transaction. `RetriesSettle` assumes it of the dispatch and of the worker that cron
starts every minute, and that back-off times pass. `DueIsServed` assumes the worker only.
None of them assumes that a send or a call succeeds, that users act, or that a process
that died is followed by another, except for cron's next start of the worker.

## Proofs

All theorems hold for every number of jobs, tasks, workers, clients, users, requests,
recommendations, accounts, organisations, tenants, providers and events, and for every
bound, unless a hypothesis says otherwise; the assumptions are the named ASSUMEs of the
modules (finite sets of numbered jobs and requests, approvers distinct from admins, some
account, some recommendation, some process and finitely many, events of the four types
the service routes, a home region among the account's regions, resources of the types
that are collected, `NULL` being no value of anything else). Hypotheses on a theorem are
those under which its run checks the property; without them it fails, as listed under
known deviations.

* `SyncPipelineProofs`: `TypeCorrect`, `AttemptsBounded`, `EarlyStartsAreRetries`,
  `TaskMutualExclusion`, `CompletedIsSound`, for any number of workers.

  `AttemptsBounded` cannot argue with `retry_count`, which loses increments. It counts the
  runs a task may still be given: what is left of `max_retries` in the row while it is
  queued, in the copy of every worker that holds it, and in the copy of every retry
  request for it, together with the runs already given (`Spent`). Claiming, failing,
  rolling back and retrying only move these or use them up; a request, a rollback and a
  crash add a fixed number (`SpentBound`, against `Budget`). `RetryBound` and `CopiesBound`,
  which bound the counters, are needed for that number. Workers and clients have to be
  finitely many (`FiniteActors`), because the copies are counted.

  `EarlyStartsAreRetries` needs that an open claim still holds the row it locked
  (`ClaimsHold`): then a task that has ended once reads as terminal, or as queued or
  running again, ever after (`EndedStays`), and only `Claim` brings a task into its
  handler (`EntersHandler`), which asks for a terminal parent.

  The other two need, while nothing has disturbed the rows, that
  the row a worker holds agrees with its copy at every point of its loop
  (`RowsAgree`), that workers that will still write hold different tasks
  (`WritersDistinct`), and that a status already computed and not yet written is still
  justified.

  For one worker that does not die, without retry requests, and a plan with a collector
  (`Lone`): `JobsEvaluated`, by induction together
  with `InHand` (what the worker loaded and computed is still so when it writes), and
  `ActiveJobsProgress`, which follows from it because an active verdict means an open
  task. Both need that everything a worker or a request works on exists (`Existing`), so that
  the insert of a new job cannot touch a chain being executed. Nothing in the code evaluates
  a job again after a crash, so the hypothesis is needed.
* `IngestionJobsProofs`: `TypeCorrect`, and for one worker `SingleWorkerOwns` and
  `VerdictsStandHolds`. The latter needs that a row which a reaper loaded as stale is of a
  job that has been silent, that the startup reaper loads no row with a verdict, and that
  the worker's copy is of a row that was queued or running (`VerdictInv`).
* `ApprovalWorkflowProofs`: `TypeCorrect`, `ApprovalIsUnanimous`, `BatchesAuthorised`,
  `Refinement` and `CompletedIsApplied`. The invariant adds what a session in flight may rely on
  (`SessionOK`): an approver that is about to decide still has its assignment pending,
  and every assignment its copy shows as absent or approved still is (`CopyOK`). Hence
  nobody else can have approved the request meanwhile, and a vote that looks unanimous
  in the copy is unanimous in the table. `Monotone` is the other half: what sessions
  rely on is never taken back by a step of somebody else. The refinement is proved step
  by step from the same invariant.

  `OpenRequestsWait` adds that a decision in flight was loaded from an open request
  (`SeenOpen`). `CompletedIsApplied` holds for any number of admins, executions and hooks
  that overlap: a row that says completed was accepted by AWS (`RowsApplied`), a session that
  executes has had every row it has passed either accepted or counted as failed, and
  nobody adds rows to a batch that exists (`AppliedInv`). `CompletedBatches` is for one
  admin (`OneAdmin`: submissions and executions do not overlap): of an execution
  in flight the rows it has passed and flushed are settled, and a batch that still
  says completed did so when it was loaded (`ExecutionOK`); a session at rest has nothing
  left to write, and one that rejects has its rejection in the table (`BatchInv`).
* `CostSyncProofs`: `OneFetcherHolds` and `FailSafeHolds`. A sync takes the lock rows of an
  account in one order, so whoever holds any of them holds the first (`HoldsFirst`), and
  the one who wants that waits. A snapshot is stored only by a sync that wrote all three
  rows (`StoresAll`), and rows are never removed, so where there is a snapshot the rows
  exist (`RowsStay`) when a later sync reads them (`SawRow`): its write is an update, which
  no unique index refuses, and it need not roll back. `SessionStep` proves the
  invariant for any step that replaces one session by one that fits; each action then
  shows that its session does.

  `AccountQuotaHolds` rests on these. `Debt` is what a sync adds to the usage of a day
  without asking again: its uncommitted calls, and one if the quota is behind it. Below
  the quota a sync owes no more than is left of it; at the quota it owes at most one call;
  and the usage plus the number of syncs that owe something never passes the quota by
  more than one per other process (`QuotaInv`). Only a commit raises the usage, it pays
  its own debt, and by `OneFetcher` the other syncs of the account have made no call yet.

  `OrgQuotaHolds` adds the debts of all processes. Nobody sees the uncommitted calls of a
  sync of another account, so below the organisation's quota nothing bounds their
  sum. What the invariant keeps is that some process, and some account with all its
  processes, are not over what is left (`Room`): each process that is has lock rows of an
  account of its own, and a process asks again before every call. The commit that
  reaches the quota therefore finds three calls owed by each of the other syncs that hold
  lock rows, which are fewer than the processes and than the accounts, and one by every
  process that waits (`RoomBounds`); from there on nothing is admitted, and the total and
  all that is owed stay within the bound (`OrgDay`). Sums are taken with `SumFunction`, a
  recursion on sets; `SumCounts` shows it equal to the cardinality of a set with f[x]
  elements for each x, after which the theorems about finite sets do the arithmetic.
* `AccessProofs`: `GrantsStayScoped`. The invariant needs only the types of the tables and
  the property itself, but every operation that creates, changes or deletes an
  organisation, a tenant or an account has to be shown to take the grants with it.
  `AccessIsOneAnswer` shows the evaluators equal in every state where grants are scoped
  and the session's organisation is one. `MeRepairs` is an action property: the two
  repairs of GET /me settle whatever defaults and session they start from.
* `RecommendationProofs`, about `RecommendationLifecycle`: `DecisionsSurvive` for any number of generations, which
  needs the types of rows and sessions and what an UPDATE of changed columns does
  (`WriteIs`, `UpsertIs`); and for one generation at a time (`OneGenerator`) `RowsAreUnique`
  and `FullSyncsListIssues`. The first is inductive together with `KeysKnown`: between its
  read and its commit a generation knows every key that has a row, because nobody else
  inserts. The second adds that a row it has read is not resolved by a generation
  in the meantime (`ReadIsCurrent`), so that a column it leaves out need not be written,
  and that a full sync is about all the snapshots, whatever a partial generation or an
  attempt that died did before it (`FullRun`).
* `RecommendationProofs`, about `FindingsPipeline`: all seven invariants, for every account,
  failing call, broken rule file and number of crashes, and for every sequence of syncs of
  accounts that change in between. Of the batches that earlier syncs left only what the
  invariants name is known.

  `RetryIdempotentHolds`: `ToNat`, ..., `ToRecommend` are the findings of an undisturbed
  analysis up to each stage, as functions of the snapshots; at every stage the session
  holds exactly those (`StageInv`), whatever an earlier attempt committed, because
  `clear_run` comes first and no stage of the analyzer changes a snapshot.
  `NoDuplicateFindingHolds` needs that the rows of a run are of one attempt (`OnceInv`)
  and that in one analysis a resource and a type tell a finding (`SubjectsOnce`), for
  which every detector and every rule that may be loaded is compared with the others.

  `FaultContainedHolds`: for an error the inventory survives, each type that this sync
  has captured covers every resource outside the failing type and region, and while the
  extended batches are stored one by one a type is covered or waits in a batch
  (`CoverInv`). `PublicDatabaseReportedHolds` needs that, once the sync has captured
  instances and clusters, a cluster row with the flag has the flag of every public member
  stored with it (`PublicInv`): the instance's own finding is left out only where the cluster's
  says the same. Where the sync has captured no cluster the row is an earlier one's; only
  when it says that the cluster was not public then is the finding lost.

  `MigrationAgreesHolds` and `UnknownNotReportedHolds` rest on `CollectedInv`: a row that the sync
  has captured is what its collector makes of a resource of the account with some of the calls failing.
  For the first, each rule is shown to give the verdicts of its detector on such rows
  (`Agrees`, one lemma per rule file), missing values included. For the second, a row
  tells no more than the row the same resource has when all calls are answered
  (`Tells`: equal, or None, or the code's default in the listed fields), and each detector
  and rule reports on the former only what it reports on the latter, or a type of
  `FailureReadsAsProblem` (`Backed`). `StableIdentityHolds`: both advice tables and every
  rule agree on the recommendation type of a finding type (`AdviceFor`, `RuleOk`), so
  the key does not depend on which rule files were loaded.

  `ScenariosAssumption` says that resources have one of the collected types and a region, that
  AWS tells of every instance whether it is public and of every distribution whether it is
  enabled (both fields are always in the response) and that calls fail in one of the
  three ways the collectors tell apart. `TagFindingAssumption` contains no constant: it says
  that the names `<type>_missing_required_tags` differ from each other and from the other
  finding types, which is a computation on strings that TLC does and the provers cannot.
* `NotificationsProofs`: `OneMessagePerChannel`, `ReceiptsLostOnlyToRepeats`, and
  `AttemptsAreBounded` for one worker. `Good` relates the session of a dispatch, the
  durable logs and the inbox: channels still to be served have had no message (`Unsent`),
  rows are logged only under channels that are done with (`Logged`), so a flush of the
  event itself never meets its own row; rows held back stand in nobody's way (`Held`); an
  inbox row that was made is there, or joins at the next commit, or was swept away by a
  commit that failed, or an earlier event of the kind has left a row (`Receipts`). A step
  of the dispatch is a sequence of four operations on the session, with a lemma each. The
  bound on attempts counts the retries, the crashes and the send under way (`Trials`) and
  needs that a row the worker loaded is as it was loaded (`Loaded`), which a second worker
  would break.
* `DigestWorkerProofs`: `DigestsBounded` for one worker. The invariant says what has been
  sent for a due time that may still be sent for: nothing for a time to come
  (`FutureUnsent`), and no more than the number of crashes for the time of the schedule
  (`NextFresh`) and for the providers a pass has left (`LeftFresh`). That
  `compute_next_run` is later than now (`NextIsLater`) makes every new due time fresh.

Only model-checked:

* the liveness properties `JobsFinish`, `JobsSettle`, `SyncsSettle`, `RetriesSettle` and
  `DueIsServed`, because fairness is outside what the prover handles here;
* the refutation of the run that expects a violation, which is a counterexample of TLC's.

Every invariant and every action property of the passing runs is stated by a theorem,
and so is the refinement.

## Plan

1. Execution policy and eligibility: precedence of scopes as operators and the preflight
   gate, composed with `ApprovalWorkflow`.
2. One approver with two requests in flight, in `ApprovalWorkflow`.
3. The schedule script for resources, on top of `SyncPipeline`.

## Not modelled

AWS calls other than by their outcome, text generation, scoring, amounts of money,
read-only views, schemas and migrations (except for what they guarantee), the reset
tools, OIDC identity conflicts, demo data. `PROJECT.json` lists every component with its
status and the hazards no property covers yet.
