---------------------------- MODULE IngestionJobs ----------------------------
(***************************************************************************)
(* Legacy sync jobs: ingestion_jobs rows created by API requests, executed  *)
(* by the sync worker when it has no pipeline task, and reaped by three     *)
(* different readers: the worker's startup (everything active), the API's   *)
(* startup and a create request (what has not been touched for 30 minutes). *)
(*                                                                         *)
(* Every reader works on rows it loaded in an earlier statement, so each    *)
(* read and the write that follows it are separate steps.  A partial unique *)
(* index (alembic 016) allows one queued or running row per account; a      *)
(* commit that would break it raises IntegrityError.                        *)
(***************************************************************************)
EXTENDS Integers, FiniteSets

CONSTANTS
    Jobs,           \* 1..n, in the order of created_at
    Accounts,       \* (tenant, cloud account) scopes
    Workers,        \* sync worker processes
    Clients,        \* API requests and API process startups
    MaxCrashes,     \* bound on worker crashes
    MaxLost         \* bound on executions whose outcome cannot be persisted

ASSUME JobsAssumption == Jobs \subseteq Nat \ {0} /\ IsFiniteSet(Jobs)
ASSUME AccountsAssumption == Accounts # {}
ASSUME BoundsAssumption == MaxCrashes \in Nat /\ MaxLost \in Nat

VARIABLES
    status,     \* ingestion_jobs.status
    account,    \* its tenant and cloud account
    stale,      \* updated_at is older than _ORPHAN_THRESHOLD_MINUTES
    pc,         \* where each worker is
    job,        \* the job it picked up, or NoJob
    orphans,    \* the rows its startup reaper has loaded
    req,        \* the API requests in flight
    silent,     \* the jobs that were stale at some time; nothing reads it
    crashes, lost

vars == <<status, account, stale, pc, job, orphans, req, silent, crashes, lost>>

NoJob == 0
ActiveStatuses == {"queued", "running"}
Statuses == {"absent", "completed", "failed"} \cup ActiveStatuses
WorkerPCs == {"starting", "reaping", "idle", "picked", "begin", "exec"}

NoReq == [op |-> "none"]
Requests ==
    {NoReq} \cup
    [op : {"insert"}, account : Accounts] \cup
    [op : {"autoreap"}, account : Accounts, job : Jobs, again : BOOLEAN] \cup
    [op : {"reap"}, jobs : SUBSET Jobs]

Active(j) == status[j] \in ActiveStatuses
ActiveIn(a) == {j \in Jobs : Active(j) /\ account[j] = a}

Init ==
    /\ status = [j \in Jobs |-> "absent"]
    /\ account = [j \in Jobs |-> CHOOSE a \in Accounts : TRUE]
    /\ stale = [j \in Jobs |-> FALSE]
    /\ pc = [w \in Workers |-> "starting"]
    /\ job = [w \in Workers |-> NoJob]
    /\ orphans = [w \in Workers |-> {}]
    /\ req = [c \in Clients |-> NoReq]
    /\ silent = {} /\ crashes = 0 /\ lost = 0

\* An UPDATE of the status sets updated_at.
SetStatus(J, s) ==
    /\ status' = [j \in Jobs |-> IF j \in J THEN s ELSE status[j]]
    /\ stale' = [j \in Jobs |-> stale[j] /\ j \notin J]

\* Thirty minutes pass without an update; a running job sends no heartbeat.
GrowsStale(j) ==
    /\ Active(j) /\ ~stale[j]
    /\ stale' = [stale EXCEPT ![j] = TRUE]
    /\ silent' = silent \cup {j}
    /\ UNCHANGED <<status, account, pc, job, orphans, req, crashes, lost>>

-----------------------------------------------------------------------------
(* API requests *)

\* A row is left for one more insert, besides those already under way (the bound
\* that Jobs puts on the number of jobs).
RowLeft(c) ==
    Cardinality({j \in Jobs : status[j] = "absent"}) >
        Cardinality({d \in Clients \ {c} : req[d].op = "insert"})

(* Operators named Mutant... are plausible slips in the definition that follows *)
(* them; nothing uses them.                                                   *)
MutantCreateCheck(c, a) ==
    /\ req[c] = NoReq
    /\ ActiveIn(a) = {} /\ RowLeft(c)
    /\ req' = [req EXCEPT ![c] = [op |-> "insert", account |-> a]]
    /\ UNCHANGED <<status, account, stale, pc, job, orphans, silent, crashes, lost>>

\* create_sync_job, the first get_active_sync_job: no active job, or a stale one to
\* reap.  With a fresh one the request is refused and nothing changes.
CreateCheck(c, a) ==
    /\ req[c] = NoReq
    /\ \/ /\ ActiveIn(a) = {} /\ RowLeft(c)
          /\ req' = [req EXCEPT ![c] = [op |-> "insert", account |-> a]]
       \/ \E j \in ActiveIn(a) :
            /\ \A i \in ActiveIn(a) : i <= j
            /\ stale[j]
            /\ req' = [req EXCEPT ![c] =
                   [op |-> "autoreap", account |-> a, job |-> j, again |-> FALSE]]
    /\ UNCHANGED <<status, account, stale, pc, job, orphans, silent, crashes, lost>>

\* get_active_sync_job fails the stale row it loaded, whatever that row says now.
\* The first time the request goes on to insert; after an IntegrityError it raises.
AutoReap(c) ==
    /\ req[c].op = "autoreap"
    /\ SetStatus({req[c].job}, "failed")
    /\ req' = [req EXCEPT ![c] =
           IF req[c].again \/ ~RowLeft(c) THEN NoReq
           ELSE [op |-> "insert", account |-> req[c].account]]
    /\ UNCHANGED <<account, pc, job, orphans, silent, crashes, lost>>

\* The INSERT and its commit.
Insert(c) ==
    /\ req[c].op = "insert"
    /\ ActiveIn(req[c].account) = {}
    /\ \E j \in Jobs :
        /\ status[j] = "absent" /\ \A i \in Jobs : i < j => status[i] # "absent"
        /\ SetStatus({j}, "queued")
        /\ account' = [account EXCEPT ![j] = req[c].account]
    /\ req' = [req EXCEPT ![c] = NoReq]
    /\ UNCHANGED <<pc, job, orphans, silent, crashes, lost>>

\* IntegrityError: get_active_sync_job again, which may reap; then the request
\* raises in every case.
InsertConflict(c) ==
    /\ req[c].op = "insert"
    /\ \E j \in ActiveIn(req[c].account) :
        req' = [req EXCEPT ![c] =
            IF stale[j] THEN [op |-> "autoreap", account |-> @.account, job |-> j, again |-> TRUE]
            ELSE NoReq]
    /\ UNCHANGED <<status, account, stale, pc, job, orphans, silent, crashes, lost>>

MutantApiReapRead(c) ==
    /\ req[c] = NoReq
    /\ \E J \in SUBSET Jobs :
        /\ J = {j \in Jobs : Active(j)} /\ J # {}
        /\ req' = [req EXCEPT ![c] = [op |-> "reap", jobs |-> J]]
    /\ UNCHANGED <<status, account, stale, pc, job, orphans, silent, crashes, lost>>

\* API startup: reap_orphaned_jobs with the age test, read then write.
ApiReapRead(c) ==
    /\ req[c] = NoReq
    /\ \E J \in SUBSET Jobs :
        /\ J = {j \in Jobs : Active(j) /\ stale[j]} /\ J # {}
        /\ req' = [req EXCEPT ![c] = [op |-> "reap", jobs |-> J]]
    /\ UNCHANGED <<status, account, stale, pc, job, orphans, silent, crashes, lost>>

ApiReapCommit(c) ==
    /\ req[c].op = "reap"
    /\ SetStatus(req[c].jobs, "failed")
    /\ req' = [req EXCEPT ![c] = NoReq]
    /\ UNCHANGED <<account, pc, job, orphans, silent, crashes, lost>>

-----------------------------------------------------------------------------
(* The worker *)

\* Startup: reap_orphaned_jobs(unconditional=True), read then write.
ReapRead(w) ==
    /\ pc[w] = "starting"
    /\ orphans' = [orphans EXCEPT ![w] = {j \in Jobs : Active(j)}]
    /\ pc' = [pc EXCEPT ![w] = "reaping"]
    /\ UNCHANGED <<status, account, stale, job, req, silent, crashes, lost>>

MutantReapCommit(w) ==
    /\ pc[w] = "reaping"
    /\ SetStatus({j \in orphans[w] : status[j] = "queued"}, "failed")
    /\ orphans' = [orphans EXCEPT ![w] = {}]
    /\ pc' = [pc EXCEPT ![w] = "idle"]
    /\ UNCHANGED <<account, job, req, silent, crashes, lost>>

ReapCommit(w) ==
    /\ pc[w] = "reaping"
    /\ SetStatus(orphans[w], "failed")
    /\ orphans' = [orphans EXCEPT ![w] = {}]
    /\ pc' = [pc EXCEPT ![w] = "idle"]
    /\ UNCHANGED <<account, job, req, silent, crashes, lost>>

\* _dequeue_ingestion_job: the oldest queued row.  Its lock is released when the
\* session is closed, before execute_sync_job opens its own.
Dequeue(w) ==
    /\ pc[w] = "idle"
    /\ \E j \in Jobs :
        /\ status[j] = "queued" /\ \A i \in Jobs : status[i] = "queued" => j <= i
        /\ job' = [job EXCEPT ![w] = j]
    /\ pc' = [pc EXCEPT ![w] = "picked"]
    /\ UNCHANGED <<status, account, stale, orphans, req, silent, crashes, lost>>

Leave(w) ==
    /\ pc' = [pc EXCEPT ![w] = "idle"]
    /\ job' = [job EXCEPT ![w] = NoJob]

\* execute_sync_job reads the row and returns unless it is queued.
ExecuteRead(w) ==
    /\ pc[w] = "picked"
    /\ IF status[job[w]] = "queued"
       THEN pc' = [pc EXCEPT ![w] = "begin"] /\ UNCHANGED job
       ELSE Leave(w)
    /\ UNCHANGED <<status, account, stale, orphans, req, silent, crashes, lost>>

\* The commit of running, from the row read before: a row that was reaped in
\* between is active again ...
ExecuteBegin(w) ==
    /\ pc[w] = "begin"
    /\ ActiveIn(account[job[w]]) \subseteq {job[w]}
    /\ SetStatus({job[w]}, "running")
    /\ pc' = [pc EXCEPT ![w] = "exec"]
    /\ UNCHANGED <<account, job, orphans, req, silent, crashes, lost>>

\* ... unless another job took its place: IntegrityError, and
\* _mark_job_terminal_failed leaves a row that is not active alone.
ExecuteBeginConflict(w) ==
    /\ pc[w] = "begin"
    /\ ~(ActiveIn(account[job[w]]) \subseteq {job[w]})
    /\ Leave(w)
    /\ UNCHANGED <<status, account, stale, orphans, req, silent, crashes, lost>>

\* The pipeline returned or raised; the outcome is written over whatever the row
\* says by then.
ExecuteFinish(w, outcome) ==
    /\ pc[w] = "exec"
    /\ SetStatus({job[w]}, outcome)
    /\ Leave(w)
    /\ UNCHANGED <<account, orphans, req, silent, crashes, lost>>

\* The commit of the outcome failed: _mark_job_terminal_failed, only if the row is
\* still active.
ExecuteRecover(w) ==
    /\ pc[w] = "exec"
    /\ SetStatus({job[w]} \cap {j \in Jobs : Active(j)}, "failed")
    /\ Leave(w)
    /\ UNCHANGED <<account, orphans, req, silent, crashes, lost>>

\* That failed too: logged, and the row stays as it is.
ExecuteLost(w) ==
    /\ pc[w] = "exec" /\ lost < MaxLost
    /\ lost' = lost + 1
    /\ Leave(w)
    /\ UNCHANGED <<status, account, stale, orphans, req, silent, crashes>>

\* The process dies and the container restarts it.
Crash(w) ==
    /\ pc[w] # "starting" /\ crashes < MaxCrashes
    /\ crashes' = crashes + 1
    /\ pc' = [pc EXCEPT ![w] = "starting"]
    /\ job' = [job EXCEPT ![w] = NoJob]
    /\ orphans' = [orphans EXCEPT ![w] = {}]
    /\ UNCHANGED <<status, account, stale, req, silent, lost>>

WorkerStep(w) ==
    \/ ReapRead(w) \/ ReapCommit(w) \/ Dequeue(w) \/ ExecuteRead(w) \/ ExecuteBegin(w)
    \/ ExecuteBeginConflict(w)
    \/ \E outcome \in {"completed", "failed"} : ExecuteFinish(w, outcome)
    \/ ExecuteRecover(w) \/ ExecuteLost(w)

ClientStep(c) ==
    \/ \E a \in Accounts : CreateCheck(c, a)
    \/ AutoReap(c) \/ Insert(c) \/ InsertConflict(c)

Next ==
    \/ \E c \in Clients : ClientStep(c)
    \/ \E c \in Clients : ApiReapRead(c) \/ ApiReapCommit(c)
    \/ \E w \in Workers : WorkerStep(w)
    \/ \E w \in Workers : Crash(w)
    \/ \E j \in Jobs : GrowsStale(j)

Spec == Init /\ [][Next]_vars

\* The worker loop goes on and the pipeline of a job ends; time passes; somebody
\* keeps asking for a sync of every account, and requests end.
Fairness ==
    /\ \A w \in Workers : WF_vars(WorkerStep(w))
    /\ \A j \in Jobs : WF_vars(GrowsStale(j))
    /\ \A c \in Clients, a \in Accounts : SF_vars(CreateCheck(c, a))
    /\ \A c \in Clients : WF_vars(AutoReap(c) \/ Insert(c) \/ InsertConflict(c) \/ ApiReapCommit(c))

FairSpec == Spec /\ Fairness

-----------------------------------------------------------------------------
(* Properties *)

\* Types of the rows, the workers and the requests in flight.
TypeOK ==
    /\ status \in [Jobs -> Statuses]
    /\ account \in [Jobs -> Accounts]
    /\ stale \in [Jobs -> BOOLEAN]
    /\ pc \in [Workers -> WorkerPCs]
    /\ job \in [Workers -> Jobs \cup {NoJob}]
    /\ \A w \in Workers : pc[w] \in {"picked", "begin", "exec"} => job[w] \in Jobs
    /\ orphans \in [Workers -> SUBSET Jobs]
    /\ req \in [Clients -> Requests]
    /\ silent \subseteq Jobs
    /\ crashes \in Nat /\ lost \in Nat

\* With one worker, the verdict on a job changes afterwards only if the job was silent
\* for thirty minutes: a worker that was overrun by one of the two reapers with the
\* age test writes its own outcome over theirs, one of them writes failed over an
\* outcome from a row it loaded before, and a job reaped while it waited is started
\* all the same.  The reaper of the worker's own startup never does any of this.
VerdictsStand ==
    [][\A j \in Jobs : status[j] \in {"completed", "failed"} /\ status'[j] # status[j]
                           => j \in silent]_vars

\* With one worker, a row that says running is being executed, or the restarted
\* worker is going to reap it.
RunningIsOwned ==
    lost = 0 => \A j \in Jobs : status[j] = "running" => \E w \in Workers :
        \/ pc[w] = "exec" /\ job[w] = j
        \/ pc[w] = "starting"
        \/ pc[w] = "reaping" /\ j \in orphans[w]

\* "Only jobs created as queued should run; avoids double execution."
NoDoubleExecution ==
    \A v, w \in Workers : pc[v] = "exec" /\ pc[w] = "exec" /\ job[v] = job[w] => v = w

\* No job blocks its account forever: across worker crashes and outcomes that were
\* never persisted, an active job ends or is reaped, given that syncs keep being
\* requested.
JobsSettle == \A j \in Jobs : Active(j) ~> ~Active(j)
=============================================================================
