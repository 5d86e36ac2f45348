--------------------------- MODULE ApprovalWorkflow ---------------------------
(***************************************************************************)
(* Approval and execution of recommendations: the workflow status of a      *)
(* recommendation (recommendation_outcome_service), multi-approver approval *)
(* requests (approval_request_service), tagging batches that hang on a      *)
(* request (bulk_tagging_service) and guarded execution                     *)
(* (safe_execution_service).                                               *)
(*                                                                         *)
(* One HTTP request is one session.  It works on the rows it loaded         *)
(* (expire_on_commit=False, no row locks on reads) and commits several      *)
(* times on its way, so a handler is a chain of steps: the reads that its   *)
(* guards use, then one step per commit.  An UPDATE carries only columns    *)
(* whose value differs from the loaded one.                                *)
(*                                                                         *)
(* A write of workflow_status that does not depend on the value loaded just *)
(* before it (approve_recommendation, mark_recommendation_applied) is one   *)
(* step with that load.                                                    *)
(***************************************************************************)
EXTENDS Integers, FiniteSets

CONSTANTS
    Requests,       \* 1..n, in the order of created_at
    Recs,           \* recommendations
    Approvers,      \* users that may be assigned; each has one request in flight
    Admins,         \* users that submit and execute; likewise
    Reviewers       \* those of either that use the single-recommendation endpoints

ASSUME RequestsAssumption == Requests \subseteq Nat \ {0} /\ IsFiniteSet(Requests)
ASSUME UsersAssumption == Approvers \cap Admins = {} /\ Reviewers \subseteq Approvers \cup Admins
ASSUME RecsAssumption == Recs # {}

VARIABLES
    status,     \* approval_requests.status
    rec,        \* approval_requests.recommendation_id
    assigned,   \* approval_assignments.status, "none" where there is no row
    batch,      \* tagging_batches.status of the request's batch
    rows,       \* tagging_batch_resources.execution_status, per recommendation
    ws,         \* recommendation_outcomes.workflow_status
    pc,         \* where each user's session is
    at,         \* the approval request it works on
    on,         \* the recommendation it works on
    seen,       \* its copies of the request, the assignments, the outcome and the batch
    plan,       \* the approvers and batch rows it submits
    todo,       \* the batch rows it has still to go through
    done,       \* what it made of the batch rows it went through ...
    dirty,      \* ... and which of these are not flushed yet
    raced,      \* requests that a decision was written to from an outdated copy
    applied     \* per request, the rows whose tags AWS has accepted; nothing reads it

vars == <<status, rec, assigned, batch, rows, ws, pc, at, on, seen, plan, todo, done, dirty, raced, applied>>
db == <<status, rec, assigned, batch, rows, ws>>
session == <<pc, at, on, seen, plan, todo, done, dirty>>

Users == Approvers \cup Admins
NoRequest == 0
SomeRec == CHOOSE x \in Recs : TRUE
OPEN_STATUSES == {"submitted", "partially_approved"}
Statuses == {"absent", "approved", "rejected", "executed"} \cup OPEN_STATUSES
AssignmentStatuses == {"none", "pending", "approved", "rejected"}
BatchStatuses == {"none", "pending", "approved", "rejected", "in_progress", "completed", "failed"}
RowStatuses == {"none", "pending_approval", "approved", "blocked", "in_progress",
                "completed", "failed"}
WorkflowStatuses == {"none", "suggested", "approved", "rejected", "applied", "verified"}
PCs == {"idle", "insert", "batch", "approving", "hook", "hook_rows", "rejecting", "reject_outcome",
        "reject_hook", "rows", "apply", "finish", "direct_approve", "direct_reject",
        "execute"}

NoAssignments == [u \in Approvers |-> "none"]
NoRows == [x \in Recs |-> "none"]
Copies == [status : Statuses, assigned : [Approvers -> AssignmentStatuses],
           ws : WorkflowStatuses, batch : BatchStatuses, rows : [Recs -> RowStatuses]]
NoCopy == [status |-> "absent", assigned |-> NoAssignments, ws |-> "none",
           batch |-> "none", rows |-> NoRows]
NoPlan == [approvers |-> {}, rows |-> {}, whole |-> FALSE]

Init ==
    /\ status = [r \in Requests |-> "absent"]
    /\ rec = [r \in Requests |-> SomeRec]
    /\ assigned = [r \in Requests |-> NoAssignments]
    /\ batch = [r \in Requests |-> "none"]
    /\ rows = [r \in Requests |-> NoRows]
    /\ ws = [x \in Recs |-> "none"]
    /\ pc = [u \in Users |-> "idle"]
    /\ at = [u \in Users |-> NoRequest]
    /\ on = [u \in Users |-> SomeRec]
    /\ seen = [u \in Users |-> NoCopy]
    /\ plan = [u \in Users |-> NoPlan]
    /\ todo = [u \in Users |-> {}]
    /\ done = [u \in Users |-> NoRows]
    /\ dirty = [u \in Users |-> {}]
    /\ raced = {}
    /\ applied = [r \in Requests |-> {}]

-----------------------------------------------------------------------------
(* What the rows say *)

latest_request(x, r) ==
    /\ status[r] # "absent" /\ rec[r] = x
    /\ \A s \in Requests : status[s] # "absent" /\ rec[s] = x => s <= r

has_open_multi_approver_request(x) ==
    \E r \in Requests : latest_request(x, r) /\ status[r] \in OPEN_STATUSES

execution_blocked_by_approval_request(x) ==
    \E r \in Requests : latest_request(x, r) /\ status[r] # "approved"

\* create_outcome_for_recommendation
Outcome(w) == IF w = "none" THEN "suggested" ELSE w

\* The column is written only if the loaded value differs.
Write(row, loaded, value) == IF loaded = value THEN row ELSE value

\* reject_assignment has flushed its UPDATEs and holds the row lock of the request.
Locked(u, r) == \E v \in Users \ {u} : pc[v] = "reject_outcome" /\ at[v] = r

(* Sessions *)

\* The session ends and its copies are gone.
End(u) ==
    /\ pc' = [pc EXCEPT ![u] = "idle"]
    /\ at' = [at EXCEPT ![u] = NoRequest]
    /\ on' = [on EXCEPT ![u] = SomeRec]
    /\ seen' = [seen EXCEPT ![u] = NoCopy]
    /\ plan' = [plan EXCEPT ![u] = NoPlan]
    /\ todo' = [todo EXCEPT ![u] = {}]
    /\ done' = [done EXCEPT ![u] = NoRows]
    /\ dirty' = [dirty EXCEPT ![u] = {}]

Goto(u, label) ==
    /\ pc' = [pc EXCEPT ![u] = label]
    /\ UNCHANGED <<at, on, seen, plan, todo, done, dirty>>

\* A session on request r, with its copies of the row, the assignments and the
\* batch.
Begin(u, label, r) ==
    /\ pc' = [pc EXCEPT ![u] = label]
    /\ at' = [at EXCEPT ![u] = r]
    /\ on' = [on EXCEPT ![u] = rec[r]]
    /\ seen' = [seen EXCEPT ![u] =
           [status |-> status[r], assigned |-> assigned[r], ws |-> "none",
            batch |-> batch[r], rows |-> rows[r]]]

\* The process dies, a commit fails, or a failing notification rolls the session
\* back before the commit: what was not committed is lost.
Abort(u) == pc[u] # "idle" /\ End(u) /\ UNCHANGED <<db, raced, applied>>

-----------------------------------------------------------------------------
(* Submission *)

\* create_approval_request up to its checks; the outcome is committed before them.
\* B is the set of rows when create_tagging_batch submits, with x in front.
SubmitRead(u, x, A, B) ==
    /\ u \in Admins /\ pc[u] = "idle"
    /\ \E r \in Requests : status[r] = "absent"
    /\ A # {} /\ (B = {} \/ x \in B)
    /\ Outcome(ws[x]) \in {"suggested", "rejected"}
    /\ ~has_open_multi_approver_request(x)
    /\ ws' = [ws EXCEPT ![x] = Outcome(@)]
    /\ pc' = [pc EXCEPT ![u] = "insert"]
    /\ on' = [on EXCEPT ![u] = x]
    /\ plan' = [plan EXCEPT ![u] = [approvers |-> A, rows |-> B, whole |-> FALSE]]
    /\ UNCHANGED <<status, rec, assigned, batch, rows, at, seen, todo, done, dirty, raced, applied>>

\* The request and its pending assignments.  No constraint stops a second one.
SubmitCommit(u) ==
    /\ pc[u] = "insert"
    /\ \E r \in Requests :
        /\ status[r] = "absent" /\ \A s \in Requests : s < r => status[s] # "absent"
        /\ status' = [status EXCEPT ![r] = "submitted"]
        /\ rec' = [rec EXCEPT ![r] = on[u]]
        /\ assigned' = [assigned EXCEPT ![r] =
               [v \in Approvers |-> IF v \in plan[u].approvers THEN "pending" ELSE "none"]]
        /\ IF plan[u].rows = {} THEN End(u)
           ELSE /\ pc' = [pc EXCEPT ![u] = "batch"]
                /\ at' = [at EXCEPT ![u] = r]
                /\ UNCHANGED <<on, seen, plan, todo, done, dirty>>
    /\ UNCHANGED <<batch, rows, ws, raced, applied>>

\* create_tagging_batch adds the batch in a transaction of its own.
BatchCommit(u) ==
    /\ pc[u] = "batch"
    /\ batch' = [batch EXCEPT ![at[u]] = "pending"]
    /\ rows' = [rows EXCEPT ![at[u]] =
           [x \in Recs |-> IF x \in plan[u].rows THEN "pending_approval" ELSE "none"]]
    /\ End(u)
    /\ UNCHANGED <<status, rec, assigned, ws, raced, applied>>

-----------------------------------------------------------------------------
(* Decisions *)

(* Operators named Mutant... are plausible slips in the definition that follows *)
(* them; nothing uses them.                                                   *)
MutantDecisionRead(u, r, label) ==
    /\ u \in Approvers /\ pc[u] = "idle"
    /\ status[r] \in OPEN_STATUSES
    /\ assigned[r][u] # "none"
    /\ Begin(u, label, r)
    /\ UNCHANGED <<db, plan, todo, done, dirty, raced, applied>>

\* approve_assignment and reject_assignment up to their checks.
DecisionRead(u, r, label) ==
    /\ u \in Approvers /\ pc[u] = "idle"
    /\ status[r] \in OPEN_STATUSES
    /\ assigned[r][u] = "pending"
    /\ Begin(u, label, r)
    /\ UNCHANGED <<db, plan, todo, done, dirty, raced, applied>>

Mark(u) ==
    raced' = IF seen[u].status = status[at[u]] /\ seen[u].assigned = assigned[at[u]]
             THEN raced ELSE raced \cup {at[u]}

MutantAllApproved(u) == \E v \in Approvers : v = u \/ seen[u].assigned[v] = "approved"

all_approved(u) == \A v \in Approvers \ {u} : seen[u].assigned[v] \in {"none", "approved"}

\* Not every assignment it loaded is approved: partially_approved.
ApprovePartial(u) ==
    /\ pc[u] = "approving" /\ ~all_approved(u) /\ ~Locked(u, at[u])
    /\ assigned' = [assigned EXCEPT ![at[u]][u] = "approved"]
    /\ status' = [status EXCEPT ![at[u]] = Write(@, seen[u].status, "partially_approved")]
    /\ Mark(u) /\ End(u)
    /\ UNCHANGED <<rec, batch, rows, ws, applied>>

\* The last one: approve_recommendation commits the decision with the outcome.
ApproveAll(u) ==
    /\ pc[u] = "approving" /\ all_approved(u) /\ ~Locked(u, at[u])
    /\ assigned' = [assigned EXCEPT ![at[u]][u] = "approved"]
    /\ status' = [status EXCEPT ![at[u]] = "approved"]
    /\ ws' = [ws EXCEPT ![on[u]] = "approved"]
    /\ Mark(u) /\ Goto(u, "hook")
    /\ UNCHANGED <<rec, batch, rows, applied>>

\* on_approval_request_approved: one commit per row, the first with the batch.
HookRead(u) ==
    /\ pc[u] = "hook"
    /\ IF batch[at[u]] = "none" THEN End(u)
       ELSE /\ pc' = [pc EXCEPT ![u] = "hook_rows"]
            /\ todo' = [todo EXCEPT ![u] = {x \in Recs : rows[at[u]][x] # "none"}]
            /\ UNCHANGED <<at, on, seen, plan, done, dirty>>
    /\ UNCHANGED <<db, raced, applied>>

HookRow(u, x) ==
    /\ pc[u] = "hook_rows" /\ x \in todo[u]
    /\ batch' = [batch EXCEPT ![at[u]] = IF done[u] = NoRows THEN "approved" ELSE @]
    /\ rows' = [rows EXCEPT ![at[u]][x] = "approved"]
    /\ ws' = [ws EXCEPT ![x] = "approved"]
    /\ IF todo[u] = {x} THEN End(u)
       ELSE /\ todo' = [todo EXCEPT ![u] = @ \ {x}]
            /\ done' = [done EXCEPT ![u][x] = "approved"]
            /\ UNCHANGED <<pc, at, on, seen, plan, dirty>>
    /\ UNCHANGED <<status, rec, assigned, raced, applied>>

\* reject_assignment flushes, which locks the request row; reject_recommendation
\* loads the outcome.
RejectFlush(u) ==
    /\ pc[u] = "rejecting" /\ ~Locked(u, at[u])
    /\ seen' = [seen EXCEPT ![u].ws = ws[on[u]]]
    /\ pc' = [pc EXCEPT ![u] = "reject_outcome"]
    /\ UNCHANGED <<db, at, on, plan, todo, done, dirty, raced, applied>>

RejectRows(r) ==
    /\ batch' = [batch EXCEPT ![r] = IF @ = "none" THEN @ ELSE "rejected"]
    /\ rows' = [rows EXCEPT ![r] =
           [x \in Recs |-> IF @[x] = "none" THEN "none" ELSE "blocked"]]

MutantRejectCommit(u) ==
    /\ pc[u] = "reject_outcome"
    /\ assigned' = [assigned EXCEPT ![at[u]][u] = "rejected"]
    /\ IF seen[u].ws \in {"applied", "verified"}
       THEN RejectRows(at[u]) /\ End(u) /\ UNCHANGED ws
       ELSE /\ ws' = [ws EXCEPT ![on[u]] = Write(@, seen[u].ws, "rejected")]
            /\ Goto(u, "reject_hook")
            /\ UNCHANGED <<batch, rows>>
    /\ Mark(u)
    /\ UNCHANGED <<status, rec, applied>>

\* An outcome not yet applied is rejected and committed with the decision; the
\* batch follows.  An applied one stays, and the decision is committed with the
\* batch.
RejectCommit(u) ==
    /\ pc[u] = "reject_outcome"
    /\ assigned' = [assigned EXCEPT ![at[u]][u] = "rejected"]
    /\ status' = [status EXCEPT ![at[u]] = "rejected"]
    /\ IF seen[u].ws \in {"applied", "verified"}
       THEN RejectRows(at[u]) /\ End(u) /\ UNCHANGED ws
       ELSE /\ ws' = [ws EXCEPT ![on[u]] = Write(@, seen[u].ws, "rejected")]
            /\ Goto(u, "reject_hook")
            /\ UNCHANGED <<batch, rows>>
    /\ Mark(u)
    /\ UNCHANGED <<rec, applied>>

RejectHook(u) ==
    /\ pc[u] = "reject_hook"
    /\ RejectRows(at[u]) /\ End(u)
    /\ UNCHANGED <<status, rec, assigned, ws, raced, applied>>

-----------------------------------------------------------------------------
(* Execution *)

MutantExecuteRead(u, r, whole) ==
    /\ u \in Admins /\ pc[u] = "idle"
    /\ whole => status[r] = "approved"
    /\ whole \/ batch[r] # "none"
    /\ Begin(u, IF batch[r] = "none" THEN "apply" ELSE "rows", r)
    /\ plan' = [plan EXCEPT ![u].whole = whole]
    /\ todo' = [todo EXCEPT ![u] = {x \in Recs : rows[r][x] \notin {"none", "completed"}}]
    /\ UNCHANGED <<db, done, dirty, raced, applied>>

\* execute_approval_request (whole) or execute_batch, up to their checks.
ExecuteRead(u, r, whole) ==
    /\ u \in Admins /\ pc[u] = "idle"
    /\ status[r] = "approved"
    /\ whole \/ batch[r] # "none"
    /\ Begin(u, IF batch[r] = "none" THEN "apply" ELSE "rows", r)
    /\ plan' = [plan EXCEPT ![u].whole = whole]
    /\ todo' = [todo EXCEPT ![u] = {x \in Recs : rows[r][x] \notin {"none", "completed"}}]
    /\ UNCHANGED <<db, done, dirty, raced, applied>>

\* The rows as the session's next commit leaves them, and the batch status as its
\* last one did.
Flushed(u) == [x \in Recs |-> IF x \in dirty[u] THEN done[u][x] ELSE rows[at[u]][x]]
Committed(u) ==
    IF \E x \in Recs : done[u][x] = "completed" THEN "in_progress" ELSE seen[u].batch

\* One row of execute_batch: the tags are applied and mark_recommendation_applied
\* commits, with the row in progress and the results of the rows before it.
ExecuteRow(u, x) ==
    /\ pc[u] = "rows" /\ x \in todo[u]
    /\ rows' = [rows EXCEPT ![at[u]] =
           [Flushed(u) EXCEPT ![x] = Write(@, seen[u].rows[x], "in_progress")]]
    /\ batch' = [batch EXCEPT ![at[u]] = Write(@, Committed(u), "in_progress")]
    /\ ws' = [ws EXCEPT ![x] = "applied"]
    /\ todo' = [todo EXCEPT ![u] = @ \ {x}]
    /\ done' = [done EXCEPT ![u][x] = "completed"]
    /\ dirty' = [dirty EXCEPT ![u] = {x}]
    /\ applied' = [applied EXCEPT ![at[u]] = @ \cup {x}]
    /\ UNCHANGED <<status, rec, assigned, pc, at, on, seen, plan, raced>>

\* AWS refuses: the row is failed in the session, and nothing is committed.  A row
\* that was loaded as failed has not changed.
ExecuteRowFails(u, x) ==
    /\ pc[u] = "rows" /\ x \in todo[u]
    /\ todo' = [todo EXCEPT ![u] = @ \ {x}]
    /\ done' = [done EXCEPT ![u][x] = "failed"]
    /\ dirty' = [dirty EXCEPT ![u] = IF seen[u].rows[x] = "failed" THEN @ ELSE @ \cup {x}]
    /\ UNCHANGED <<db, pc, at, on, seen, plan, raced, applied>>

MutantBatchFinish(u) ==
    /\ pc[u] = "rows" /\ todo[u] = {}
    /\ rows' = [rows EXCEPT ![at[u]] = Flushed(u)]
    /\ batch' = [batch EXCEPT ![at[u]] = "completed"]
    /\ IF plan[u].whole THEN Goto(u, "finish") ELSE End(u)
    /\ UNCHANGED <<status, rec, assigned, ws, raced, applied>>

BatchFinish(u) ==
    /\ pc[u] = "rows" /\ todo[u] = {}
    /\ rows' = [rows EXCEPT ![at[u]] = Flushed(u)]
    /\ batch' = [batch EXCEPT ![at[u]] = Write(@, Committed(u),
           IF \E x \in Recs : done[u][x] = "failed" THEN "failed" ELSE "completed")]
    /\ IF plan[u].whole THEN Goto(u, "finish") ELSE End(u)
    /\ UNCHANGED <<status, rec, assigned, ws, raced, applied>>

\* Without a batch the recommendation is marked applied.
ExecuteApply(u) ==
    /\ pc[u] = "apply"
    /\ ws' = [ws EXCEPT ![on[u]] = "applied"]
    /\ Goto(u, "finish")
    /\ UNCHANGED <<status, rec, assigned, batch, rows, raced, applied>>

ExecuteFinish(u) ==
    /\ pc[u] = "finish" /\ ~Locked(u, at[u])
    /\ status' = [status EXCEPT ![at[u]] = "executed"]
    /\ End(u)
    /\ UNCHANGED <<rec, assigned, batch, rows, ws, raced, applied>>

\* safe_execution_service.execute_recommendation: the gates, then the AWS call and
\* mark_recommendation_applied.
SafeExecuteCheck(u, x) ==
    /\ u \in Admins /\ pc[u] = "idle"
    /\ ws[x] = "approved" /\ ~execution_blocked_by_approval_request(x)
    /\ pc' = [pc EXCEPT ![u] = "execute"]
    /\ on' = [on EXCEPT ![u] = x]
    /\ UNCHANGED <<db, at, seen, plan, todo, done, dirty, raced, applied>>

SafeExecute(u) ==
    /\ pc[u] = "execute"
    /\ ws' = [ws EXCEPT ![on[u]] = "applied"]
    /\ End(u)
    /\ UNCHANGED <<status, rec, assigned, batch, rows, raced, applied>>

-----------------------------------------------------------------------------
(* Endpoints on a single recommendation *)

\* approve_recommendation_endpoint refuses while a request is open, then approves
\* whatever the outcome says.
DirectApproveCheck(u, x) ==
    /\ u \in Reviewers /\ pc[u] = "idle" /\ ~has_open_multi_approver_request(x)
    /\ pc' = [pc EXCEPT ![u] = "direct_approve"]
    /\ on' = [on EXCEPT ![u] = x]
    /\ UNCHANGED <<db, at, seen, plan, todo, done, dirty, raced, applied>>

DirectApprove(u) ==
    /\ pc[u] = "direct_approve"
    /\ ws' = [ws EXCEPT ![on[u]] = "approved"]
    /\ End(u)
    /\ UNCHANGED <<status, rec, assigned, batch, rows, raced, applied>>

\* reject_recommendation_endpoint, and reject_recommendation up to its check.
DirectRejectCheck(u, x) ==
    /\ u \in Reviewers /\ pc[u] = "idle" /\ ~has_open_multi_approver_request(x)
    /\ ws[x] \notin {"applied", "verified"}
    /\ ws' = [ws EXCEPT ![x] = Outcome(@)]
    /\ seen' = [seen EXCEPT ![u].ws = Outcome(ws[x])]
    /\ pc' = [pc EXCEPT ![u] = "direct_reject"]
    /\ on' = [on EXCEPT ![u] = x]
    /\ UNCHANGED <<status, rec, assigned, batch, rows, at, plan, todo, done, dirty, raced, applied>>

DirectReject(u) ==
    /\ pc[u] = "direct_reject"
    /\ ws' = [ws EXCEPT ![on[u]] = Write(@, seen[u].ws, "rejected")]
    /\ End(u)
    /\ UNCHANGED <<status, rec, assigned, batch, rows, raced, applied>>

Set(x, from, to) ==
    /\ ws[x] \in from
    /\ ws' = [ws EXCEPT ![x] = to]
    /\ UNCHANGED <<status, rec, assigned, batch, rows, session, raced, applied>>

\* Endpoints of one commit: a preflight or a refused submission creates the outcome;
\* mark-applied; the deprecated mark-acted-on; verification by re-evaluation.
create_outcome_for_recommendation(x) == Set(x, {"none"}, "suggested")
mark_recommendation_applied(x) == Set(x, WorkflowStatuses \ {"applied"}, "applied")
mark_recommendation_acted_on(x) == Set(x, {"none", "suggested"}, "applied")
analyze_outcome_impact(x) == Set(x, {"applied"}, "verified")

SessionStep(u) ==
    \/ SubmitCommit(u) \/ BatchCommit(u)
    \/ ApprovePartial(u) \/ ApproveAll(u) \/ HookRead(u) \/ (\E x \in Recs : HookRow(u, x))
    \/ RejectFlush(u) \/ RejectCommit(u) \/ RejectHook(u)
    \/ (\E x \in Recs : ExecuteRow(u, x) \/ ExecuteRowFails(u, x))
    \/ BatchFinish(u) \/ ExecuteApply(u) \/ ExecuteFinish(u) \/ SafeExecute(u)
    \/ DirectApprove(u) \/ DirectReject(u)

SessionStart(u) ==
    \/ \E x \in Recs, A \in SUBSET Approvers, B \in SUBSET Recs : SubmitRead(u, x, A, B)
    \/ \E r \in Requests : DecisionRead(u, r, "approving") \/ DecisionRead(u, r, "rejecting")
    \/ \E r \in Requests, whole \in BOOLEAN : ExecuteRead(u, r, whole)
    \/ \E x \in Recs : SafeExecuteCheck(u, x) \/ DirectApproveCheck(u, x) \/ DirectRejectCheck(u, x)

Next ==
    \/ \E u \in Users : SessionStart(u) \/ SessionStep(u) \/ Abort(u)
    \/ \E x \in Recs :
        \/ create_outcome_for_recommendation(x) \/ mark_recommendation_applied(x)
        \/ mark_recommendation_acted_on(x) \/ analyze_outcome_impact(x)

Spec == Init /\ [][Next]_vars

-----------------------------------------------------------------------------
(* Properties *)

\* Types of the rows and of what the sessions hold.
TypeOK ==
    /\ status \in [Requests -> Statuses]
    /\ rec \in [Requests -> Recs]
    /\ assigned \in [Requests -> [Approvers -> AssignmentStatuses]]
    /\ batch \in [Requests -> BatchStatuses]
    /\ rows \in [Requests -> [Recs -> RowStatuses]]
    /\ ws \in [Recs -> WorkflowStatuses]
    /\ pc \in [Users -> PCs]
    /\ at \in [Users -> Requests \cup {NoRequest}]
    /\ on \in [Users -> Recs]
    /\ seen \in [Users -> Copies]
    /\ plan \in [Users -> [approvers : SUBSET Approvers, rows : SUBSET Recs, whole : BOOLEAN]]
    /\ todo \in [Users -> SUBSET Recs]
    /\ done \in [Users -> [Recs -> RowStatuses]]
    /\ dirty \in [Users -> SUBSET Recs]
    /\ raced \subseteq Requests
    /\ applied \in [Requests -> SUBSET Recs]

Approved(r) == status[r] \in {"approved", "executed"}

\* "All assignees must approve": whatever decisions, submissions, executions and
\* crashes interleave, an approved or executed request has no assignment that is
\* pending or rejected.
ApprovedSound ==
    \A r \in Requests : Approved(r) =>
        \A u \in Approvers : assigned[r][u] \in {"none", "approved"}

\* Tags of a batch are only ever applied under a request that is approved, and stays
\* so: late decisions, a batch created after the approval, and an execution that
\* died half way included.
RowsAuthorised ==
    \A r \in Requests, x \in Recs :
        rows[r][x] \in {"in_progress", "completed", "failed"} => Approved(r)

\* A batch that says completed has no row that failed, is blocked or was left in
\* progress, across crashes, repeated executions and the approval hook overtaking
\* them (which puts a row back to approved).
BatchCompletedSound ==
    \A r \in Requests : batch[r] = "completed" =>
        \A x \in Recs : rows[r][x] \in {"none", "completed", "approved"}

\* A batch that says completed has had the tags of all its rows accepted by AWS, also
\* the rows that the approval hook, overtaken by the execution, has set back to
\* approved, and those that several executions shared.
CompletedMeansApplied ==
    \A r \in Requests : batch[r] = "completed" =>
        \A x \in Recs : rows[r][x] # "none" => x \in applied[r]

\* An open request waits for somebody, and shows how far it is, unless two
\* decisions on it overlapped.
OpenHasPending ==
    \A r \in Requests \ raced : status[r] \in OPEN_STATUSES =>
        /\ \E u \in Approvers : assigned[r][u] = "pending"
        /\ \A u \in Approvers : assigned[r][u] # "rejected"
        /\ status[r] = "submitted" <=> \A u \in Approvers : assigned[r][u] # "approved"

\* "Partially approved -- remaining approvers must act or the workflow stalls."
PartialHasPending ==
    \A r \in Requests : status[r] = "partially_approved" =>
        \E u \in Approvers : assigned[r][u] = "pending"

\* The decision that the rows of a request amount to.
DecisionOf(r) ==
    IF status[r] = "absent" THEN "none"
    ELSE IF Approved(r) THEN status[r]
    ELSE IF \E u \in Approvers : assigned[r][u] = "rejected" THEN "rejected"
    ELSE "open"

Abstract == INSTANCE Unanimity WITH
    votes <- assigned, decision <- [r \in Requests |-> DecisionOf(r)]

\* The request keeps the promise of Unanimity: every step of every handler is a
\* vote, an approval by the last vote, a rejection, an execution, or none of these.
KeepsUnanimity == Abstract!Spec
===============================================================================
