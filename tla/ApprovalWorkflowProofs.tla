------------------------ MODULE ApprovalWorkflowProofs ------------------------
(***************************************************************************)
(* For any set of requests, recommendations and users: approval requests   *)
(* are typed, approved only unanimously, execute batch rows only when      *)
(* approved, implement Unanimity, and wait for somebody while they are     *)
(* open.  A completed batch has had the tags of all its rows accepted; with *)
(* one admin, whose executions do not overlap, it has no row that failed,   *)
(* is blocked or was left in progress.                                     *)
(*                                                                         *)
(* IInv says what a session in flight may rely on (SessionOK).  OpenInv    *)
(* adds that decisions are loaded from open requests, BatchInv and         *)
(* AppliedInv what an execution has gone through and will still write      *)
(* (ExecutionOK, ExecutionOf).                                             *)
(***************************************************************************)
EXTENDS ApprovalWorkflow, TLAPS

Bound == {"batch", "approving", "hook", "hook_rows", "rejecting", "reject_outcome",
          "reject_hook", "rows", "apply", "finish"}
Deciding == {"approving", "rejecting", "reject_outcome"}
Executing == {"rows", "apply", "finish"}

\* Of the assignments a session loaded, the approved ones and the missing ones are
\* still what they were.
CopyOK(u) ==
    \A v \in Approvers : seen[u].assigned[v] \in {"none", "approved"} =>
        assigned[at[u]][v] = seen[u].assigned[v]

\* What a session in flight may rely on, whatever the others do meanwhile.
SessionOK(u) ==
    /\ pc[u] \in Bound => at[u] \in Requests /\ status[at[u]] # "absent"
    /\ pc[u] \in Deciding => u \in Approvers /\ assigned[at[u]][u] = "pending" /\ CopyOK(u)
    /\ pc[u] \in Executing => Approved(at[u])
    /\ pc[u] = "insert" => plan[u].approvers # {}

Sessions == \A u \in Users : SessionOK(u)

IInv == TypeOK /\ Sessions /\ ApprovedSound /\ RowsAuthorised

\* TypeOK in two halves: the tables, and the sessions.
TableTypes ==
    /\ status \in [Requests -> Statuses]
    /\ rec \in [Requests -> Recs]
    /\ assigned \in [Requests -> [Approvers -> AssignmentStatuses]]
    /\ batch \in [Requests -> BatchStatuses]
    /\ rows \in [Requests -> [Recs -> RowStatuses]]
    /\ ws \in [Recs -> WorkflowStatuses]
    /\ raced \subseteq Requests
    /\ applied \in [Requests -> SUBSET Recs]

SessionTypes ==
    /\ pc \in [Users -> PCs]
    /\ at \in [Users -> Requests \cup {NoRequest}]
    /\ on \in [Users -> Recs]
    /\ seen \in [Users -> Copies]
    /\ plan \in [Users -> [approvers : SUBSET Approvers, rows : SUBSET Recs, whole : BOOLEAN]]
    /\ todo \in [Users -> SUBSET Recs]
    /\ done \in [Users -> [Recs -> RowStatuses]]
    /\ dirty \in [Users -> SUBSET Recs]

-----------------------------------------------------------------------------
\* The two halves of TypeOK.
LEMMA TypeHalves ==
    /\ TypeOK <=> TableTypes /\ SessionTypes
    /\ TypeOK' <=> TableTypes' /\ SessionTypes'
BY DEF TypeOK, TableTypes, SessionTypes

\* The recommendation that stands for none is one of Recs.
LEMMA SomeRecType == SomeRec \in Recs
BY RecsAssumption DEF SomeRec

\* What a step of user u may do to the requests: none disappears, an approval is
\* not taken back, and of the assignments of an existing request only a pending
\* one of u's changes.
Monotone(u) ==
    \A r \in Requests :
        /\ status[r] # "absent" => status'[r] # "absent"
        /\ Approved(r) => Approved(r)'
        /\ status[r] # "absent" => \A v \in Approvers :
               v # u \/ assigned[r][v] \in {"none", "approved"} => assigned'[r][v] = assigned[r][v]

\* The sessions of the others are as they were.
OthersSame(u) ==
    \A v \in Users \ {u} :
        pc'[v] = pc[v] /\ at'[v] = at[v] /\ seen'[v] = seen[v] /\ plan'[v] = plan[v]

\* A monotone step of u preserves what the other sessions rely on.
LEMMA Others ==
    ASSUME IInv, NEW u \in Users, Monotone(u), OthersSame(u)
    PROVE  \A v \in Users \ {u} : SessionOK(v)'
<1> SUFFICES ASSUME NEW v \in Users \ {u} PROVE SessionOK(v)'
    OBVIOUS
<1> USE DEF Bound, Deciding, Executing
<1>1. SessionOK(v) /\ pc'[v] = pc[v] /\ at'[v] = at[v] /\ seen'[v] = seen[v] /\ plan'[v] = plan[v]
    BY DEF IInv, Sessions, OthersSame
<1>2. ASSUME pc[v] \in Bound
      PROVE  at'[v] \in Requests /\ status'[at'[v]] # "absent"
    BY <1>1, <1>2 DEF SessionOK, Monotone
<1>3. ASSUME pc[v] \in Deciding
      PROVE  v \in Approvers /\ assigned'[at'[v]][v] = "pending" /\ CopyOK(v)'
    <2>1. at[v] \in Requests /\ status[at[v]] # "absent"
        BY <1>1, <1>3 DEF SessionOK
    <2>2. v \in Approvers /\ assigned[at[v]][v] = "pending" /\ CopyOK(v)
        BY <1>1, <1>3 DEF SessionOK
    <2>3. assigned'[at[v]][v] = "pending"
        BY <2>1, <2>2 DEF Monotone
    <2>4. ASSUME NEW q \in Approvers, seen[v].assigned[q] \in {"none", "approved"}
          PROVE  assigned'[at[v]][q] = seen[v].assigned[q]
        BY <2>1, <2>2, <2>4 DEF Monotone, CopyOK
    <2>. QED BY <1>1, <2>2, <2>3, <2>4 DEF CopyOK
<1>4. ASSUME pc[v] \in Executing
      PROVE  Approved(at[v])'
    BY <1>1, <1>4 DEF SessionOK, Monotone, Approved
<1>. QED BY <1>1, <1>2, <1>3, <1>4 DEF SessionOK

\* With the typing, the acting session and the two invariants on requests settled,
\* the whole invariant is preserved.
LEMMA Combine ==
    ASSUME IInv, NEW u \in Users, Monotone(u), OthersSame(u),
           TypeOK', SessionOK(u)', ApprovedSound', RowsAuthorised'
    PROVE  IInv'
BY Others DEF IInv, Sessions

\* A step of u that leaves status and assignments alone is monotone, and keeps
\* ApprovedSound.
LEMMA Quiet ==
    ASSUME IInv, NEW u \in Users, UNCHANGED <<status, assigned>>
    PROVE  Monotone(u) /\ ApprovedSound'
BY DEF IInv, Monotone, ApprovedSound, Approved

\* A deciding session works on a request that is not approved.
LEMMA Undecided ==
    ASSUME IInv, NEW u \in Users, pc[u] \in Deciding
    PROVE  /\ u \in Approvers /\ at[u] \in Requests
           /\ status[at[u]] # "absent" /\ ~Approved(at[u])
           /\ assigned[at[u]][u] = "pending" /\ CopyOK(u)
BY DEF IInv, Sessions, SessionOK, Bound, Deciding, ApprovedSound

\* Loading the outcome into a copy.
LEMMA LoadsOutcome ==
    ASSUME NEW c \in Copies, NEW w \in WorkflowStatuses
    PROVE  [c EXCEPT !.ws = w] \in Copies
BY DEF Copies

\* The end of a session: nobody else's session changes, and u relies on nothing.
LEMMA Ends ==
    ASSUME IInv, NEW u \in Users, End(u)
    PROVE  OthersSame(u) /\ SessionOK(u)' /\ SessionTypes'
<1>1. SessionTypes
    BY TypeHalves DEF IInv
<1>2. OthersSame(u) /\ SessionOK(u)'
    BY <1>1 DEF SessionTypes, End, OthersSame, SessionOK, Bound, Deciding, Executing
<1>3. /\ NoCopy \in Copies
      /\ NoRows \in [Recs -> RowStatuses]
      /\ NoPlan \in [approvers : SUBSET Approvers, rows : SUBSET Recs, whole : BOOLEAN]
    BY DEF NoCopy, NoAssignments, NoRows, NoPlan, Copies, Statuses, AssignmentStatuses,
           WorkflowStatuses, BatchStatuses, RowStatuses
<1>4. SessionTypes'
    BY <1>1, <1>3, SomeRecType DEF SessionTypes, End, PCs
<1>. QED BY <1>2, <1>4

\* A change of label: nobody else's session changes.
LEMMA Goes ==
    ASSUME IInv, NEW u \in Users, NEW label \in PCs, Goto(u, label)
    PROVE  /\ OthersSame(u) /\ SessionTypes'
           /\ pc'[u] = label /\ UNCHANGED <<at, seen, plan>>
<1>1. SessionTypes
    BY TypeHalves DEF IInv
<1>. QED BY <1>1 DEF SessionTypes, Goto, OthersSame

-----------------------------------------------------------------------------
(* One lemma per action *)

\* An abort ends the session and touches no table.
LEMMA AbortStep ==
    ASSUME IInv, NEW u \in Users, Abort(u) PROVE IInv'
<1>1. End(u) /\ UNCHANGED <<status, rec, assigned, batch, rows, ws, raced, applied>>
    BY DEF Abort, db
<1>2. OthersSame(u) /\ SessionOK(u)' /\ SessionTypes'
    BY <1>1, Ends
<1>3. Monotone(u) /\ ApprovedSound'
    BY <1>1, Quiet
<1>4. TableTypes'
    BY <1>1, TypeHalves DEF IInv, TableTypes
<1>5. RowsAuthorised'
    BY <1>1 DEF IInv, RowsAuthorised, Approved
<1>. QED BY <1>2, <1>3, <1>4, <1>5, TypeHalves, Combine

\* A submission that passed its checks knows its approvers.
LEMMA SubmitReadStep ==
    ASSUME IInv, NEW u \in Users, NEW x \in Recs, NEW A \in SUBSET Approvers,
           NEW B \in SUBSET Recs, SubmitRead(u, x, A, B)
    PROVE  IInv'
<1> USE DEF SubmitRead
<1>1. TableTypes /\ SessionTypes
    BY TypeHalves DEF IInv
<1>2. OthersSame(u) /\ SessionTypes'
    BY <1>1 DEF SessionTypes, OthersSame, PCs
<1>3. SessionOK(u)'
    BY <1>1 DEF SessionTypes, SessionOK, Bound, Deciding, Executing
<1>4. Monotone(u) /\ ApprovedSound'
    BY Quiet
<1>5. TableTypes'
    BY <1>1 DEF TableTypes, Outcome, WorkflowStatuses
<1>6. RowsAuthorised'
    BY DEF IInv, RowsAuthorised, Approved
<1>. QED BY <1>2, <1>3, <1>4, <1>5, <1>6, TypeHalves, Combine

\* The new request is open, and existing ones are not touched.
LEMMA SubmitCommitStep ==
    ASSUME IInv, NEW u \in Users, SubmitCommit(u) PROVE IInv' /\ Monotone(u)
<1>1. TableTypes /\ SessionTypes
    BY TypeHalves DEF IInv
<1>2. PICK r \in Requests :
        /\ status[r] = "absent"
        /\ status' = [status EXCEPT ![r] = "submitted"]
        /\ rec' = [rec EXCEPT ![r] = on[u]]
        /\ assigned' = [assigned EXCEPT ![r] =
               [v \in Approvers |-> IF v \in plan[u].approvers THEN "pending" ELSE "none"]]
        /\ IF plan[u].rows = {} THEN End(u)
           ELSE /\ pc' = [pc EXCEPT ![u] = "batch"]
                /\ at' = [at EXCEPT ![u] = r]
                /\ UNCHANGED <<on, seen, plan, todo, done, dirty>>
    BY DEF SubmitCommit
<1>3. UNCHANGED <<batch, rows, ws, raced, applied>>
    BY DEF SubmitCommit
<1>4. OthersSame(u) /\ SessionOK(u)' /\ SessionTypes'
    <2>1. CASE End(u)
        BY <2>1, Ends
    <2>2. CASE /\ pc' = [pc EXCEPT ![u] = "batch"]
               /\ at' = [at EXCEPT ![u] = r]
               /\ UNCHANGED <<on, seen, plan, todo, done, dirty>>
        <3>1. OthersSame(u) /\ SessionTypes'
            BY <1>1, <2>2 DEF SessionTypes, OthersSame, PCs
        <3>2. SessionOK(u)'
            BY <1>1, <1>2, <2>2
            DEF TableTypes, SessionTypes, SessionOK, Bound, Deciding, Executing
        <3>. QED BY <3>1, <3>2
    <2>. QED BY <1>2, <2>1, <2>2
<1>5. Monotone(u)
    BY <1>1, <1>2 DEF TableTypes, Monotone, Approved
<1>6. ApprovedSound'
    BY <1>1, <1>2 DEF IInv, TableTypes, ApprovedSound, Approved
<1>7. TableTypes'
    BY <1>1, <1>2, <1>3 DEF TableTypes, SessionTypes, Statuses, OPEN_STATUSES, AssignmentStatuses
<1>8. RowsAuthorised'
    BY <1>1, <1>2, <1>3 DEF IInv, TableTypes, RowsAuthorised, Approved
<1>. QED BY <1>4, <1>5, <1>6, <1>7, <1>8, TypeHalves, Combine

\* The rows of a new batch wait for approval.
LEMMA BatchCommitStep ==
    ASSUME IInv, NEW u \in Users, BatchCommit(u) PROVE IInv'
<1> USE DEF BatchCommit
<1>1. TableTypes /\ SessionTypes
    BY TypeHalves DEF IInv
<1>2. OthersSame(u) /\ SessionOK(u)' /\ SessionTypes'
    BY Ends
<1>3. Monotone(u) /\ ApprovedSound'
    BY Quiet
<1>4. TableTypes'
    BY <1>1 DEF TableTypes, BatchStatuses, RowStatuses
<1>5. RowsAuthorised'
    BY <1>1 DEF IInv, TableTypes, RowsAuthorised, Approved
<1>. QED BY <1>2, <1>3, <1>4, <1>5, TypeHalves, Combine

\* A decision that passed its checks holds a fresh copy.
LEMMA DecisionReadStep ==
    ASSUME IInv, NEW u \in Users, NEW r \in Requests, NEW label \in {"approving", "rejecting"},
           DecisionRead(u, r, label)
    PROVE  IInv'
<1> USE DEF DecisionRead, Begin, db
<1>1. TableTypes /\ SessionTypes
    BY TypeHalves DEF IInv
<1>2. OthersSame(u)
    BY <1>1 DEF SessionTypes, OthersSame
<1>3. SessionTypes'
    <2>1. [status |-> status[r], assigned |-> assigned[r], ws |-> "none",
           batch |-> batch[r], rows |-> rows[r]] \in Copies
        BY <1>1 DEF TableTypes, WorkflowStatuses, Copies
    <2>3. seen' \in [Users -> Copies]
        BY <1>1, <2>1 DEF SessionTypes
    <2>. QED BY <1>1, <2>3 DEF TableTypes, SessionTypes, PCs
<1>4. SessionOK(u)'
    BY <1>1 DEF TableTypes, SessionTypes, SessionOK, CopyOK, Bound, Deciding, Executing,
                OPEN_STATUSES
<1>5. Monotone(u) /\ ApprovedSound'
    BY Quiet
<1>6. TableTypes'
    BY <1>1 DEF TableTypes
<1>7. RowsAuthorised'
    BY DEF IInv, RowsAuthorised, Approved
<1>. QED BY <1>2, <1>3, <1>4, <1>5, <1>6, <1>7, TypeHalves, Combine

\* An approval that is not the last leaves the request undecided.
LEMMA ApprovePartialStep ==
    ASSUME IInv, NEW u \in Users, ApprovePartial(u) PROVE IInv' /\ Monotone(u)
<1> USE DEF ApprovePartial
<1>1. TableTypes /\ SessionTypes
    BY TypeHalves DEF IInv
<1>2. /\ u \in Approvers /\ at[u] \in Requests
      /\ status[at[u]] # "absent" /\ ~Approved(at[u]) /\ assigned[at[u]][u] = "pending"
    BY Undecided DEF Deciding
<1>3. OthersSame(u) /\ SessionOK(u)' /\ SessionTypes'
    BY Ends
<1>4. status'[at[u]] \in {status[at[u]], "partially_approved"}
    BY <1>1, <1>2 DEF TableTypes, Write
<1>5. \A r \in Requests \ {at[u]} : status'[r] = status[r] /\ assigned'[r] = assigned[r]
    BY <1>1 DEF TableTypes
<1>6. \A v \in Approvers \ {u} : assigned'[at[u]][v] = assigned[at[u]][v]
    BY <1>1, <1>2 DEF TableTypes
<1>7. Monotone(u)
    BY <1>1, <1>2, <1>4, <1>5, <1>6 DEF Monotone, Approved
<1>8. ApprovedSound'
    BY <1>2, <1>4, <1>5 DEF IInv, ApprovedSound, Approved
<1>9. TableTypes'
    BY <1>1, <1>2 DEF TableTypes, Write, Mark, Statuses, OPEN_STATUSES, AssignmentStatuses
<1>10. RowsAuthorised'
    BY <1>7 DEF IInv, RowsAuthorised, Monotone
<1>. QED BY <1>3, <1>7, <1>8, <1>9, <1>10, TypeHalves, Combine

\* The last approval finds every other assignment approved, as its copy says.
LEMMA ApproveAllStep ==
    ASSUME IInv, NEW u \in Users, ApproveAll(u)
    PROVE  IInv' /\ Monotone(u) /\ \A v \in Approvers : assigned'[at[u]][v] \in {"none", "approved"}
<1> USE DEF ApproveAll
<1>1. TableTypes /\ SessionTypes
    BY TypeHalves DEF IInv
<1>2. /\ u \in Approvers /\ at[u] \in Requests /\ status[at[u]] # "absent"
      /\ ~Approved(at[u]) /\ assigned[at[u]][u] = "pending" /\ CopyOK(u)
    BY Undecided DEF Deciding
<1>3. /\ OthersSame(u) /\ SessionTypes'
      /\ pc'[u] = "hook" /\ UNCHANGED <<at, seen, plan>>
    BY Goes DEF PCs
<1>4. \A r \in Requests \ {at[u]} : status'[r] = status[r] /\ assigned'[r] = assigned[r]
    BY <1>1 DEF TableTypes
<1>5. /\ status'[at[u]] = "approved" /\ assigned'[at[u]][u] = "approved"
      /\ \A v \in Approvers \ {u} : assigned'[at[u]][v] = assigned[at[u]][v]
    BY <1>1, <1>2 DEF TableTypes
<1>6. \A v \in Approvers \ {u} : assigned[at[u]][v] \in {"none", "approved"}
    BY <1>2 DEF all_approved, CopyOK
<1>7. SessionOK(u)'
    BY <1>2, <1>3, <1>5 DEF SessionOK, Bound, Deciding, Executing
<1>8. Monotone(u)
    BY <1>1, <1>2, <1>4, <1>5 DEF Monotone, Approved
<1>9. ApprovedSound'
    BY <1>4, <1>5, <1>6 DEF IInv, ApprovedSound, Approved
<1>10. TableTypes'
    BY <1>1, <1>2 DEF TableTypes, SessionTypes, Mark, Statuses, AssignmentStatuses, WorkflowStatuses
<1>11. RowsAuthorised'
    BY <1>8 DEF IInv, RowsAuthorised, Monotone
<1>. QED BY <1>3, <1>5, <1>6, <1>7, <1>8, <1>9, <1>10, <1>11, TypeHalves, Combine

\* The approval hook touches batches and outcomes only.
LEMMA HookReadStep ==
    ASSUME IInv, NEW u \in Users, HookRead(u) PROVE IInv'
<1> USE DEF HookRead, db
<1>1. TableTypes /\ SessionTypes
    BY TypeHalves DEF IInv
<1>2. OthersSame(u) /\ SessionOK(u)' /\ SessionTypes'
    <2>1. CASE End(u)
        BY <2>1, Ends
    <2>2. CASE /\ pc' = [pc EXCEPT ![u] = "hook_rows"]
               /\ todo' = [todo EXCEPT ![u] = {x \in Recs : rows[at[u]][x] # "none"}]
               /\ UNCHANGED <<at, on, seen, plan, done, dirty>>
        <3>1. OthersSame(u) /\ SessionTypes'
            BY <1>1, <2>2 DEF SessionTypes, OthersSame, PCs
        <3>2. SessionOK(u)'
            BY <1>1, <2>2 DEF IInv, Sessions, SessionTypes, SessionOK, Bound, Deciding, Executing
        <3>. QED BY <3>1, <3>2
    <2>. QED BY <2>1, <2>2
<1>3. Monotone(u) /\ ApprovedSound'
    BY Quiet
<1>4. TableTypes'
    BY <1>1 DEF TableTypes
<1>5. RowsAuthorised'
    BY DEF IInv, RowsAuthorised, Approved
<1>. QED BY <1>2, <1>3, <1>4, <1>5, TypeHalves, Combine

LEMMA HookRowStep ==
    ASSUME IInv, NEW u \in Users, NEW x \in Recs, HookRow(u, x) PROVE IInv'
<1> USE DEF HookRow
<1>1. TableTypes /\ SessionTypes
    BY TypeHalves DEF IInv
<1>2. OthersSame(u) /\ SessionOK(u)' /\ SessionTypes'
    <2>1. CASE End(u)
        BY <2>1, Ends
    <2>2. CASE /\ todo' = [todo EXCEPT ![u] = @ \ {x}]
               /\ done' = [done EXCEPT ![u][x] = "approved"]
               /\ UNCHANGED <<pc, at, on, seen, plan, dirty>>
        <3>1. OthersSame(u) /\ SessionTypes'
            BY <1>1, <2>2 DEF SessionTypes, OthersSame, RowStatuses
        <3>2. SessionOK(u)'
            BY <1>1, <2>2 DEF IInv, Sessions, SessionTypes, SessionOK, Bound, Deciding, Executing
        <3>. QED BY <3>1, <3>2
    <2>. QED BY <2>1, <2>2
<1>3. Monotone(u) /\ ApprovedSound'
    BY Quiet
<1>4. TableTypes'
    BY <1>1 DEF TableTypes, BatchStatuses, RowStatuses, WorkflowStatuses
<1>5. RowsAuthorised'
    BY <1>1 DEF IInv, TableTypes, RowsAuthorised, Approved
<1>. QED BY <1>2, <1>3, <1>4, <1>5, TypeHalves, Combine

\* A rejection that loads the outcome keeps its copy of the assignments.
LEMMA RejectFlushStep ==
    ASSUME IInv, NEW u \in Users, RejectFlush(u) PROVE IInv'
<1> USE DEF RejectFlush, db
<1>1. TableTypes /\ SessionTypes
    BY TypeHalves DEF IInv
<1>2. /\ u \in Approvers /\ at[u] \in Requests /\ status[at[u]] # "absent"
      /\ assigned[at[u]][u] = "pending" /\ CopyOK(u)
    BY Undecided DEF Deciding
<1>3. OthersSame(u) /\ SessionTypes'
    <2>1. ws[on[u]] \in WorkflowStatuses
        BY <1>1 DEF TableTypes, SessionTypes
    <2>2. seen' \in [Users -> Copies]
        BY <1>1, <2>1, LoadsOutcome DEF SessionTypes
    <2>. QED BY <1>1, <2>2 DEF SessionTypes, OthersSame, PCs
<1>4. SessionOK(u)'
    BY <1>1, <1>2 DEF TableTypes, SessionTypes, Copies, SessionOK, CopyOK, Bound, Deciding, Executing
<1>5. Monotone(u) /\ ApprovedSound'
    BY Quiet
<1>6. TableTypes'
    BY <1>1 DEF TableTypes
<1>7. RowsAuthorised'
    BY DEF IInv, RowsAuthorised, Approved
<1>. QED BY <1>3, <1>4, <1>5, <1>6, <1>7, TypeHalves, Combine

\* Rejecting the rows of a batch applies none of them.
LEMMA RejectedRows ==
    ASSUME TableTypes, NEW r \in Requests, RejectRows(r)
    PROVE  /\ batch' \in [Requests -> BatchStatuses] /\ rows' \in [Requests -> [Recs -> RowStatuses]]
           /\ \A s \in Requests, x \in Recs :
                rows'[s][x] \in {"in_progress", "completed", "failed"} => rows'[s][x] = rows[s][x]
BY DEF TableTypes, RejectRows, BatchStatuses, RowStatuses

\* A rejection is written to a request that is not approved.
LEMMA RejectCommitStep ==
    ASSUME IInv, NEW u \in Users, RejectCommit(u) PROVE IInv' /\ Monotone(u)
<1> USE DEF RejectCommit
<1>1. TableTypes /\ SessionTypes
    BY TypeHalves DEF IInv
<1>2. /\ u \in Approvers /\ at[u] \in Requests
      /\ status[at[u]] # "absent" /\ ~Approved(at[u]) /\ assigned[at[u]][u] = "pending"
    BY Undecided DEF Deciding
<1>3. \A r \in Requests \ {at[u]} : status'[r] = status[r] /\ assigned'[r] = assigned[r]
    BY <1>1 DEF TableTypes
<1>4. /\ status'[at[u]] = "rejected"
      /\ \A v \in Approvers \ {u} : assigned'[at[u]][v] = assigned[at[u]][v]
    BY <1>1, <1>2 DEF TableTypes
<1>5. Monotone(u)
    BY <1>1, <1>2, <1>3, <1>4 DEF Monotone, Approved
<1>6. ApprovedSound'
    BY <1>3, <1>4 DEF IInv, ApprovedSound, Approved
<1>7. /\ status' \in [Requests -> Statuses] /\ raced' \subseteq Requests
      /\ assigned' \in [Requests -> [Approvers -> AssignmentStatuses]]
      /\ rec' \in [Requests -> Recs]
    BY <1>1, <1>2 DEF TableTypes, Mark, Statuses, AssignmentStatuses
<1>8. CASE seen[u].ws \in {"applied", "verified"}
    <2>1. RejectRows(at[u]) /\ End(u) /\ UNCHANGED ws
        BY <1>8
    <2>2. OthersSame(u) /\ SessionOK(u)' /\ SessionTypes'
        BY <2>1, Ends
    <2>3. TableTypes'
        BY <1>1, <1>2, <1>7, <2>1, RejectedRows DEF TableTypes
    <2>4. RowsAuthorised'
        BY <1>1, <1>2, <1>5, <2>1, RejectedRows DEF IInv, RowsAuthorised, Monotone
    <2>. QED BY <1>5, <1>6, <2>2, <2>3, <2>4, TypeHalves, Combine
<1>9. CASE seen[u].ws \notin {"applied", "verified"}
    <2>1. /\ ws' = [ws EXCEPT ![on[u]] = Write(@, seen[u].ws, "rejected")]
          /\ Goto(u, "reject_hook")
          /\ UNCHANGED <<batch, rows>>
        BY <1>9
    <2>2. /\ OthersSame(u) /\ SessionTypes'
          /\ pc'[u] = "reject_hook" /\ UNCHANGED <<at, seen, plan>>
        BY <2>1, Goes DEF PCs
    <2>3. SessionOK(u)'
        BY <1>2, <1>4, <2>2 DEF SessionOK, Bound, Deciding, Executing
    <2>4. TableTypes'
        BY <1>1, <1>7, <2>1 DEF TableTypes, SessionTypes, Write, WorkflowStatuses
    <2>5. RowsAuthorised'
        BY <1>5, <2>1 DEF IInv, RowsAuthorised, Monotone
    <2>. QED BY <1>5, <1>6, <2>2, <2>3, <2>4, <2>5, TypeHalves, Combine
<1>. QED BY <1>5, <1>8, <1>9

LEMMA RejectHookStep ==
    ASSUME IInv, NEW u \in Users, RejectHook(u) PROVE IInv'
<1> USE DEF RejectHook
<1>1. TableTypes /\ SessionTypes
    BY TypeHalves DEF IInv
<1>2. at[u] \in Requests
    BY DEF IInv, Sessions, SessionOK, Bound
<1>3. OthersSame(u) /\ SessionOK(u)' /\ SessionTypes'
    BY Ends
<1>4. Monotone(u) /\ ApprovedSound'
    BY Quiet
<1>5. TableTypes'
    BY <1>1, <1>2, RejectedRows DEF TableTypes
<1>6. RowsAuthorised'
    BY <1>1, <1>2, RejectedRows DEF IInv, RowsAuthorised, Approved
<1>. QED BY <1>3, <1>4, <1>5, <1>6, TypeHalves, Combine

\* An execution that passed its check works on an approved request.
LEMMA ExecuteReadStep ==
    ASSUME IInv, NEW u \in Users, NEW r \in Requests, NEW whole \in BOOLEAN,
           ExecuteRead(u, r, whole)
    PROVE  IInv'
<1> USE DEF ExecuteRead, Begin, db
<1>1. TableTypes /\ SessionTypes
    BY TypeHalves DEF IInv
<1>2. OthersSame(u)
    BY <1>1 DEF SessionTypes, OthersSame
<1>3. SessionTypes'
    <2>1. [status |-> status[r], assigned |-> assigned[r], ws |-> "none",
           batch |-> batch[r], rows |-> rows[r]] \in Copies
        BY <1>1 DEF TableTypes, WorkflowStatuses, Copies
    <2>2. seen' \in [Users -> Copies]
        BY <1>1, <2>1 DEF SessionTypes
    <2>3. pc' \in [Users -> PCs] /\ at' \in [Users -> Requests \cup {NoRequest}]
          /\ on' \in [Users -> Recs]
        BY <1>1 DEF TableTypes, SessionTypes, PCs
    <2>4. /\ plan' \in [Users -> [approvers : SUBSET Approvers, rows : SUBSET Recs, whole : BOOLEAN]]
          /\ todo' \in [Users -> SUBSET Recs]
          /\ done' \in [Users -> [Recs -> RowStatuses]] /\ dirty' \in [Users -> SUBSET Recs]
        BY <1>1 DEF SessionTypes
    <2>. QED BY <2>2, <2>3, <2>4 DEF SessionTypes
<1>4. pc'[u] \in {"apply", "rows"} /\ at'[u] = r
    BY <1>1 DEF SessionTypes
<1>5. SessionOK(u)'
    BY <1>4 DEF SessionOK, Approved, Bound, Deciding, Executing
<1>6. Monotone(u) /\ ApprovedSound'
    BY Quiet
<1>7. TableTypes'
    BY <1>1 DEF TableTypes
<1>8. RowsAuthorised'
    BY DEF IInv, RowsAuthorised, Approved
<1>. QED BY <1>2, <1>3, <1>5, <1>6, <1>7, <1>8, TypeHalves, Combine

\* Rows change only while their request is approved.
LEMMA ExecuteRowStep ==
    ASSUME IInv, NEW u \in Users, NEW x \in Recs, ExecuteRow(u, x) PROVE IInv'
<1> USE DEF ExecuteRow
<1>1. TableTypes /\ SessionTypes
    BY TypeHalves DEF IInv
<1>2. at[u] \in Requests /\ Approved(at[u])
    BY DEF IInv, Sessions, SessionOK, Bound, Executing
<1>3. OthersSame(u) /\ SessionTypes'
    BY <1>1 DEF SessionTypes, OthersSame, RowStatuses
<1>4. SessionOK(u)'
    BY DEF IInv, Sessions, SessionOK, Approved, Bound, Deciding, Executing
<1>5. Monotone(u) /\ ApprovedSound'
    BY Quiet
<1>6. Flushed(u) \in [Recs -> RowStatuses]
    BY <1>1, <1>2 DEF TableTypes, SessionTypes, Flushed
<1>7. TableTypes'
    BY <1>1, <1>6 DEF TableTypes, BatchStatuses, RowStatuses, WorkflowStatuses, Write
<1>8. RowsAuthorised'
    BY <1>1, <1>2 DEF IInv, TableTypes, RowsAuthorised, Approved
<1>. QED BY <1>3, <1>4, <1>5, <1>7, <1>8, TypeHalves, Combine

LEMMA ExecuteRowFailsStep ==
    ASSUME IInv, NEW u \in Users, NEW x \in Recs, ExecuteRowFails(u, x) PROVE IInv'
<1> USE DEF ExecuteRowFails, db
<1>1. TableTypes /\ SessionTypes
    BY TypeHalves DEF IInv
<1>2. OthersSame(u) /\ SessionTypes'
    BY <1>1 DEF SessionTypes, OthersSame, RowStatuses
<1>3. SessionOK(u)'
    BY DEF IInv, Sessions, SessionOK, Approved, Bound, Deciding, Executing
<1>4. Monotone(u) /\ ApprovedSound'
    BY Quiet
<1>5. TableTypes'
    BY <1>1 DEF TableTypes
<1>6. RowsAuthorised'
    BY DEF IInv, RowsAuthorised, Approved
<1>. QED BY <1>2, <1>3, <1>4, <1>5, <1>6, TypeHalves, Combine

LEMMA BatchFinishStep ==
    ASSUME IInv, NEW u \in Users, BatchFinish(u) PROVE IInv'
<1> USE DEF BatchFinish
<1>1. TableTypes /\ SessionTypes
    BY TypeHalves DEF IInv
<1>2. at[u] \in Requests /\ Approved(at[u]) /\ status[at[u]] # "absent"
    BY DEF IInv, Sessions, SessionOK, Bound, Executing
<1>3. OthersSame(u) /\ SessionOK(u)' /\ SessionTypes'
    <2>1. CASE End(u)
        BY <2>1, Ends
    <2>2. CASE Goto(u, "finish")
        <3>1. /\ OthersSame(u) /\ SessionTypes'
              /\ pc'[u] = "finish" /\ UNCHANGED <<at, seen, plan>>
            BY <2>2, Goes DEF PCs
        <3>2. SessionOK(u)'
            BY <1>2, <3>1 DEF SessionOK, Approved, Bound, Deciding, Executing
        <3>. QED BY <3>1, <3>2
    <2>. QED BY <2>1, <2>2
<1>4. Monotone(u) /\ ApprovedSound'
    BY Quiet
<1>5. Flushed(u) \in [Recs -> RowStatuses]
    BY <1>1, <1>2 DEF TableTypes, SessionTypes, Flushed
<1>6. TableTypes'
    BY <1>1, <1>5 DEF TableTypes, BatchStatuses, Write
<1>7. RowsAuthorised'
    BY <1>1, <1>2 DEF IInv, TableTypes, RowsAuthorised, Approved
<1>. QED BY <1>3, <1>4, <1>6, <1>7, TypeHalves, Combine

LEMMA ExecuteFinishStep ==
    ASSUME IInv, NEW u \in Users, ExecuteFinish(u) PROVE IInv' /\ Monotone(u)
<1> USE DEF ExecuteFinish
<1>1. TableTypes /\ SessionTypes
    BY TypeHalves DEF IInv
<1>2. at[u] \in Requests /\ Approved(at[u])
    BY DEF IInv, Sessions, SessionOK, Bound, Executing
<1>3. OthersSame(u) /\ SessionOK(u)' /\ SessionTypes'
    BY Ends
<1>4. status'[at[u]] = "executed" /\ \A r \in Requests \ {at[u]} : status'[r] = status[r]
    BY <1>1, <1>2 DEF TableTypes
<1>5. Monotone(u) /\ ApprovedSound'
    BY <1>2, <1>4 DEF IInv, Monotone, ApprovedSound, Approved
<1>6. TableTypes'
    BY <1>1, <1>2 DEF TableTypes, Statuses
<1>7. RowsAuthorised'
    BY <1>5 DEF IInv, RowsAuthorised, Monotone
<1>. QED BY <1>3, <1>5, <1>6, <1>7, TypeHalves, Combine

\* A step of u's session that writes outcomes only.
LEMMA OutcomesOnly ==
    ASSUME IInv, NEW u \in Users, UNCHANGED <<status, rec, assigned, batch, rows, raced, applied>>,
           ws' \in [Recs -> WorkflowStatuses],
           OthersSame(u), SessionOK(u)', SessionTypes'
    PROVE  IInv'
<1>1. TableTypes'
    BY TypeHalves DEF IInv, TableTypes
<1>2. RowsAuthorised'
    BY DEF IInv, RowsAuthorised, Approved
<1>3. Monotone(u) /\ ApprovedSound'
    BY Quiet
<1>. QED BY <1>1, <1>2, <1>3, TypeHalves, Combine

LEMMA ExecuteApplyStep ==
    ASSUME IInv, NEW u \in Users, ExecuteApply(u) PROVE IInv'
<1> USE DEF ExecuteApply
<1>1. ws' \in [Recs -> WorkflowStatuses]
    BY TypeHalves DEF IInv, TableTypes, WorkflowStatuses
<1>2. at[u] \in Requests /\ Approved(at[u]) /\ status[at[u]] # "absent"
    BY DEF IInv, Sessions, SessionOK, Bound, Executing
<1>3. OthersSame(u) /\ SessionTypes' /\ pc'[u] = "finish" /\ UNCHANGED <<at, seen, plan>>
    BY Goes DEF PCs
<1>4. SessionOK(u)'
    BY <1>2, <1>3 DEF SessionOK, Approved, Bound, Deciding, Executing
<1>. QED BY <1>1, <1>3, <1>4, OutcomesOnly

\* The session steps that set the outcome and end.
LEMMA OutcomeEndSteps ==
    ASSUME IInv, NEW u \in Users, SafeExecute(u) \/ DirectApprove(u) \/ DirectReject(u)
    PROVE  IInv'
<1> USE DEF SafeExecute, DirectApprove, DirectReject
<1>1. ws' \in [Recs -> WorkflowStatuses]
    BY TypeHalves DEF IInv, TableTypes, WorkflowStatuses, Write
<1>2. OthersSame(u) /\ SessionOK(u)' /\ SessionTypes'
    BY Ends
<1>. QED BY <1>1, <1>2, OutcomesOnly

\* The checks of the endpoints on one recommendation.
LEMMA OutcomeCheckSteps ==
    ASSUME IInv, NEW u \in Users, NEW x \in Recs,
           SafeExecuteCheck(u, x) \/ DirectApproveCheck(u, x) \/ DirectRejectCheck(u, x)
    PROVE  IInv'
<1> USE DEF SafeExecuteCheck, DirectApproveCheck, DirectRejectCheck, db
<1>1. TableTypes /\ SessionTypes
    BY TypeHalves DEF IInv
<1>2. ws' \in [Recs -> WorkflowStatuses]
    BY <1>1 DEF TableTypes, WorkflowStatuses, Outcome
<1>3. pc'[u] \in {"execute", "direct_approve", "direct_reject"} /\ OthersSame(u)
    BY <1>1 DEF SessionTypes, OthersSame
<1>4. SessionOK(u)'
    BY <1>3 DEF SessionOK, Bound, Deciding, Executing
<1>5. CASE SafeExecuteCheck(u, x) \/ DirectApproveCheck(u, x)
    <2>1. PICK label \in PCs : pc' = [pc EXCEPT ![u] = label]
        BY <1>5 DEF PCs
    <2>2. on' = [on EXCEPT ![u] = x] /\ UNCHANGED <<at, seen, plan, todo, done, dirty>>
        BY <1>5
    <2>3. SessionTypes'
        BY <1>1, <2>1, <2>2 DEF SessionTypes
    <2>. QED BY <1>2, <1>3, <1>4, <1>5, <2>3, OutcomesOnly
<1>6. CASE DirectRejectCheck(u, x)
    <2>1. Outcome(ws[x]) \in WorkflowStatuses
        BY <1>1 DEF TableTypes, WorkflowStatuses, Outcome
    <2>2. seen' \in [Users -> Copies]
        BY <1>1, <1>6, <2>1, LoadsOutcome DEF SessionTypes
    <2>3. SessionTypes'
        BY <1>1, <1>6, <2>2 DEF SessionTypes, PCs
    <2>. QED BY <1>2, <1>3, <1>4, <1>6, <2>3, OutcomesOnly
<1>. QED BY <1>5, <1>6

\* The endpoints of one commit.
LEMMA SetStep ==
    ASSUME IInv, NEW x \in Recs, NEW from, NEW to \in WorkflowStatuses, Set(x, from, to)
    PROVE  IInv'
<1> USE DEF Set, session
<1>1. TypeOK'
    BY DEF IInv, TypeOK
<1>2. Sessions'
    BY DEF IInv, Sessions, SessionOK, CopyOK, Approved
<1>3. ApprovedSound' /\ RowsAuthorised'
    BY DEF IInv, ApprovedSound, RowsAuthorised, Approved
<1>. QED BY <1>1, <1>2, <1>3 DEF IInv

-----------------------------------------------------------------------------
\* The tables are empty and nobody is in a session.
LEMMA InitIInv == Init => IInv
<1> SUFFICES ASSUME Init PROVE IInv
    OBVIOUS
<1> USE DEF Init
<1>1. TypeOK
    BY SomeRecType DEF TypeOK, NoAssignments, NoRows, NoCopy, NoPlan, Copies, Statuses,
        AssignmentStatuses, BatchStatuses, RowStatuses, WorkflowStatuses, PCs
<1>2. Sessions
    BY DEF Sessions, SessionOK, Bound, Deciding, Executing
<1>3. ApprovedSound /\ RowsAuthorised
    BY DEF ApprovedSound, RowsAuthorised, Approved, NoRows
<1>. QED BY <1>1, <1>2, <1>3 DEF IInv

\* Every step preserves the invariant.
LEMMA NextIInv == IInv /\ [Next]_vars => IInv'
<1> SUFFICES ASSUME IInv, [Next]_vars PROVE IInv'
    OBVIOUS
<1>1. ASSUME NEW u \in Users, SessionStart(u) PROVE IInv'
    BY <1>1, SubmitReadStep, DecisionReadStep, ExecuteReadStep, OutcomeCheckSteps DEF SessionStart
<1>2. ASSUME NEW u \in Users, SessionStep(u) PROVE IInv'
    BY <1>2, SubmitCommitStep, BatchCommitStep, ApprovePartialStep, ApproveAllStep, HookReadStep,
       HookRowStep, RejectFlushStep, RejectCommitStep, RejectHookStep, ExecuteRowStep,
       ExecuteRowFailsStep, BatchFinishStep, ExecuteApplyStep, ExecuteFinishStep, OutcomeEndSteps
    DEF SessionStep
<1>3. ASSUME NEW u \in Users, Abort(u) PROVE IInv'
    BY <1>3, AbortStep
<1>4. ASSUME NEW x \in Recs,
             \/ create_outcome_for_recommendation(x) \/ mark_recommendation_applied(x)
             \/ mark_recommendation_acted_on(x) \/ analyze_outcome_impact(x)
      PROVE  IInv'
    BY <1>4, SetStep
    DEF create_outcome_for_recommendation, mark_recommendation_applied,
        mark_recommendation_acted_on, analyze_outcome_impact, WorkflowStatuses
<1>5. CASE UNCHANGED vars
    BY <1>5 DEF vars, IInv, TypeOK, Sessions, SessionOK, CopyOK, ApprovedSound, RowsAuthorised,
        Approved
<1>. QED BY <1>1, <1>2, <1>3, <1>4, <1>5 DEF Next

\* The inductive invariant holds throughout.
THEOREM Invariance == Spec => []IInv
BY InitIInv, NextIInv, PTL DEF Spec

\* Tables and sessions are typed.
THEOREM TypeCorrect == Spec => []TypeOK
<1>1. IInv => TypeOK
    BY DEF IInv
<1>. QED BY Invariance, <1>1, PTL

\* An approved or executed request was approved by every assignee
\* (approve_assignment), however handlers interleave and die.
THEOREM ApprovalIsUnanimous == Spec => []ApprovedSound
<1>1. IInv => ApprovedSound
    BY DEF IInv
<1>. QED BY Invariance, <1>1, PTL

\* Batch rows are executed under an approved request only (execute_batch).
THEOREM BatchesAuthorised == Spec => []RowsAuthorised
<1>1. IInv => RowsAuthorised
    BY DEF IInv
<1>. QED BY Invariance, <1>1, PTL

-----------------------------------------------------------------------------
(* Refinement *)

decision == [r \in Requests |-> DecisionOf(r)]

\* The decision on a request depends on its status and its assignments.
LEMMA SameDecision ==
    ASSUME NEW r \in Requests, status'[r] = status[r], assigned'[r] = assigned[r]
    PROVE  DecisionOf(r)' = DecisionOf(r)
BY DEF DecisionOf, Approved

\* The decisions on all requests but one stay: the new decisions are the old ones
\* with that one replaced.
LEMMA OneDecision ==
    ASSUME NEW s \in Requests,
           \A r \in Requests \ {s} : status'[r] = status[r] /\ assigned'[r] = assigned[r]
    PROVE  decision' = [decision EXCEPT ![s] = DecisionOf(s)']
<1>1. \A r \in Requests \ {s} : DecisionOf(r)' = DecisionOf(r)
    BY SameDecision
<1>. QED BY <1>1 DEF decision

\* A step that leaves status and assignments alone is a stutter of Unanimity.
LEMMA Stutter ==
    ASSUME UNCHANGED <<status, assigned>>
    PROVE  UNCHANGED <<assigned, decision>>
BY SameDecision DEF decision

\* A deciding session finds the request open or rejected.
LEMMA UndecidedDecision ==
    ASSUME IInv, NEW u \in Users, pc[u] \in Deciding
    PROVE  decision[at[u]] =
               IF \E v \in Approvers : assigned[at[u]][v] = "rejected" THEN "rejected" ELSE "open"
BY Undecided DEF decision, DecisionOf

\* SubmitCommit is Submit.
LEMMA SubmitRefines ==
    ASSUME IInv, NEW u \in Users, SubmitCommit(u) PROVE Abstract!Next
<1>1. PICK r \in Requests :
        /\ status[r] = "absent"
        /\ status' = [status EXCEPT ![r] = "submitted"]
        /\ assigned' = [assigned EXCEPT ![r] =
               [v \in Approvers |-> IF v \in plan[u].approvers THEN "pending" ELSE "none"]]
    BY DEF SubmitCommit
<1>2. /\ TableTypes
      /\ plan[u].approvers \in SUBSET Approvers /\ plan[u].approvers # {}
    BY TypeHalves DEF IInv, SessionTypes, Sessions, SessionOK, SubmitCommit
<1>3. decision[r] = "none"
    BY <1>1 DEF decision, DecisionOf
<1>4. DecisionOf(r)' = "open"
    <2>1. status'[r] = "submitted" /\ \A v \in Approvers : assigned'[r][v] \in {"pending", "none"}
        BY <1>1, <1>2 DEF TableTypes
    <2>. QED BY <2>1 DEF DecisionOf, Approved
<1>5. decision' = [decision EXCEPT ![r] = "open"]
    BY <1>1, <1>2, <1>4, OneDecision DEF TableTypes
<1>6. Abstract!Submit(r, plan[u].approvers)
    BY <1>1, <1>2, <1>3, <1>5 DEF Abstract!Submit, decision
<1>. QED BY <1>2, <1>6 DEF Abstract!Next

\* ApprovePartial is a vote that decides nothing.
LEMMA ApprovePartialRefines ==
    ASSUME IInv, NEW u \in Users, ApprovePartial(u) PROVE Abstract!Next
<1> USE DEF ApprovePartial
<1>1. PICK r \in Requests : r = at[u]
    BY Undecided DEF Deciding
<1>2. /\ TableTypes /\ u \in Approvers
      /\ status[r] # "absent" /\ ~Approved(r) /\ assigned[r][u] = "pending"
    BY <1>1, TypeHalves, Undecided DEF IInv, Deciding
<1>3. decision[r] = IF \E v \in Approvers : assigned[r][v] = "rejected" THEN "rejected" ELSE "open"
    BY <1>1, UndecidedDecision DEF Deciding
<1>4. /\ status'[r] \in {status[r], "partially_approved"}
      /\ assigned'[r][u] = "approved"
      /\ \A v \in Approvers \ {u} : assigned'[r][v] = assigned[r][v]
    BY <1>1, <1>2 DEF TableTypes, Write
<1>5. DecisionOf(r)' = decision[r]
    BY <1>2, <1>3, <1>4 DEF DecisionOf, Approved
<1>6. decision' = decision
    <2>1. decision' = [decision EXCEPT ![r] = DecisionOf(r)']
        BY <1>1, <1>2, OneDecision DEF TableTypes
    <2>. QED BY <1>5, <2>1 DEF decision
<1>7. assigned' = [assigned EXCEPT ![r][u] = "approved"]
    BY <1>1
<1>8. Abstract!Approve(r, u)
    BY <1>2, <1>3, <1>6, <1>7 DEF Abstract!Approve, decision
<1>. QED BY <1>2, <1>8 DEF Abstract!Next

\* ApproveAll is the vote that makes the request unanimous.
LEMMA ApproveAllRefines ==
    ASSUME IInv, NEW u \in Users, ApproveAll(u) PROVE Abstract!Next
<1> USE DEF ApproveAll
<1>1. PICK r \in Requests : r = at[u]
    BY Undecided DEF Deciding
<1>2. TableTypes /\ u \in Approvers /\ assigned[r][u] = "pending"
    BY <1>1, TypeHalves, Undecided DEF IInv, Deciding
<1>3. \A v \in Approvers : assigned'[r][v] \in {"none", "approved"}
    BY <1>1, ApproveAllStep
<1>4. /\ status'[r] = "approved"
      /\ \A v \in Approvers \ {u} : assigned'[r][v] = assigned[r][v]
    BY <1>1, <1>2 DEF TableTypes
<1>5. decision[r] = "open"
    <2>1. \A v \in Approvers : assigned[r][v] # "rejected"
        BY <1>2, <1>3, <1>4
    <2>. QED BY <1>1, <2>1, UndecidedDecision DEF Deciding
<1>6. decision' = [decision EXCEPT ![r] = "approved"]
    <2>1. DecisionOf(r)' = "approved"
        BY <1>4 DEF DecisionOf, Approved
    <2>. QED BY <1>1, <1>2, <2>1, OneDecision DEF TableTypes
<1>7. assigned' = [assigned EXCEPT ![r][u] = "approved"]
    BY <1>1
<1>8. Abstract!Approve(r, u)
    BY <1>2, <1>3, <1>5, <1>6, <1>7 DEF Abstract!Approve, Abstract!Unanimous, decision
<1>. QED BY <1>2, <1>8 DEF Abstract!Next

\* RejectCommit is Reject.
LEMMA RejectRefines ==
    ASSUME IInv, NEW u \in Users, RejectCommit(u) PROVE Abstract!Next
<1> USE DEF RejectCommit
<1>1. PICK r \in Requests : r = at[u]
    BY Undecided DEF Deciding
<1>2. TableTypes /\ u \in Approvers /\ assigned[r][u] = "pending"
    BY <1>1, TypeHalves, Undecided DEF IInv, Deciding
<1>3. decision[r] \in {"open", "rejected"}
    BY <1>1, UndecidedDecision DEF Deciding
<1>4. status'[r] = "rejected" /\ assigned'[r][u] = "rejected"
    BY <1>1, <1>2 DEF TableTypes
<1>5. decision' = [decision EXCEPT ![r] = "rejected"]
    <2>1. DecisionOf(r)' = "rejected"
        BY <1>2, <1>4 DEF DecisionOf, Approved
    <2>. QED BY <1>1, <1>2, <2>1, OneDecision DEF TableTypes
<1>6. assigned' = [assigned EXCEPT ![r][u] = "rejected"]
    BY <1>1
<1>7. Abstract!Reject(r, u)
    BY <1>2, <1>3, <1>5, <1>6 DEF Abstract!Reject, decision
<1>. QED BY <1>2, <1>7 DEF Abstract!Next

\* ExecuteFinish is Execute, or nothing when another execution came first.
LEMMA ExecuteRefines ==
    ASSUME IInv, NEW u \in Users, ExecuteFinish(u)
    PROVE  Abstract!Next \/ UNCHANGED <<assigned, decision>>
<1> USE DEF ExecuteFinish
<1>1. PICK r \in Requests : r = at[u]
    BY DEF IInv, Sessions, SessionOK, Bound
<1>2. TableTypes /\ Approved(r)
    BY <1>1, TypeHalves DEF IInv, Sessions, SessionOK, Executing
<1>3. decision[r] = status[r]
    BY <1>2 DEF decision, DecisionOf, Approved
<1>4. decision' = [decision EXCEPT ![r] = "executed"]
    <2>1. DecisionOf(r)' = "executed"
        BY <1>1, <1>2 DEF TableTypes, DecisionOf, Approved
    <2>. QED BY <1>1, <1>2, <2>1, OneDecision DEF TableTypes
<1>5. CASE status[r] = "approved"
    <2>1. Abstract!Execute(r)
        BY <1>3, <1>4, <1>5 DEF Abstract!Execute, decision
    <2>. QED BY <2>1 DEF Abstract!Next
<1>6. CASE status[r] = "executed"
    BY <1>3, <1>4, <1>6 DEF decision
<1>. QED BY <1>2, <1>5, <1>6 DEF Approved

\* Every step of the workflow is a step of Unanimity or a stutter.
LEMMA StepRefines ==
    ASSUME IInv, [Next]_vars PROVE Abstract!Next \/ UNCHANGED <<assigned, decision>>
<1>1. ASSUME NEW u \in Users, SessionStep(u)
      PROVE  Abstract!Next \/ UNCHANGED <<assigned, decision>>
    <2>1. CASE SubmitCommit(u)
        BY <2>1, SubmitRefines
    <2>2. CASE ApprovePartial(u)
        BY <2>2, ApprovePartialRefines
    <2>3. CASE ApproveAll(u)
        BY <2>3, ApproveAllRefines
    <2>4. CASE RejectCommit(u)
        BY <2>4, RejectRefines
    <2>5. CASE ExecuteFinish(u)
        BY <2>5, ExecuteRefines
    <2>6. CASE \/ BatchCommit(u) \/ HookRead(u) \/ (\E x \in Recs : HookRow(u, x))
               \/ RejectFlush(u) \/ RejectHook(u)
               \/ (\E x \in Recs : ExecuteRow(u, x) \/ ExecuteRowFails(u, x))
               \/ BatchFinish(u) \/ ExecuteApply(u) \/ SafeExecute(u)
               \/ DirectApprove(u) \/ DirectReject(u)
        <3>1. UNCHANGED <<status, assigned>>
            BY <2>6 DEF BatchCommit, HookRead, HookRow, RejectFlush, RejectHook, ExecuteRow,
                ExecuteRowFails, BatchFinish, ExecuteApply, SafeExecute, DirectApprove,
                DirectReject, db
        <3>. QED BY <3>1, Stutter
    <2>. QED BY <1>1, <2>1, <2>2, <2>3, <2>4, <2>5, <2>6 DEF SessionStep
<1>2. ASSUME NEW u \in Users, SessionStart(u) \/ Abort(u)
      PROVE  UNCHANGED <<assigned, decision>>
    <2>1. UNCHANGED <<status, assigned>>
        BY <1>2 DEF SessionStart, SubmitRead, DecisionRead, ExecuteRead, SafeExecuteCheck,
            DirectApproveCheck, DirectRejectCheck, Abort, db
    <2>. QED BY <2>1, Stutter
<1>3. ASSUME NEW x \in Recs,
             \/ create_outcome_for_recommendation(x) \/ mark_recommendation_applied(x)
             \/ mark_recommendation_acted_on(x) \/ analyze_outcome_impact(x)
      PROVE  UNCHANGED <<assigned, decision>>
    <2>1. UNCHANGED <<status, assigned>>
        BY <1>3 DEF create_outcome_for_recommendation, mark_recommendation_applied,
            mark_recommendation_acted_on, analyze_outcome_impact, Set
    <2>. QED BY <2>1, Stutter
<1>4. CASE UNCHANGED vars
    BY <1>4, Stutter DEF vars
<1>. QED BY <1>1, <1>2, <1>3, <1>4 DEF Next

\* The approval workflow implements the abstract specification of unanimous
\* decisions, for any set of requests, approvers and admins.
THEOREM Refinement == Spec => KeepsUnanimity
<1>1. Init => Abstract!Init
    BY DEF Init, Abstract!Init, DecisionOf, NoAssignments
<1>2. IInv /\ [Next]_vars => [Abstract!Next]_<<assigned, decision>>
    BY StepRefines
<1>3. IInv /\ [Next]_vars => [Abstract!Next]_<<assigned, [r \in Requests |-> DecisionOf(r)]>>
    BY <1>2 DEF decision
<1>. QED BY Invariance, <1>1, <1>3, PTL DEF Spec, KeepsUnanimity, Abstract!Spec
-----------------------------------------------------------------------------
(* Open requests *)

\* A decision was loaded from an open request.
SeenOpen == \A u \in Users : pc[u] \in Deciding => seen[u].status \in OPEN_STATUSES

OpenInv == OpenHasPending /\ SeenOpen

\* The steps of u that write no decision and load none.
Aside(u) ==
    \/ \E x \in Recs, A \in SUBSET Approvers, B \in SUBSET Recs : SubmitRead(u, x, A, B)
    \/ \E r \in Requests, whole \in BOOLEAN : ExecuteRead(u, r, whole)
    \/ \E x \in Recs : SafeExecuteCheck(u, x) \/ DirectApproveCheck(u, x) \/ DirectRejectCheck(u, x)
    \/ BatchCommit(u) \/ HookRead(u) \/ (\E x \in Recs : HookRow(u, x)) \/ RejectHook(u)
    \/ (\E x \in Recs : ExecuteRow(u, x) \/ ExecuteRowFails(u, x))
    \/ BatchFinish(u) \/ ExecuteApply(u) \/ SafeExecute(u) \/ DirectApprove(u) \/ DirectReject(u)
    \/ Abort(u)

\* The endpoints of one commit.
Endpoint(x) ==
    \/ create_outcome_for_recommendation(x) \/ mark_recommendation_applied(x)
    \/ mark_recommendation_acted_on(x) \/ analyze_outcome_impact(x)

\* Any other step loads a decision, flushes one, writes one, inserts a request, or
\* marks one executed.
LEMMA NextCases ==
    ASSUME [Next]_vars
    PROVE  \/ \E u \in Users :
                \/ Aside(u) \/ SubmitCommit(u) \/ ApprovePartial(u) \/ ApproveAll(u)
                \/ RejectFlush(u) \/ RejectCommit(u) \/ ExecuteFinish(u)
                \/ \E r \in Requests :
                     DecisionRead(u, r, "approving") \/ DecisionRead(u, r, "rejecting")
           \/ \E x \in Recs : Endpoint(x)
           \/ UNCHANGED vars
BY Zenon DEF Next, SessionStart, SessionStep, Aside, Endpoint

\* An aside writes no decision, changes nobody else's session and is no decision after.
LEMMA AsideFrame ==
    ASSUME IInv, NEW u \in Users, Aside(u)
    PROVE  UNCHANGED <<status, rec, assigned, raced>> /\ OthersSame(u) /\ pc'[u] \notin Deciding
<1>1. SessionTypes
    BY TypeHalves DEF IInv
<1>2. UNCHANGED <<status, rec, assigned, raced>>
    BY DEF Aside, SubmitRead, ExecuteRead, SafeExecuteCheck, DirectApproveCheck, DirectRejectCheck,
        BatchCommit, HookRead, HookRow, RejectHook, ExecuteRow, ExecuteRowFails, BatchFinish,
        ExecuteApply, SafeExecute, DirectApprove, DirectReject, Abort, db
<1>3. ASSUME End(u) PROVE OthersSame(u) /\ pc'[u] \notin Deciding
    BY <1>1, <1>3 DEF End, OthersSame, SessionTypes, Deciding
<1>4. ASSUME NEW x \in Recs, NEW A \in SUBSET Approvers, NEW B \in SUBSET Recs, SubmitRead(u, x, A, B)
      PROVE  OthersSame(u) /\ pc'[u] \notin Deciding
    BY <1>1, <1>4 DEF SubmitRead, OthersSame, SessionTypes, Deciding
<1>5. ASSUME NEW r \in Requests, NEW whole \in BOOLEAN, ExecuteRead(u, r, whole)
      PROVE  OthersSame(u) /\ pc'[u] \notin Deciding
    BY <1>1, <1>5 DEF ExecuteRead, Begin, OthersSame, SessionTypes, Deciding
<1>6. ASSUME NEW x \in Recs,
             SafeExecuteCheck(u, x) \/ DirectApproveCheck(u, x) \/ DirectRejectCheck(u, x)
      PROVE  OthersSame(u) /\ pc'[u] \notin Deciding
    BY <1>1, <1>6 DEF SafeExecuteCheck, DirectApproveCheck, DirectRejectCheck, OthersSame,
        SessionTypes, Deciding
<1>7. ASSUME HookRead(u) \/ (\E x \in Recs : HookRow(u, x)) \/ BatchFinish(u) \/ ExecuteApply(u)
      PROVE  OthersSame(u) /\ pc'[u] \notin Deciding
    <2>1. CASE End(u)
        BY <2>1, <1>3
    <2>2. CASE ~End(u)
        BY <1>1, <1>7, <2>2 DEF HookRead, HookRow, BatchFinish, ExecuteApply, Goto, OthersSame,
            SessionTypes, Deciding
    <2>. QED BY <2>1, <2>2
<1>8. ASSUME NEW x \in Recs, ExecuteRow(u, x) \/ ExecuteRowFails(u, x)
      PROVE  OthersSame(u) /\ pc'[u] \notin Deciding
    BY <1>8 DEF ExecuteRow, ExecuteRowFails, OthersSame, Deciding
<1>9. ASSUME BatchCommit(u) \/ RejectHook(u) \/ SafeExecute(u) \/ DirectApprove(u)
             \/ DirectReject(u) \/ Abort(u)
      PROVE  OthersSame(u) /\ pc'[u] \notin Deciding
    BY <1>3, <1>9 DEF BatchCommit, RejectHook, SafeExecute, DirectApprove, DirectReject, Abort
<1>. QED BY <1>2, <1>4, <1>5, <1>6, <1>7, <1>8, <1>9 DEF Aside

\* An endpoint writes an outcome and nothing else.
LEMMA EndpointFrame ==
    ASSUME NEW x \in Recs, Endpoint(x)
    PROVE  UNCHANGED <<status, rec, assigned, batch, rows, session, raced, applied>>
BY DEF Endpoint, create_outcome_for_recommendation, mark_recommendation_applied,
       mark_recommendation_acted_on, analyze_outcome_impact, Set

\* A step of u that leaves the sessions of the others alone keeps SeenOpen for them.
LEMMA SeenKept ==
    ASSUME SeenOpen, NEW u \in Users, OthersSame(u),
           pc'[u] \in Deciding => seen'[u].status \in OPEN_STATUSES
    PROVE  SeenOpen'
BY DEF SeenOpen, OthersSame
LEMMA OpenDecisionRead ==
    ASSUME IInv, OpenInv, NEW u \in Users, NEW r \in Requests, NEW label,
           DecisionRead(u, r, label)
    PROVE  OpenInv'
<1>1. SessionTypes
    BY TypeHalves DEF IInv
<1>2. OpenHasPending'
    BY DEF OpenInv, OpenHasPending, DecisionRead, db
<1>3. OthersSame(u) /\ seen'[u].status \in OPEN_STATUSES
    BY <1>1 DEF DecisionRead, Begin, SessionTypes, OthersSame
<1>. QED BY <1>2, <1>3, SeenKept DEF OpenInv

LEMMA OpenRejectFlush ==
    ASSUME IInv, OpenInv, NEW u \in Users, RejectFlush(u) PROVE OpenInv'
<1>1. SessionTypes
    BY TypeHalves DEF IInv
<1>2. OpenHasPending'
    BY DEF OpenInv, OpenHasPending, RejectFlush, db
<1>3. OthersSame(u) /\ seen'[u].status = seen[u].status
    BY <1>1 DEF RejectFlush, SessionTypes, OthersSame, Copies
<1>4. seen[u].status \in OPEN_STATUSES
    BY DEF OpenInv, SeenOpen, RejectFlush, Deciding
<1>. QED BY <1>2, <1>3, <1>4, SeenKept DEF OpenInv

\* A new request waits for all its approvers.
LEMMA OpenSubmit ==
    ASSUME IInv, OpenInv, NEW u \in Users, SubmitCommit(u) PROVE OpenInv'
<1>1. TableTypes /\ SessionTypes
    BY TypeHalves DEF IInv
<1>2. PICK r \in Requests :
        /\ status' = [status EXCEPT ![r] = "submitted"]
        /\ assigned' = [assigned EXCEPT ![r] =
               [v \in Approvers |-> IF v \in plan[u].approvers THEN "pending" ELSE "none"]]
    BY DEF SubmitCommit
<1>3. raced' = raced
    BY DEF SubmitCommit
<1>4. PICK a \in Approvers : a \in plan[u].approvers
    BY <1>1 DEF IInv, Sessions, SessionOK, SessionTypes, SubmitCommit
<1>5. /\ status'[r] = "submitted" /\ assigned'[r][a] = "pending"
      /\ \A v \in Approvers : assigned'[r][v] \in {"pending", "none"}
    BY <1>1, <1>2, <1>4 DEF TableTypes
<1>6. \A s \in Requests \ {r} : status'[s] = status[s] /\ assigned'[s] = assigned[s]
    BY <1>1, <1>2 DEF TableTypes
<1>7. OpenHasPending'
    BY <1>3, <1>5, <1>6 DEF OpenInv, OpenHasPending
<1>8. OthersSame(u) /\ pc'[u] \notin Deciding
    <2>1. CASE End(u)
        BY <1>1, <2>1 DEF End, OthersSame, SessionTypes, Deciding
    <2>2. CASE ~End(u)
        BY <1>1, <2>2 DEF SubmitCommit, OthersSame, SessionTypes, Deciding
    <2>. QED BY <2>1, <2>2
<1>. QED BY <1>7, <1>8, SeenKept DEF OpenInv

\* A decision of u: the other requests keep status and assignments, the other
\* assignments of this one stay, and if it does not count as raced afterwards, the
\* copy was up to date.
LEMMA DecisionFrame ==
    ASSUME IInv, NEW u \in Users, ApprovePartial(u) \/ ApproveAll(u) \/ RejectCommit(u)
    PROVE  /\ at[u] \in Requests /\ u \in Approvers
           /\ raced \subseteq raced'
           /\ at[u] \notin raced' => seen[u].status = status[at[u]] /\ seen[u].assigned = assigned[at[u]]
           /\ \A r \in Requests \ {at[u]} : status'[r] = status[r] /\ assigned'[r] = assigned[r]
           /\ \A v \in Approvers \ {u} : assigned'[at[u]][v] = assigned[at[u]][v]
           /\ rec' = rec
           /\ OthersSame(u) /\ pc'[u] \notin Deciding
<1>1. TableTypes /\ SessionTypes
    BY TypeHalves DEF IInv
<1>2. at[u] \in Requests /\ u \in Approvers
    BY Undecided DEF ApprovePartial, ApproveAll, RejectCommit, Deciding
<1>3. Mark(u) /\ rec' = rec
    BY DEF ApprovePartial, ApproveAll, RejectCommit
<1>4. PICK s \in Statuses, a \in AssignmentStatuses :
        /\ status' = [status EXCEPT ![at[u]] = s]
        /\ assigned' = [assigned EXCEPT ![at[u]][u] = a]
    <2>1. CASE ApprovePartial(u)
        <3>1. Write(status[at[u]], seen[u].status, "partially_approved") \in Statuses
            BY <1>1, <1>2 DEF TableTypes, Write, Statuses, OPEN_STATUSES
        <3>2. /\ status' = [status EXCEPT ![at[u]] = Write(status[at[u]], seen[u].status, "partially_approved")]
              /\ assigned' = [assigned EXCEPT ![at[u]][u] = "approved"]
            BY <2>1 DEF ApprovePartial
        <3>. QED BY <3>1, <3>2 DEF AssignmentStatuses
    <2>2. CASE ApproveAll(u)
        BY <2>2 DEF ApproveAll, Statuses, AssignmentStatuses
    <2>3. CASE RejectCommit(u)
        BY <2>3 DEF RejectCommit, Statuses, AssignmentStatuses
    <2>. QED BY <2>1, <2>2, <2>3
<1>5. /\ \A r \in Requests \ {at[u]} : status'[r] = status[r] /\ assigned'[r] = assigned[r]
      /\ \A v \in Approvers \ {u} : assigned'[at[u]][v] = assigned[at[u]][v]
    BY <1>1, <1>2, <1>4 DEF TableTypes
<1>6. /\ raced \subseteq raced'
      /\ at[u] \notin raced' => seen[u].status = status[at[u]] /\ seen[u].assigned = assigned[at[u]]
    BY <1>3 DEF Mark
<1>7. OthersSame(u) /\ pc'[u] \notin Deciding
    <2>1. CASE End(u)
        BY <1>1, <2>1 DEF End, OthersSame, SessionTypes, Deciding
    <2>2. CASE ~End(u)
        BY <1>1, <2>2 DEF ApprovePartial, ApproveAll, RejectCommit, Goto, OthersSame, SessionTypes,
            Deciding
    <2>. QED BY <2>1, <2>2
<1>. QED BY <1>2, <1>3, <1>5, <1>6, <1>7

\* An approval that is not the last, written from an up to date copy, leaves somebody
\* to wait for.
LEMMA OpenApprovePartial ==
    ASSUME IInv, OpenInv, NEW u \in Users, ApprovePartial(u) PROVE OpenInv'
<1> DEFINE r == at[u]
<1>1. TableTypes
    BY TypeHalves DEF IInv
<1>2. /\ r \in Requests /\ u \in Approvers
      /\ raced \subseteq raced'
      /\ r \notin raced' => seen[u].status = status[r] /\ seen[u].assigned = assigned[r]
      /\ \A q \in Requests \ {r} : status'[q] = status[q] /\ assigned'[q] = assigned[q]
      /\ \A v \in Approvers \ {u} : assigned'[r][v] = assigned[r][v]
      /\ OthersSame(u) /\ pc'[u] \notin Deciding
    BY DecisionFrame
<1>3. assigned'[r][u] = "approved"
    BY <1>1, <1>2 DEF TableTypes, ApprovePartial
<1>4. ASSUME r \notin raced'
      PROVE  /\ status'[r] = "partially_approved"
             /\ \E v \in Approvers : assigned'[r][v] = "pending"
             /\ \A v \in Approvers : assigned'[r][v] # "rejected"
    <2>1. seen[u].status = status[r] /\ seen[u].assigned = assigned[r] /\ r \notin raced
        BY <1>2, <1>4
    <2>2. status[r] \in OPEN_STATUSES
        BY <2>1 DEF OpenInv, SeenOpen, ApprovePartial, Deciding
    <2>3. \A v \in Approvers : assigned[r][v] # "rejected"
        BY <1>2, <2>1, <2>2 DEF OpenInv, OpenHasPending
    <2>4. PICK v \in Approvers \ {u} : assigned[r][v] \notin {"none", "approved"}
        BY <2>1 DEF ApprovePartial, all_approved
    <2>5. assigned[r][v] = "pending"
        BY <1>1, <1>2, <2>3, <2>4 DEF TableTypes, AssignmentStatuses
    <2>6. status'[r] = "partially_approved"
        BY <1>1, <1>2, <2>1 DEF TableTypes, ApprovePartial, Write
    <2>. QED BY <1>2, <1>3, <2>3, <2>4, <2>5, <2>6
<1>5. OpenHasPending'
    BY <1>2, <1>3, <1>4 DEF OpenInv, OpenHasPending
<1>. QED BY <1>2, <1>5, SeenKept DEF OpenInv

\* The other decisions close the request.
LEMMA OpenDecided ==
    ASSUME IInv, OpenInv, NEW u \in Users, ApproveAll(u) \/ RejectCommit(u) PROVE OpenInv'
<1>1. TableTypes
    BY TypeHalves DEF IInv
<1>2. /\ at[u] \in Requests /\ u \in Approvers
      /\ raced \subseteq raced'
      /\ \A q \in Requests \ {at[u]} : status'[q] = status[q] /\ assigned'[q] = assigned[q]
      /\ OthersSame(u) /\ pc'[u] \notin Deciding
    BY DecisionFrame
<1>3. status'[at[u]] \notin OPEN_STATUSES
    BY <1>1, <1>2 DEF TableTypes, ApproveAll, RejectCommit, OPEN_STATUSES
<1>4. OpenHasPending'
    BY <1>2, <1>3 DEF OpenInv, OpenHasPending
<1>. QED BY <1>2, <1>4, SeenKept DEF OpenInv

LEMMA OpenExecuted ==
    ASSUME IInv, OpenInv, NEW u \in Users, ExecuteFinish(u) PROVE OpenInv'
<1>1. TableTypes /\ SessionTypes
    BY TypeHalves DEF IInv
<1>2. at[u] \in Requests
    BY DEF IInv, Sessions, SessionOK, Bound, ExecuteFinish
<1>3. /\ status'[at[u]] = "executed" /\ UNCHANGED <<assigned, raced>>
      /\ \A q \in Requests \ {at[u]} : status'[q] = status[q]
    BY <1>1, <1>2 DEF TableTypes, ExecuteFinish
<1>4. OpenHasPending'
    BY <1>3 DEF OpenInv, OpenHasPending, OPEN_STATUSES
<1>5. OthersSame(u) /\ pc'[u] \notin Deciding
    BY <1>1 DEF ExecuteFinish, End, OthersSame, SessionTypes, Deciding
<1>. QED BY <1>4, <1>5, SeenKept DEF OpenInv

\* Every step preserves the invariant on open requests.
LEMMA NextOpen == IInv /\ OpenInv /\ [Next]_vars => OpenInv'
<1> SUFFICES ASSUME IInv, OpenInv, [Next]_vars PROVE OpenInv'
    OBVIOUS
<1>1. ASSUME NEW u \in Users, Aside(u) PROVE OpenInv'
    <2>1. UNCHANGED <<status, rec, assigned, raced>> /\ OthersSame(u) /\ pc'[u] \notin Deciding
        BY <1>1, AsideFrame
    <2>2. OpenHasPending'
        BY <2>1 DEF OpenInv, OpenHasPending
    <2>. QED BY <2>1, <2>2, SeenKept DEF OpenInv
<1>2. ASSUME NEW x \in Recs, Endpoint(x) PROVE OpenInv'
    <2>1. UNCHANGED <<status, rec, assigned, batch, rows, session, raced, applied>>
        BY <1>2, EndpointFrame
    <2>. QED BY <2>1 DEF session, OpenInv, OpenHasPending, SeenOpen
<1>3. CASE UNCHANGED vars
    BY <1>3 DEF vars, OpenInv, OpenHasPending, SeenOpen
<1>. QED BY <1>1, <1>2, <1>3, NextCases, OpenDecisionRead, OpenRejectFlush, OpenSubmit,
            OpenApprovePartial, OpenDecided, OpenExecuted

\* An open request waits for somebody and shows how far it is, unless two decisions
\* on it overlapped (approve_assignment, reject_assignment).
THEOREM OpenRequestsWait == Spec => []OpenHasPending
<1>1. Init => OpenInv
    BY DEF Init, OpenInv, OpenHasPending, SeenOpen, Deciding, OPEN_STATUSES
<1>2. OpenInv => OpenHasPending
    BY DEF OpenInv
<1>. QED BY Invariance, NextOpen, <1>1, <1>2, PTL DEF Spec
-----------------------------------------------------------------------------
(* Sessions of the others *)

\* The rest of the sessions of the others is as it was.
OthersKeep(u) ==
    \A v \in Users \ {u} :
        on'[v] = on[v] /\ todo'[v] = todo[v] /\ done'[v] = done[v] /\ dirty'[v] = dirty[v]

\* A step of u changes u's session only.
LEMMA SessionFrame ==
    ASSUME IInv, NEW u \in Users,
           \/ Aside(u) \/ SubmitCommit(u) \/ ApprovePartial(u) \/ ApproveAll(u)
           \/ RejectFlush(u) \/ RejectCommit(u) \/ ExecuteFinish(u)
           \/ \E r \in Requests : DecisionRead(u, r, "approving") \/ DecisionRead(u, r, "rejecting")
    PROVE  OthersSame(u) /\ OthersKeep(u)
<1>1. SessionTypes
    BY TypeHalves DEF IInv
<1> DEFINE Goal == OthersSame(u) /\ OthersKeep(u)
<1>2. ASSUME End(u) PROVE Goal
    BY <1>1, <1>2 DEF End, OthersSame, OthersKeep, SessionTypes
<1>3. ASSUME NEW x \in Recs, NEW A \in SUBSET Approvers, NEW B \in SUBSET Recs, SubmitRead(u, x, A, B)
      PROVE  Goal
    BY <1>1, <1>3 DEF SubmitRead, OthersSame, OthersKeep, SessionTypes
<1>4. ASSUME NEW r \in Requests, NEW whole \in BOOLEAN, ExecuteRead(u, r, whole) PROVE Goal
    BY <1>1, <1>4 DEF ExecuteRead, Begin, OthersSame, OthersKeep, SessionTypes
<1>5. ASSUME NEW x \in Recs,
             SafeExecuteCheck(u, x) \/ DirectApproveCheck(u, x) \/ DirectRejectCheck(u, x)
      PROVE  Goal
    BY <1>1, <1>5 DEF SafeExecuteCheck, DirectApproveCheck, DirectRejectCheck, OthersSame,
        OthersKeep, SessionTypes
<1>6. ASSUME NEW r \in Requests, DecisionRead(u, r, "approving") \/ DecisionRead(u, r, "rejecting")
      PROVE  Goal
    BY <1>1, <1>6 DEF DecisionRead, Begin, OthersSame, OthersKeep, SessionTypes
<1>7. ASSUME NEW x \in Recs, HookRow(u, x) \/ ExecuteRow(u, x) \/ ExecuteRowFails(u, x) PROVE Goal
    <2>1. CASE ~End(u)
        BY <1>1, <1>7, <2>1 DEF HookRow, ExecuteRow, ExecuteRowFails, OthersSame, OthersKeep, SessionTypes
    <2>. QED BY <1>2, <2>1
<1>8. ASSUME SubmitCommit(u) \/ HookRead(u) \/ BatchFinish(u) \/ ExecuteApply(u) \/ RejectFlush(u)
             \/ ApprovePartial(u) \/ ApproveAll(u) \/ RejectCommit(u)
      PROVE  Goal
    <2>1. CASE ~End(u)
        BY <1>1, <1>8, <2>1 DEF SubmitCommit, HookRead, BatchFinish, ExecuteApply, RejectFlush,
            ApprovePartial, ApproveAll, RejectCommit, Goto, OthersSame, OthersKeep, SessionTypes
    <2>. QED BY <1>2, <2>1
<1>9. ASSUME BatchCommit(u) \/ RejectHook(u) \/ SafeExecute(u) \/ DirectApprove(u)
             \/ DirectReject(u) \/ Abort(u) \/ ExecuteFinish(u)
      PROVE  Goal
    BY <1>2, <1>9 DEF BatchCommit, RejectHook, SafeExecute, DirectApprove, DirectReject, Abort,
        ExecuteFinish
<1>. QED BY <1>3, <1>4, <1>5, <1>6, <1>7, <1>8, <1>9 DEF Aside

-----------------------------------------------------------------------------
(* Completed batches *)

\* Executions do not overlap: one user executes, one request at a time.
OneAdmin == \A u, v \in Admins : u = v

\* Admins submit and execute.
AdminsExecute == \A u \in Users : pc[u] \in {"insert", "batch", "rows"} => u \in Admins

\* A session begins with an empty record of batch rows.
FreshStart == \A u \in Users : pc[u] = "idle" => done[u] = NoRows /\ dirty[u] = {}

\* The rejection whose batch is still to follow.
Rejecting ==
    \A u \in Users : pc[u] = "reject_hook" => u \in Approvers /\ assigned[at[u]][u] = "rejected"

\* A row that does not speak against completion.
Settled == {"none", "completed", "approved"}

\* An execution in flight: a batch that still says completed did so when it was loaded
\* and the session will write it; every row it has gone through and flushed, or has
\* not to go through, is settled unless it failed.
ExecutionOK(u) ==
    /\ batch[at[u]] = "completed" => Committed(u) = "completed"
    /\ \A x \in dirty[u] : done[u][x] \in {"completed", "failed"}
    /\ \A x \in Recs :
         x \notin todo[u] /\ x \notin dirty[u] /\ done[u][x] # "failed" => rows[at[u]][x] \in Settled

Executions == \A u \in Users : pc[u] = "rows" => ExecutionOK(u)

BatchInv == BatchCompletedSound /\ AdminsExecute /\ FreshStart /\ Rejecting /\ Executions

\* What a session at rest or elsewhere relies on.
RestOK(u) ==
    /\ pc[u] \in {"insert", "batch", "rows"} => u \in Admins
    /\ pc[u] = "idle" => done[u] = NoRows /\ dirty[u] = {}
    /\ pc[u] = "reject_hook" => u \in Approvers /\ assigned[at[u]][u] = "rejected"

\* Of an execution, only u's own steps and the two tables matter.
LEMMA ExecutionKept ==
    ASSUME NEW v \in Users, ExecutionOK(v), at'[v] = at[v], seen'[v] = seen[v],
           todo'[v] = todo[v], done'[v] = done[v], dirty'[v] = dirty[v],
           batch'[at[v]] = "completed" => batch[at[v]] = "completed",
           \A x \in Recs : rows'[at[v]][x] \in Settled \/ rows'[at[v]][x] = rows[at[v]][x]
    PROVE  ExecutionOK(v)'
BY DEF ExecutionOK, Committed

\* A step of u that leaves the batches to themselves but for one, on which no other
\* execution is hurt.
LEMMA BatchCombine ==
    ASSUME IInv, BatchInv, NEW u \in Users, Monotone(u), OthersSame(u), OthersKeep(u),
           RestOK(u)', pc'[u] = "rows" => ExecutionOK(u)',
           BatchCompletedSound',
           \A v \in Users \ {u} : pc[v] = "rows" =>
               /\ batch'[at[v]] = "completed" => batch[at[v]] = "completed"
               /\ \A x \in Recs : rows'[at[v]][x] \in Settled \/ rows'[at[v]][x] = rows[at[v]][x]
    PROVE  BatchInv'
<1>1. \A v \in Users \ {u} :
        /\ pc'[v] = pc[v] /\ at'[v] = at[v] /\ seen'[v] = seen[v]
        /\ todo'[v] = todo[v] /\ done'[v] = done[v] /\ dirty'[v] = dirty[v]
    BY DEF OthersSame, OthersKeep
<1>2. AdminsExecute' /\ FreshStart'
    BY <1>1 DEF BatchInv, AdminsExecute, FreshStart, RestOK
<1>3. Rejecting'
    <2> SUFFICES ASSUME NEW v \in Users \ {u}, pc'[v] = "reject_hook"
                 PROVE  v \in Approvers /\ assigned'[at'[v]][v] = "rejected"
        BY DEF Rejecting, RestOK
    <2>1. v \in Approvers /\ assigned[at[v]][v] = "rejected"
        BY <1>1 DEF BatchInv, Rejecting
    <2>2. at[v] \in Requests /\ status[at[v]] # "absent"
        BY <1>1 DEF IInv, Sessions, SessionOK, Bound
    <2>. QED BY <1>1, <2>1, <2>2 DEF Monotone
<1>4. Executions'
    <2> SUFFICES ASSUME NEW v \in Users, pc'[v] = "rows" PROVE ExecutionOK(v)'
        BY DEF Executions
    <2>1. CASE v = u
        BY <2>1
    <2>2. CASE v # u
        <3>1. ExecutionOK(v)
            BY <1>1, <2>2 DEF BatchInv, Executions
        <3>. QED BY <1>1, <2>2, <3>1, ExecutionKept
    <2>. QED BY <2>1, <2>2
<1>. QED BY <1>2, <1>3, <1>4 DEF BatchInv

\* A step that writes no batch and leads to no execution.
LEMMA BatchQuiet ==
    ASSUME IInv, BatchInv, NEW u \in Users, Monotone(u), OthersSame(u), OthersKeep(u),
           RestOK(u)', pc'[u] # "rows", UNCHANGED <<batch, rows>>
    PROVE  BatchInv'
<1>1. BatchCompletedSound'
    BY DEF BatchInv, BatchCompletedSound
<1>. QED BY <1>1, BatchCombine

\* A step that ends the session.
LEMMA EndRest ==
    ASSUME IInv, NEW u \in Users, End(u) PROVE RestOK(u)' /\ pc'[u] = "idle" /\ OthersKeep(u) /\ OthersSame(u)
<1>1. SessionTypes
    BY TypeHalves DEF IInv
<1>. QED BY <1>1 DEF End, RestOK, SessionTypes, OthersKeep, OthersSame

\* A request under execution is not one that a rejection works on.
LEMMA NotRejected ==
    ASSUME IInv, BatchInv, NEW u \in Users, NEW v \in Users, pc[v] = "rows",
           pc[u] \in {"reject_outcome", "reject_hook"}
    PROVE  at[u] # at[v]
<1>1. Approved(at[v]) /\ at[v] \in Requests
    BY DEF IInv, Sessions, SessionOK, Executing, Bound
<1>2. CASE pc[u] = "reject_outcome"
    BY <1>1, <1>2, Undecided DEF Deciding
<1>3. CASE pc[u] = "reject_hook"
    BY <1>1, <1>3 DEF BatchInv, Rejecting, IInv, ApprovedSound
<1>. QED BY <1>2, <1>3
LEMMA BatchSubmitRead ==
    ASSUME IInv, BatchInv, NEW u \in Users, NEW x \in Recs, NEW A \in SUBSET Approvers,
           NEW B \in SUBSET Recs, SubmitRead(u, x, A, B), OthersSame(u), OthersKeep(u)
    PROVE  BatchInv'
<1>1. pc'[u] = "insert" /\ u \in Admins
    BY TypeHalves DEF SubmitRead, IInv, SessionTypes
<1>2. Monotone(u) /\ UNCHANGED <<batch, rows>>
    BY Quiet DEF SubmitRead
<1>. QED BY <1>1, <1>2, BatchQuiet DEF RestOK

LEMMA BatchSubmitCommit ==
    ASSUME IInv, BatchInv, NEW u \in Users, SubmitCommit(u) PROVE BatchInv'
<1>1. SessionTypes
    BY TypeHalves DEF IInv
<1>2. Monotone(u) /\ OthersKeep(u)
    BY SubmitCommitStep, SessionFrame
<1>3. u \in Admins
    BY DEF BatchInv, AdminsExecute, SubmitCommit
<1>4. OthersSame(u) /\ RestOK(u)' /\ pc'[u] # "rows"
    <2>1. CASE End(u)
        BY <2>1, EndRest
    <2>2. CASE ~End(u)
        BY <1>1, <1>3, <2>2 DEF SubmitCommit, RestOK, SessionTypes, OthersSame
    <2>. QED BY <2>1, <2>2
<1>. QED BY <1>2, <1>4, BatchQuiet DEF SubmitCommit

\* The batch of a submission is pending; its admin is executing nothing.
LEMMA BatchBatchCommit ==
    ASSUME OneAdmin, IInv, BatchInv, NEW u \in Users, BatchCommit(u) PROVE BatchInv'
<1> USE DEF BatchCommit
<1>1. TableTypes
    BY TypeHalves DEF IInv
<1>2. RestOK(u)' /\ pc'[u] = "idle" /\ OthersKeep(u) /\ OthersSame(u) /\ Monotone(u)
    BY EndRest, Quiet
<1>3. at[u] \in Requests
    BY DEF IInv, Sessions, SessionOK, Bound
<1>4. /\ batch'[at[u]] = "pending"
      /\ \A r \in Requests \ {at[u]} : batch'[r] = batch[r] /\ rows'[r] = rows[r]
    BY <1>1, <1>3 DEF TableTypes
<1>5. BatchCompletedSound'
    BY <1>4 DEF BatchInv, BatchCompletedSound
<1>6. \A v \in Users \ {u} : pc[v] # "rows"
    BY DEF BatchInv, AdminsExecute, OneAdmin
<1>. QED BY <1>2, <1>5, <1>6, BatchCombine

\* Loading, flushing and the checks of the endpoints.
LEMMA BatchReads ==
    ASSUME IInv, BatchInv, NEW u \in Users, OthersSame(u), OthersKeep(u),
           \/ \E r \in Requests : DecisionRead(u, r, "approving") \/ DecisionRead(u, r, "rejecting")
           \/ RejectFlush(u) \/ HookRead(u) \/ ExecuteApply(u) \/ ExecuteFinish(u)
           \/ SafeExecute(u) \/ DirectApprove(u) \/ DirectReject(u) \/ Abort(u)
           \/ \E x \in Recs :
                SafeExecuteCheck(u, x) \/ DirectApproveCheck(u, x) \/ DirectRejectCheck(u, x)
    PROVE  BatchInv'
<1>1. SessionTypes
    BY TypeHalves DEF IInv
<1>2. UNCHANGED <<batch, rows>>
    BY DEF DecisionRead, RejectFlush, HookRead, ExecuteApply, ExecuteFinish, SafeExecute,
        DirectApprove, DirectReject, Abort, SafeExecuteCheck, DirectApproveCheck,
        DirectRejectCheck, db
<1>3. Monotone(u)
    <2>1. CASE ExecuteFinish(u)
        BY <2>1, ExecuteFinishStep
    <2>2. CASE UNCHANGED <<status, assigned>>
        BY <2>2, Quiet
    <2>. QED BY <2>1, <2>2
        DEF DecisionRead, RejectFlush, HookRead, ExecuteApply, SafeExecute,
            DirectApprove, DirectReject, Abort, SafeExecuteCheck, DirectApproveCheck,
            DirectRejectCheck, db
<1>4. RestOK(u)' /\ pc'[u] # "rows"
    <2>1. CASE End(u)
        BY <2>1, EndRest
    <2>2. CASE ~End(u)
        <3>1. pc'[u] \in {"approving", "rejecting", "reject_outcome", "hook_rows", "finish",
                          "execute", "direct_approve", "direct_reject"}
            BY <1>1, <2>2 DEF DecisionRead, Begin, RejectFlush, HookRead, ExecuteApply, Goto,
                ExecuteFinish, SafeExecute, DirectApprove, DirectReject, Abort, SafeExecuteCheck,
                DirectApproveCheck, DirectRejectCheck, SessionTypes
        <3>. QED BY <3>1 DEF RestOK
    <2>. QED BY <2>1, <2>2
<1>. QED BY <1>2, <1>3, <1>4, BatchQuiet

LEMMA BatchApprove ==
    ASSUME IInv, BatchInv, NEW u \in Users, ApprovePartial(u) \/ ApproveAll(u) PROVE BatchInv'
<1>1. OthersSame(u) /\ OthersKeep(u) /\ Monotone(u)
    BY DecisionFrame, SessionFrame, ApprovePartialStep, ApproveAllStep
<1>2. UNCHANGED <<batch, rows>>
    BY DEF ApprovePartial, ApproveAll
<1>3. RestOK(u)' /\ pc'[u] # "rows"
    <2>1. CASE ApprovePartial(u)
        BY <2>1, EndRest DEF ApprovePartial
    <2>2. CASE ApproveAll(u)
        BY <2>2, TypeHalves DEF ApproveAll, Goto, IInv, SessionTypes, RestOK
    <2>. QED BY <2>1, <2>2
<1>. QED BY <1>1, <1>2, <1>3, BatchQuiet

\* The approval hook puts rows back to approved and never completes a batch.
LEMMA BatchHookRow ==
    ASSUME IInv, BatchInv, NEW u \in Users, NEW x \in Recs, HookRow(u, x) PROVE BatchInv'
<1>1. TableTypes /\ SessionTypes
    BY TypeHalves DEF IInv
<1>2. at[u] \in Requests
    BY DEF IInv, Sessions, SessionOK, Bound, HookRow
<1>3. Aside(u)
    BY DEF Aside
<1>4. OthersSame(u) /\ OthersKeep(u) /\ Monotone(u)
    BY <1>3, AsideFrame, SessionFrame, Quiet
<1>5. RestOK(u)' /\ pc'[u] # "rows"
    <2>1. CASE End(u)
        BY <2>1, EndRest
    <2>2. CASE ~End(u)
        BY <1>1, <2>2 DEF HookRow, RestOK
    <2>. QED BY <2>1, <2>2
<1>6. /\ batch'[at[u]] \in {"approved", batch[at[u]]}
      /\ rows'[at[u]][x] = "approved"
      /\ \A y \in Recs \ {x} : rows'[at[u]][y] = rows[at[u]][y]
      /\ \A r \in Requests \ {at[u]} : batch'[r] = batch[r] /\ rows'[r] = rows[r]
    BY <1>1, <1>2 DEF TableTypes, HookRow
<1>7. BatchCompletedSound'
    BY <1>6 DEF BatchInv, BatchCompletedSound
<1>8. \A r \in Requests :
        /\ batch'[r] = "completed" => batch[r] = "completed"
        /\ \A y \in Recs : rows'[r][y] \in Settled \/ rows'[r][y] = rows[r][y]
    BY <1>6 DEF Settled
<1>9. \A v \in Users : pc[v] = "rows" => at[v] \in Requests
    BY DEF IInv, Sessions, SessionOK, Bound
<1>. QED BY <1>4, <1>5, <1>7, <1>8, <1>9, BatchCombine

\* A rejection reaches the batch of a request that nobody executes.
LEMMA BatchReject ==
    ASSUME IInv, BatchInv, NEW u \in Users, RejectRows(at[u]),
           pc[u] \in {"reject_outcome", "reject_hook"}, End(u), Monotone(u)
    PROVE  BatchInv'
<1>1. TableTypes
    BY TypeHalves DEF IInv
<1>2. at[u] \in Requests
    BY DEF IInv, Sessions, SessionOK, Bound
<1>3. RestOK(u)' /\ pc'[u] = "idle" /\ OthersKeep(u) /\ OthersSame(u)
    BY EndRest
<1>4. /\ batch'[at[u]] \in {"none", "rejected"}
      /\ \A r \in Requests \ {at[u]} : batch'[r] = batch[r] /\ rows'[r] = rows[r]
    BY <1>1, <1>2 DEF TableTypes, RejectRows
<1>5. BatchCompletedSound'
    BY <1>4 DEF BatchInv, BatchCompletedSound
<1>6. \A v \in Users : pc[v] = "rows" => at[v] \in Requests \ {at[u]}
    BY NotRejected DEF IInv, Sessions, SessionOK, Bound
<1>. QED BY <1>3, <1>4, <1>5, <1>6, BatchCombine

LEMMA BatchRejectSteps ==
    ASSUME IInv, BatchInv, NEW u \in Users, RejectCommit(u) \/ RejectHook(u) PROVE BatchInv'
<1>1. Monotone(u)
    BY RejectCommitStep, Quiet DEF RejectHook
<1>2. CASE RejectRows(at[u]) /\ End(u)
    BY <1>1, <1>2, BatchReject DEF RejectCommit, RejectHook
<1>3. CASE RejectCommit(u) /\ ~(RejectRows(at[u]) /\ End(u))
    <2>1. Goto(u, "reject_hook") /\ UNCHANGED <<batch, rows>>
        BY <1>3 DEF RejectCommit
    <2>2. OthersSame(u) /\ OthersKeep(u) /\ at[u] \in Requests /\ u \in Approvers
        BY <1>3, DecisionFrame, SessionFrame
    <2>3. RestOK(u)' /\ pc'[u] # "rows"
        BY <1>3, <2>1, <2>2, TypeHalves
        DEF IInv, TableTypes, SessionTypes, RejectCommit, Goto, RestOK
    <2>. QED BY <1>1, <2>1, <2>2, <2>3, BatchQuiet
<1>. QED BY <1>2, <1>3 DEF RejectHook

\* An execution starts with the rows that are not settled still to do.
LEMMA BatchExecuteRead ==
    ASSUME IInv, BatchInv, NEW u \in Users, NEW r \in Requests, NEW whole \in BOOLEAN,
           ExecuteRead(u, r, whole), OthersSame(u), OthersKeep(u)
    PROVE  BatchInv'
<1>1. TableTypes /\ SessionTypes
    BY TypeHalves DEF IInv
<1>2. UNCHANGED <<batch, rows, done, dirty>> /\ Monotone(u)
    BY Quiet DEF ExecuteRead, db
<1>3. pc'[u] \in {"apply", "rows"} /\ u \in Admins /\ at'[u] = r /\ seen'[u].batch = batch[r]
    BY <1>1 DEF ExecuteRead, Begin, SessionTypes
<1>4. todo'[u] = {x \in Recs : rows[r][x] \notin {"none", "completed"}}
    BY <1>1 DEF ExecuteRead, SessionTypes
<1>5. done[u] = NoRows /\ dirty[u] = {}
    BY DEF BatchInv, FreshStart, ExecuteRead
<1>6. ExecutionOK(u)'
    BY <1>2, <1>3, <1>4, <1>5 DEF ExecutionOK, Committed, NoRows, Settled
<1>7. BatchCompletedSound'
    BY <1>2 DEF BatchInv, BatchCompletedSound
<1>. QED BY <1>2, <1>3, <1>6, <1>7, BatchCombine DEF RestOK

\* A row that is applied makes the batch in progress, or finds it so.
LEMMA BatchExecuteRow ==
    ASSUME OneAdmin, IInv, BatchInv, NEW u \in Users, NEW x \in Recs, ExecuteRow(u, x)
    PROVE  BatchInv'
<1>1. TableTypes /\ SessionTypes
    BY TypeHalves DEF IInv
<1>2. at[u] \in Requests /\ u \in Admins /\ ExecutionOK(u) /\ pc[u] = "rows"
    BY DEF IInv, Sessions, SessionOK, Bound, BatchInv, AdminsExecute, Executions, ExecuteRow
<1>3. Aside(u)
    BY DEF Aside
<1>4. OthersSame(u) /\ OthersKeep(u) /\ Monotone(u)
    BY <1>3, AsideFrame, SessionFrame, Quiet
<1>5. pc'[u] = "rows" /\ RestOK(u)'
    BY <1>2 DEF ExecuteRow, RestOK
<1>6. batch'[at[u]] # "completed"
    BY <1>1, <1>2 DEF TableTypes, ExecuteRow, ExecutionOK, Write
<1>7. \A y \in Recs \ {x} : rows'[at[u]][y] = IF y \in dirty[u] THEN done[u][y] ELSE rows[at[u]][y]
    BY <1>1, <1>2 DEF TableTypes, ExecuteRow, Flushed
<1>8. /\ at'[u] = at[u] /\ todo'[u] = todo[u] \ {x} /\ dirty'[u] = {x} /\ done'[u][x] = "completed"
      /\ \A y \in Recs \ {x} : done'[u][y] = done[u][y]
    BY <1>1 DEF SessionTypes, ExecuteRow
<1>9. ExecutionOK(u)'
    <2>1. ASSUME NEW y \in Recs, y \notin todo'[u], y \notin dirty'[u], done'[u][y] # "failed"
          PROVE  rows'[at'[u]][y] \in Settled
        BY <1>2, <1>7, <1>8, <2>1 DEF ExecutionOK, Settled
    <2>. QED BY <1>6, <1>8, <2>1 DEF ExecutionOK
<1>10. \A r \in Requests \ {at[u]} : batch'[r] = batch[r] /\ rows'[r] = rows[r]
    BY <1>1, <1>2 DEF TableTypes, ExecuteRow
<1>11. BatchCompletedSound'
    BY <1>6, <1>10 DEF BatchInv, BatchCompletedSound
<1>12. \A v \in Users \ {u} : pc[v] # "rows"
    BY <1>2 DEF BatchInv, AdminsExecute, OneAdmin
<1>. QED BY <1>4, <1>5, <1>9, <1>11, <1>12, BatchCombine

LEMMA BatchExecuteRowFails ==
    ASSUME IInv, BatchInv, NEW u \in Users, NEW x \in Recs, ExecuteRowFails(u, x)
    PROVE  BatchInv'
<1>1. TableTypes /\ SessionTypes
    BY TypeHalves DEF IInv
<1>2. u \in Admins /\ ExecutionOK(u) /\ pc[u] = "rows" /\ x \in todo[u]
    BY DEF BatchInv, AdminsExecute, Executions, ExecuteRowFails
<1>3. Aside(u)
    BY DEF Aside
<1>4. OthersSame(u) /\ OthersKeep(u) /\ Monotone(u)
    BY <1>3, AsideFrame, SessionFrame, Quiet
<1>5. pc'[u] = "rows" /\ RestOK(u)' /\ UNCHANGED <<batch, rows>>
    BY <1>2 DEF ExecuteRowFails, RestOK, db
<1>6. /\ at'[u] = at[u] /\ seen'[u] = seen[u] /\ todo'[u] = todo[u] \ {x}
      /\ dirty'[u] \in {dirty[u], dirty[u] \cup {x}} /\ done'[u][x] = "failed"
      /\ \A y \in Recs \ {x} : done'[u][y] = done[u][y]
    BY <1>1 DEF SessionTypes, ExecuteRowFails
<1>7. \A y \in Recs : done'[u][y] = "completed" => done[u][y] = "completed"
    BY <1>6
<1>8. batch'[at'[u]] = "completed" => Committed(u)' = "completed"
    BY <1>2, <1>5, <1>6, <1>7 DEF ExecutionOK, Committed
<1>9. \A y \in dirty'[u] : done'[u][y] \in {"completed", "failed"}
    BY <1>1, <1>2, <1>6 DEF ExecutionOK, SessionTypes
<1>10. ExecutionOK(u)'
    BY <1>2, <1>5, <1>6, <1>8, <1>9 DEF ExecutionOK
<1>11. BatchCompletedSound'
    BY <1>5 DEF BatchInv, BatchCompletedSound
<1>. QED BY <1>4, <1>5, <1>10, <1>11, BatchCombine

\* A batch is completed when every row was applied or was settled before.
LEMMA BatchBatchFinish ==
    ASSUME OneAdmin, IInv, BatchInv, NEW u \in Users, BatchFinish(u) PROVE BatchInv'
<1>1. TableTypes /\ SessionTypes
    BY TypeHalves DEF IInv
<1>2. /\ at[u] \in Requests /\ u \in Admins /\ ExecutionOK(u)
      /\ pc[u] = "rows" /\ todo[u] = {}
    BY DEF IInv, Sessions, SessionOK, Bound, BatchInv, AdminsExecute, Executions, BatchFinish
<1>3. Aside(u)
    BY DEF Aside
<1>4. OthersSame(u) /\ OthersKeep(u) /\ Monotone(u)
    BY <1>3, AsideFrame, SessionFrame, Quiet
<1>5. pc'[u] # "rows" /\ RestOK(u)'
    <2>1. CASE End(u)
        BY <2>1, EndRest
    <2>2. CASE ~End(u)
        BY <1>1, <2>2 DEF BatchFinish, Goto, SessionTypes, RestOK
    <2>. QED BY <2>1, <2>2
<1>6. \A r \in Requests \ {at[u]} : batch'[r] = batch[r] /\ rows'[r] = rows[r]
    BY <1>1, <1>2 DEF TableTypes, BatchFinish
<1>7. \A y \in Recs : rows'[at[u]][y] = IF y \in dirty[u] THEN done[u][y] ELSE rows[at[u]][y]
    BY <1>1, <1>2 DEF TableTypes, BatchFinish, Flushed
<1>8. ASSUME batch'[at[u]] = "completed", NEW y \in Recs PROVE rows'[at[u]][y] \in Settled
    <2>1. \A x \in Recs : done[u][x] # "failed"
        BY <1>1, <1>2, <1>8 DEF TableTypes, BatchFinish, Write, ExecutionOK
    <2>. QED BY <1>2, <1>7, <2>1 DEF ExecutionOK, Settled
<1>9. BatchCompletedSound'
    BY <1>6, <1>8 DEF BatchInv, BatchCompletedSound, Settled
<1>10. \A v \in Users \ {u} : pc[v] # "rows"
    BY <1>2 DEF BatchInv, AdminsExecute, OneAdmin
<1>. QED BY <1>4, <1>5, <1>9, <1>10, BatchCombine

\* Every step preserves the invariant on batches when executions do not overlap.
LEMMA NextBatch == OneAdmin /\ IInv /\ BatchInv /\ [Next]_vars => BatchInv'
<1> SUFFICES ASSUME OneAdmin, IInv, BatchInv, [Next]_vars PROVE BatchInv'
    OBVIOUS
<1>1. ASSUME NEW u \in Users, Aside(u) PROVE BatchInv'
    <2>1. OthersSame(u) /\ OthersKeep(u)
        BY <1>1, AsideFrame, SessionFrame
    <2>. QED BY <1>1, <2>1, BatchSubmitRead, BatchExecuteRead, BatchReads, BatchBatchCommit,
                BatchHookRow, BatchRejectSteps, BatchExecuteRow, BatchExecuteRowFails,
                BatchBatchFinish, Zenon
         DEF Aside
<1>2. ASSUME NEW u \in Users,
             \/ \E r \in Requests : DecisionRead(u, r, "approving") \/ DecisionRead(u, r, "rejecting")
             \/ RejectFlush(u) \/ ExecuteFinish(u)
      PROVE  BatchInv'
    <2>1. OthersKeep(u)
        BY <1>2, SessionFrame
    <2>2. OthersSame(u)
        BY <1>2, TypeHalves DEF DecisionRead, Begin, RejectFlush, ExecuteFinish, End, OthersSame,
            IInv, SessionTypes
    <2>. QED BY <1>2, <2>1, <2>2, BatchReads, Zenon
<1>3. ASSUME NEW x \in Recs, Endpoint(x) PROVE BatchInv'
    <2>1. UNCHANGED <<status, rec, assigned, batch, rows, session, raced, applied>>
        BY <1>3, EndpointFrame
    <2>. QED BY <2>1 DEF session, BatchInv, BatchCompletedSound, AdminsExecute, FreshStart, Rejecting,
             Executions, ExecutionOK, Committed
<1>4. CASE UNCHANGED vars
    BY <1>4 DEF vars, BatchInv, BatchCompletedSound, AdminsExecute, FreshStart, Rejecting,
             Executions, ExecutionOK, Committed
<1>. QED BY <1>1, <1>2, <1>3, <1>4, NextCases, BatchSubmitCommit, BatchApprove, BatchRejectSteps

\* When executions do not overlap, a batch that says completed has no row that failed,
\* is blocked or in progress (execute_batch), across crashes, retries and the hook.
THEOREM CompletedBatches == OneAdmin /\ Spec => []BatchCompletedSound
<1> SUFFICES ASSUME OneAdmin PROVE Spec => []BatchCompletedSound
    OBVIOUS
<1>1. Init => BatchInv
    BY DEF Init, BatchInv, BatchCompletedSound, AdminsExecute, FreshStart, Rejecting, Executions
<1>2. BatchInv => BatchCompletedSound
    BY DEF BatchInv
<1>3. IInv /\ BatchInv /\ [Next]_vars => BatchInv'
    BY NextBatch
<1>. QED BY Invariance, <1>1, <1>2, <1>3, PTL DEF Spec
-----------------------------------------------------------------------------
(* What completed batches have done *)

\* An execution in flight: every row of the batch is still to do, failed in this
\* session, or has had its tags accepted; what it will still write is settled.
ExecutionOf(u) ==
    /\ batch[at[u]] # "none"
    /\ \A x \in todo[u] \cup dirty[u] : rows[at[u]][x] # "none"
    /\ \A x \in dirty[u] : done[u][x] \in {"completed", "failed"}
    /\ \A x \in Recs : done[u][x] = "completed" => x \in applied[at[u]]
    /\ \A x \in Recs :
         x \in todo[u] \/ x \in applied[at[u]] \/ done[u][x] = "failed" \/ rows[at[u]][x] = "none"

\* What a session knows of the batch it works on.
SessionRows(u) ==
    /\ pc[u] = "idle" => done[u] = NoRows /\ dirty[u] = {}
    /\ pc[u] = "batch" => batch[at[u]] = "none" /\ rows[at[u]] = NoRows
    /\ pc[u] = "hook_rows" => batch[at[u]] # "none" /\ \A x \in todo[u] : rows[at[u]][x] # "none"
    /\ pc[u] = "rows" => ExecutionOf(u)

\* A request gets its batch from the session that inserted it, and before that none.
OneCreator == \A u, v \in Users : pc[u] = "batch" /\ pc[v] = "batch" /\ at[u] = at[v] => u = v
Unborn == \A r \in Requests : status[r] = "absent" => batch[r] = "none" /\ rows[r] = NoRows

\* A row that says completed has had its tags accepted.
RowsApplied == \A r \in Requests, x \in Recs : rows[r][x] = "completed" => x \in applied[r]

AppliedInv ==
    /\ CompletedMeansApplied
    /\ RowsApplied /\ Unborn /\ OneCreator
    /\ \A u \in Users : SessionRows(u)

\* A batch, once there, keeps its set of rows.
Kept(r) ==
    batch[r] # "none" =>
        batch'[r] # "none" /\ \A x \in Recs : rows'[r][x] = "none" <=> rows[r][x] = "none"

\* A step of u that keeps the batches there are, and touches none that another
\* session is about to create.
LEMMA AppliedCombine ==
    ASSUME IInv, AppliedInv, NEW u \in Users, OthersSame(u), OthersKeep(u),
           SessionRows(u)', CompletedMeansApplied', RowsApplied', Unborn',
           \A r \in Requests : applied[r] \subseteq applied'[r] /\ Kept(r),
           \A v \in Users \ {u} : pc[v] = "batch" =>
               batch'[at[v]] = batch[at[v]] /\ rows'[at[v]] = rows[at[v]],
           pc'[u] = "batch" => \A v \in Users \ {u} : pc[v] = "batch" => at[v] # at'[u]
    PROVE  AppliedInv'
<1>1. \A v \in Users \ {u} :
        /\ pc'[v] = pc[v] /\ at'[v] = at[v]
        /\ todo'[v] = todo[v] /\ done'[v] = done[v] /\ dirty'[v] = dirty[v]
    BY DEF OthersSame, OthersKeep
<1>2. OneCreator'
    BY <1>1 DEF AppliedInv, OneCreator
<1>3. ASSUME NEW v \in Users \ {u} PROVE SessionRows(v)'
    <2>1. SessionRows(v) /\ (pc[v] \in Bound => at[v] \in Requests)
        BY DEF AppliedInv, IInv, Sessions, SessionOK
    <2>2. pc[v] = "idle" => done'[v] = NoRows /\ dirty'[v] = {}
        BY <1>1, <2>1 DEF SessionRows
    <2>3. pc[v] = "batch" => batch'[at'[v]] = "none" /\ rows'[at'[v]] = NoRows
        BY <1>1, <2>1 DEF SessionRows
    <2>4. SessionTypes
        BY TypeHalves DEF IInv
    <2>5. ASSUME pc[v] = "hook_rows"
          PROVE  batch'[at'[v]] # "none" /\ \A x \in todo'[v] : rows'[at'[v]][x] # "none"
        <3>1. at[v] \in Requests /\ batch[at[v]] # "none" /\ \A x \in todo[v] : rows[at[v]][x] # "none"
            BY <2>1, <2>5 DEF SessionRows, Bound
        <3>2. batch'[at[v]] # "none" /\ \A x \in Recs : rows'[at[v]][x] = "none" <=> rows[at[v]][x] = "none"
            BY <3>1 DEF Kept
        <3>3. todo[v] \subseteq Recs
            BY <2>4 DEF SessionTypes
        <3>. QED BY <1>1, <3>1, <3>2, <3>3
    <2>6. ASSUME pc[v] = "rows" PROVE ExecutionOf(v)'
        <3>1. ExecutionOf(v) /\ at[v] \in Requests
            BY <2>1, <2>6 DEF SessionRows, Bound
        <3>2. /\ applied[at[v]] \subseteq applied'[at[v]] /\ batch'[at[v]] # "none"
              /\ \A x \in Recs : rows'[at[v]][x] = "none" <=> rows[at[v]][x] = "none"
            BY <3>1 DEF ExecutionOf, Kept
        <3>3. todo[v] \subseteq Recs /\ dirty[v] \subseteq Recs
            BY <2>4 DEF SessionTypes
        <3>4. \A x \in todo'[v] \cup dirty'[v] : rows'[at'[v]][x] # "none"
            BY <1>1, <3>1, <3>2, <3>3 DEF ExecutionOf
        <3>5. \A x \in Recs : done'[v][x] = "completed" => x \in applied'[at'[v]]
            BY <1>1, <3>1, <3>2 DEF ExecutionOf
        <3>6. \A x \in Recs : \/ x \in todo'[v] \/ x \in applied'[at'[v]]
                             \/ done'[v][x] = "failed" \/ rows'[at'[v]][x] = "none"
            BY <1>1, <3>1, <3>2 DEF ExecutionOf
        <3>. QED BY <1>1, <3>1, <3>2, <3>4, <3>5, <3>6 DEF ExecutionOf
    <2>. QED BY <1>1, <2>2, <2>3, <2>5, <2>6 DEF SessionRows
<1>. QED BY <1>2, <1>3 DEF AppliedInv

\* A step that writes no batch and does not go on with one.
LEMMA AppliedQuiet ==
    ASSUME IInv, AppliedInv, NEW u \in Users, OthersSame(u), OthersKeep(u), Monotone(u),
           UNCHANGED <<batch, rows, applied>>,
           pc'[u] \notin {"batch", "hook_rows", "rows"},
           pc'[u] = "idle" => done'[u] = NoRows /\ dirty'[u] = {}
    PROVE  AppliedInv'
<1>1. SessionRows(u)'
    BY DEF SessionRows
<1>2. CompletedMeansApplied' /\ RowsApplied' /\ Unborn'
    BY DEF AppliedInv, CompletedMeansApplied, RowsApplied, Unborn, Monotone
<1>. QED BY <1>1, <1>2, AppliedCombine DEF Kept

\* A step of u on the batch it works on, which is there.
LEMMA AppliedWrites ==
    ASSUME IInv, AppliedInv, NEW u \in Users, OthersSame(u), OthersKeep(u), Monotone(u),
           at[u] \in Requests, batch[at[u]] # "none", batch'[at[u]] # "none",
           \A x \in Recs : rows'[at[u]][x] = "none" <=> rows[at[u]][x] = "none",
           \A x \in Recs : rows'[at[u]][x] = "completed" => x \in applied'[at[u]],
           batch'[at[u]] = "completed" =>
               \A x \in Recs : rows'[at[u]][x] # "none" => x \in applied'[at[u]],
           applied[at[u]] \subseteq applied'[at[u]],
           \A r \in Requests \ {at[u]} :
               batch'[r] = batch[r] /\ rows'[r] = rows[r] /\ applied'[r] = applied[r],
           SessionRows(u)', pc'[u] # "batch", status' = status
    PROVE  AppliedInv'
<1>1. CompletedMeansApplied' /\ RowsApplied'
    BY DEF AppliedInv, CompletedMeansApplied, RowsApplied
<1>2. Unborn'
    BY DEF AppliedInv, Unborn
<1>3. \A r \in Requests : applied[r] \subseteq applied'[r] /\ Kept(r)
    BY DEF Kept
<1>4. ASSUME NEW v \in Users \ {u}, pc[v] = "batch"
      PROVE  batch'[at[v]] = batch[at[v]] /\ rows'[at[v]] = rows[at[v]]
    BY <1>4 DEF AppliedInv, SessionRows, IInv, Sessions, SessionOK, Bound
<1>. QED BY <1>1, <1>2, <1>3, <1>4, AppliedCombine

\* A step that ends the session leaves no record of rows.
LEMMA EndRecord ==
    ASSUME IInv, NEW u \in Users, End(u)
    PROVE  pc'[u] = "idle" /\ done'[u] = NoRows /\ dirty'[u] = {}
<1>1. SessionTypes
    BY TypeHalves DEF IInv
<1>. QED BY <1>1 DEF End, SessionTypes

-----------------------------------------------------------------------------
\* The steps on no batch.
LEMMA AppliedElsewhere ==
    ASSUME IInv, AppliedInv, NEW u \in Users, OthersSame(u), OthersKeep(u), Monotone(u),
           \/ \E x \in Recs, A \in SUBSET Approvers, B \in SUBSET Recs : SubmitRead(u, x, A, B)
           \/ \E r \in Requests : DecisionRead(u, r, "approving") \/ DecisionRead(u, r, "rejecting")
           \/ ApprovePartial(u) \/ ApproveAll(u) \/ RejectFlush(u)
           \/ ExecuteApply(u) \/ ExecuteFinish(u) \/ SafeExecute(u)
           \/ DirectApprove(u) \/ DirectReject(u) \/ Abort(u)
           \/ \E x \in Recs :
                SafeExecuteCheck(u, x) \/ DirectApproveCheck(u, x) \/ DirectRejectCheck(u, x)
    PROVE  AppliedInv'
<1>1. SessionTypes
    BY TypeHalves DEF IInv
<1>2. UNCHANGED <<batch, rows, applied>>
    BY DEF SubmitRead, DecisionRead, ApprovePartial, ApproveAll, RejectFlush, ExecuteApply,
        ExecuteFinish, SafeExecute, DirectApprove, DirectReject, Abort, SafeExecuteCheck,
        DirectApproveCheck, DirectRejectCheck, db
<1>3. CASE End(u)
    BY <1>2, <1>3, EndRecord, AppliedQuiet
<1>4. CASE ~End(u)
    <2>1. pc'[u] \in {"insert", "approving", "rejecting", "hook", "reject_outcome", "finish",
                      "execute", "direct_approve", "direct_reject"}
        BY <1>1, <1>4
        DEF SubmitRead, DecisionRead, Begin, ApprovePartial, ApproveAll, RejectFlush, ExecuteApply,
            Goto, ExecuteFinish, SafeExecute, DirectApprove, DirectReject, Abort, SafeExecuteCheck,
            DirectApproveCheck, DirectRejectCheck, SessionTypes
    <2>. QED BY <1>2, <2>1, AppliedQuiet
<1>. QED BY <1>3, <1>4

\* A request is inserted before it has a batch.
LEMMA AppliedSubmitCommit ==
    ASSUME IInv, AppliedInv, NEW u \in Users, SubmitCommit(u), OthersSame(u), OthersKeep(u)
    PROVE  AppliedInv'
<1>1. TableTypes /\ SessionTypes
    BY TypeHalves DEF IInv
<1>2. Monotone(u) /\ UNCHANGED <<batch, rows, applied>>
    BY SubmitCommitStep DEF SubmitCommit
<1>3. CASE End(u)
    BY <1>2, <1>3, EndRecord, AppliedQuiet
<1>4. CASE ~End(u)
    <2>1. PICK r \in Requests :
            status[r] = "absent" /\ pc' = [pc EXCEPT ![u] = "batch"] /\ at' = [at EXCEPT ![u] = r]
        BY <1>4 DEF SubmitCommit
    <2>2. pc'[u] = "batch" /\ at'[u] = r
        BY <1>1, <2>1 DEF SessionTypes
    <2>3. batch[r] = "none" /\ rows[r] = NoRows
        BY <2>1 DEF AppliedInv, Unborn
    <2>4. SessionRows(u)'
        BY <1>2, <2>2, <2>3 DEF SessionRows
    <2>5. \A v \in Users \ {u} : pc[v] = "batch" => at[v] # r
        BY <2>1 DEF IInv, Sessions, SessionOK, Bound
    <2>6. CompletedMeansApplied' /\ RowsApplied' /\ Unborn'
        BY <1>2 DEF AppliedInv, CompletedMeansApplied, RowsApplied, Unborn, Monotone
    <2>. QED BY <1>2, <2>2, <2>4, <2>5, <2>6, AppliedCombine DEF Kept
<1>. QED BY <1>3, <1>4

\* A batch is created once, pending.
LEMMA AppliedBatchCommit ==
    ASSUME IInv, AppliedInv, NEW u \in Users, BatchCommit(u), OthersSame(u), OthersKeep(u)
    PROVE  AppliedInv'
<1> USE DEF BatchCommit
<1>1. TableTypes
    BY TypeHalves DEF IInv
<1>2. pc'[u] = "idle" /\ done'[u] = NoRows /\ dirty'[u] = {}
    BY EndRecord
<1>3. at[u] \in Requests /\ status[at[u]] # "absent" /\ batch[at[u]] = "none"
    BY DEF IInv, Sessions, SessionOK, Bound, AppliedInv, SessionRows
<1>4. /\ batch'[at[u]] = "pending"
      /\ \A x \in Recs : rows'[at[u]][x] \in {"none", "pending_approval"}
      /\ \A r \in Requests \ {at[u]} : batch'[r] = batch[r] /\ rows'[r] = rows[r]
    BY <1>1, <1>3 DEF TableTypes
<1>5. CompletedMeansApplied' /\ RowsApplied' /\ Unborn'
    BY <1>3, <1>4 DEF AppliedInv, CompletedMeansApplied, RowsApplied, Unborn
<1>6. \A v \in Users \ {u} : pc[v] = "batch" =>
        at[v] \in Requests /\ at[v] # at[u]
    BY DEF AppliedInv, OneCreator, IInv, Sessions, SessionOK, Bound
<1>7. SessionRows(u)'
    BY <1>2 DEF SessionRows
<1>. QED BY <1>2, <1>3, <1>4, <1>5, <1>6, <1>7, AppliedCombine DEF Kept

\* The approval hook takes the rows of the batch it finds.
LEMMA AppliedHookRead ==
    ASSUME IInv, AppliedInv, NEW u \in Users, HookRead(u), OthersSame(u), OthersKeep(u)
    PROVE  AppliedInv'
<1>1. SessionTypes
    BY TypeHalves DEF IInv
<1>2. Monotone(u) /\ UNCHANGED <<status, batch, rows, applied>>
    BY Quiet DEF HookRead, db
<1>3. CASE End(u)
    BY <1>2, <1>3, EndRecord, AppliedQuiet
<1>4. CASE ~End(u)
    <2>1. /\ batch[at[u]] # "none" /\ pc'[u] = "hook_rows" /\ at'[u] = at[u]
          /\ todo'[u] = {x \in Recs : rows[at[u]][x] # "none"}
        BY <1>1, <1>4 DEF HookRead, SessionTypes
    <2>2. SessionRows(u)'
        BY <1>2, <2>1 DEF SessionRows
    <2>3. CompletedMeansApplied' /\ RowsApplied' /\ Unborn'
        BY <1>2 DEF AppliedInv, CompletedMeansApplied, RowsApplied, Unborn
    <2>. QED BY <1>2, <2>1, <2>2, <2>3, AppliedCombine DEF Kept
<1>. QED BY <1>3, <1>4

\* It sets rows of the batch back, and completes nothing.
LEMMA AppliedHookRow ==
    ASSUME IInv, AppliedInv, NEW u \in Users, NEW x \in Recs, HookRow(u, x),
           OthersSame(u), OthersKeep(u)
    PROVE  AppliedInv'
<1>1. TableTypes /\ SessionTypes
    BY TypeHalves DEF IInv
<1>2. /\ at[u] \in Requests /\ batch[at[u]] # "none" /\ x \in todo[u]
      /\ \A y \in todo[u] : rows[at[u]][y] # "none"
    BY DEF IInv, Sessions, SessionOK, Bound, AppliedInv, SessionRows, HookRow
<1>3. Monotone(u) /\ UNCHANGED <<status, applied>>
    BY Quiet DEF HookRow
<1>4. /\ batch'[at[u]] \in {"approved", batch[at[u]]} /\ rows'[at[u]][x] = "approved"
      /\ \A y \in Recs \ {x} : rows'[at[u]][y] = rows[at[u]][y]
      /\ \A r \in Requests \ {at[u]} : batch'[r] = batch[r] /\ rows'[r] = rows[r]
    BY <1>1, <1>2 DEF TableTypes, HookRow
<1>5. rows[at[u]][x] # "none"
    BY <1>2
<1>6. SessionRows(u)' /\ pc'[u] # "batch"
    <2>1. CASE End(u)
        BY <2>1, EndRecord DEF SessionRows
    <2>2. CASE ~End(u)
        <3>1. pc'[u] = "hook_rows" /\ at'[u] = at[u] /\ todo'[u] = todo[u] \ {x}
            BY <1>1, <2>2 DEF HookRow, SessionTypes
        <3>2. batch'[at[u]] # "none" /\ \A y \in todo'[u] : rows'[at[u]][y] # "none"
            BY <1>1, <1>2, <1>4, <3>1 DEF SessionTypes
        <3>. QED BY <3>1, <3>2 DEF SessionRows
    <2>. QED BY <2>1, <2>2
<1>7. \A y \in Recs : rows'[at[u]][y] = "completed" => y \in applied'[at[u]]
    BY <1>2, <1>3, <1>4 DEF AppliedInv, RowsApplied
<1>8. batch'[at[u]] = "completed" => \A y \in Recs : rows'[at[u]][y] # "none" => y \in applied'[at[u]]
    BY <1>2, <1>3, <1>4, <1>5 DEF AppliedInv, CompletedMeansApplied
<1>9. \A y \in Recs : rows'[at[u]][y] = "none" <=> rows[at[u]][y] = "none"
    BY <1>4, <1>5
<1>. QED BY <1>2, <1>3, <1>4, <1>6, <1>7, <1>8, <1>9, AppliedWrites

\* A rejection blocks the rows of a batch, or finds none.
LEMMA AppliedReject ==
    ASSUME IInv, AppliedInv, NEW u \in Users, RejectRows(at[u]), End(u),
           pc[u] \in {"reject_outcome", "reject_hook"}, Monotone(u), applied' = applied,
           OthersSame(u), OthersKeep(u)
    PROVE  AppliedInv'
<1>1. TableTypes
    BY TypeHalves DEF IInv
<1>2. at[u] \in Requests /\ status[at[u]] # "absent"
    BY DEF IInv, Sessions, SessionOK, Bound
<1>3. /\ batch'[at[u]] = IF batch[at[u]] = "none" THEN "none" ELSE "rejected"
      /\ rows'[at[u]] = [x \in Recs |-> IF rows[at[u]][x] = "none" THEN "none" ELSE "blocked"]
      /\ \A r \in Requests \ {at[u]} : batch'[r] = batch[r] /\ rows'[r] = rows[r]
    BY <1>1, <1>2 DEF TableTypes, RejectRows
<1>4. pc'[u] = "idle" /\ SessionRows(u)'
    BY EndRecord DEF SessionRows
<1>5. CompletedMeansApplied' /\ RowsApplied' /\ Unborn'
    BY <1>2, <1>3 DEF AppliedInv, CompletedMeansApplied, RowsApplied, Unborn, Monotone
<1>6. \A r \in Requests : applied[r] \subseteq applied'[r] /\ Kept(r)
    BY <1>3 DEF Kept
<1>7. ASSUME NEW v \in Users \ {u}, pc[v] = "batch"
      PROVE  batch'[at[v]] = batch[at[v]] /\ rows'[at[v]] = rows[at[v]]
    <2>1. at[v] \in Requests /\ batch[at[v]] = "none" /\ rows[at[v]] = NoRows
        BY <1>7 DEF AppliedInv, SessionRows, IInv, Sessions, SessionOK, Bound
    <2>. QED BY <1>3, <2>1 DEF NoRows
<1>. QED BY <1>4, <1>5, <1>6, <1>7, AppliedCombine

LEMMA AppliedRejectSteps ==
    ASSUME IInv, AppliedInv, NEW u \in Users, RejectCommit(u) \/ RejectHook(u),
           OthersSame(u), OthersKeep(u)
    PROVE  AppliedInv'
<1>1. Monotone(u) /\ applied' = applied
    BY RejectCommitStep, Quiet DEF RejectCommit, RejectHook
<1>2. CASE RejectRows(at[u]) /\ End(u)
    BY <1>1, <1>2, AppliedReject DEF RejectCommit, RejectHook
<1>3. CASE RejectCommit(u) /\ ~(RejectRows(at[u]) /\ End(u))
    <2>1. Goto(u, "reject_hook") /\ UNCHANGED <<batch, rows>>
        BY <1>3 DEF RejectCommit
    <2>2. pc'[u] = "reject_hook"
        BY <2>1, TypeHalves DEF IInv, SessionTypes, Goto
    <2>. QED BY <1>1, <2>1, <2>2, AppliedQuiet
<1>. QED BY <1>2, <1>3 DEF RejectHook

\* A row that an execution need not go through is applied already.
LEMMA AppliedExecuteRead ==
    ASSUME IInv, AppliedInv, NEW u \in Users, NEW r \in Requests, NEW whole \in BOOLEAN,
           ExecuteRead(u, r, whole), OthersSame(u), OthersKeep(u)
    PROVE  AppliedInv'
<1>1. TableTypes /\ SessionTypes
    BY TypeHalves DEF IInv
<1>2. UNCHANGED <<status, batch, rows, done, dirty, applied>> /\ Monotone(u)
    BY Quiet DEF ExecuteRead, db
<1>3. /\ at'[u] = r /\ todo'[u] = {x \in Recs : rows[r][x] \notin {"none", "completed"}}
      /\ pc'[u] = IF batch[r] = "none" THEN "apply" ELSE "rows"
    BY <1>1 DEF ExecuteRead, Begin, SessionTypes
<1>4. done[u] = NoRows /\ dirty[u] = {}
    BY DEF AppliedInv, SessionRows, ExecuteRead
<1>5. SessionRows(u)'
    <2>1. pc'[u] = "rows" => ExecutionOf(u)'
        BY <1>2, <1>3, <1>4 DEF ExecutionOf, NoRows, AppliedInv, RowsApplied
    <2>. QED BY <1>3, <2>1 DEF SessionRows
<1>6. CompletedMeansApplied' /\ RowsApplied' /\ Unborn'
    BY <1>2 DEF AppliedInv, CompletedMeansApplied, RowsApplied, Unborn
<1>. QED BY <1>2, <1>3, <1>5, <1>6, AppliedCombine DEF Kept

\* The tags of a row are accepted before anything says so.
LEMMA AppliedExecuteRow ==
    ASSUME IInv, AppliedInv, NEW u \in Users, NEW x \in Recs, ExecuteRow(u, x),
           OthersSame(u), OthersKeep(u)
    PROVE  AppliedInv'
<1>1. TableTypes /\ SessionTypes
    BY TypeHalves DEF IInv
<1>2. at[u] \in Requests /\ ExecutionOf(u) /\ pc[u] = "rows" /\ x \in todo[u]
    BY DEF IInv, Sessions, SessionOK, Bound, AppliedInv, SessionRows, ExecuteRow
<1>3. Monotone(u) /\ status' = status
    BY Quiet DEF ExecuteRow
<1>4. /\ applied'[at[u]] = applied[at[u]] \cup {x}
      /\ batch'[at[u]] \in {batch[at[u]], "in_progress"}
      /\ \A r \in Requests \ {at[u]} :
            batch'[r] = batch[r] /\ rows'[r] = rows[r] /\ applied'[r] = applied[r]
    BY <1>1, <1>2 DEF TableTypes, ExecuteRow, Write
<1>5. /\ \A y \in Recs \ {x} : rows'[at[u]][y] = IF y \in dirty[u] THEN done[u][y] ELSE rows[at[u]][y]
      /\ rows'[at[u]][x] \in {"in_progress", IF x \in dirty[u] THEN done[u][x] ELSE rows[at[u]][x]}
    BY <1>1, <1>2 DEF TableTypes, ExecuteRow, Flushed, Write
<1>6. /\ pc'[u] = "rows" /\ at'[u] = at[u] /\ todo'[u] = todo[u] \ {x} /\ dirty'[u] = {x}
      /\ done'[u][x] = "completed" /\ \A y \in Recs \ {x} : done'[u][y] = done[u][y]
    BY <1>1, <1>2 DEF SessionTypes, ExecuteRow
<1>7. \A y \in Recs : rows'[at[u]][y] = "none" <=> rows[at[u]][y] = "none"
    BY <1>2, <1>5 DEF ExecutionOf
<1>8. \A y \in Recs : rows'[at[u]][y] = "completed" => y \in applied'[at[u]]
    BY <1>2, <1>4, <1>5 DEF ExecutionOf, AppliedInv, RowsApplied
<1>9. batch'[at[u]] = "completed" => \A y \in Recs : rows'[at[u]][y] # "none" => y \in applied'[at[u]]
    BY <1>2, <1>4, <1>7 DEF AppliedInv, CompletedMeansApplied
<1>10. batch'[at[u]] # "none" /\ batch[at[u]] # "none"
    BY <1>2, <1>4 DEF ExecutionOf
<1>11. ExecutionOf(u)'
    <2>1. \A y \in todo'[u] \cup dirty'[u] : rows'[at[u]][y] # "none"
        BY <1>1, <1>2, <1>6, <1>7 DEF ExecutionOf, SessionTypes
    <2>2. \A y \in Recs : done'[u][y] = "completed" => y \in applied'[at[u]]
        BY <1>2, <1>4, <1>6 DEF ExecutionOf
    <2>3. \A y \in Recs : \/ y \in todo'[u] \/ y \in applied'[at[u]]
                          \/ done'[u][y] = "failed" \/ rows'[at[u]][y] = "none"
        BY <1>2, <1>4, <1>6, <1>7 DEF ExecutionOf
    <2>. QED BY <1>6, <1>10, <2>1, <2>2, <2>3 DEF ExecutionOf
<1>12. SessionRows(u)'
    BY <1>6, <1>11 DEF SessionRows
<1>. QED BY <1>2, <1>3, <1>4, <1>6, <1>7, <1>8, <1>9, <1>10, <1>12, AppliedWrites

LEMMA AppliedExecuteRowFails ==
    ASSUME IInv, AppliedInv, NEW u \in Users, NEW x \in Recs, ExecuteRowFails(u, x),
           OthersSame(u), OthersKeep(u)
    PROVE  AppliedInv'
<1>1. TableTypes /\ SessionTypes
    BY TypeHalves DEF IInv
<1>2. at[u] \in Requests /\ ExecutionOf(u) /\ pc[u] = "rows" /\ x \in todo[u]
    BY DEF IInv, Sessions, SessionOK, Bound, AppliedInv, SessionRows, ExecuteRowFails
<1>3. Monotone(u) /\ UNCHANGED <<status, batch, rows, applied>>
    BY Quiet DEF ExecuteRowFails, db
<1>4. /\ pc'[u] = "rows" /\ at'[u] = at[u] /\ todo'[u] = todo[u] \ {x}
      /\ dirty'[u] \in {dirty[u], dirty[u] \cup {x}}
      /\ done'[u][x] = "failed" /\ \A y \in Recs \ {x} : done'[u][y] = done[u][y]
    BY <1>1, <1>2 DEF SessionTypes, ExecuteRowFails
<1>5. ExecutionOf(u)'
    BY <1>1, <1>2, <1>3, <1>4 DEF ExecutionOf, SessionTypes
<1>6. SessionRows(u)'
    BY <1>4, <1>5 DEF SessionRows
<1>7. CompletedMeansApplied' /\ RowsApplied' /\ Unborn'
    BY <1>3 DEF AppliedInv, CompletedMeansApplied, RowsApplied, Unborn
<1>. QED BY <1>3, <1>4, <1>6, <1>7, AppliedCombine DEF Kept

\* An execution without a failed row has had every row applied, by itself or before.
LEMMA AppliedBatchFinish ==
    ASSUME IInv, AppliedInv, NEW u \in Users, BatchFinish(u), OthersSame(u), OthersKeep(u)
    PROVE  AppliedInv'
<1>1. TableTypes /\ SessionTypes
    BY TypeHalves DEF IInv
<1>2. at[u] \in Requests /\ ExecutionOf(u) /\ pc[u] = "rows" /\ todo[u] = {}
    BY DEF IInv, Sessions, SessionOK, Bound, AppliedInv, SessionRows, BatchFinish
<1>3. Monotone(u) /\ UNCHANGED <<status, applied>>
    BY Quiet DEF BatchFinish
<1>4. /\ batch'[at[u]] \in {batch[at[u]],
             IF \E x \in Recs : done[u][x] = "failed" THEN "failed" ELSE "completed"}
      /\ \A r \in Requests \ {at[u]} : batch'[r] = batch[r] /\ rows'[r] = rows[r]
    BY <1>1, <1>2 DEF TableTypes, BatchFinish, Write
<1>5. \A y \in Recs : rows'[at[u]][y] = IF y \in dirty[u] THEN done[u][y] ELSE rows[at[u]][y]
    BY <1>1, <1>2 DEF TableTypes, BatchFinish, Flushed
<1>6. \A y \in Recs : rows'[at[u]][y] = "none" <=> rows[at[u]][y] = "none"
    BY <1>2, <1>5 DEF ExecutionOf
<1>7. \A y \in Recs : rows'[at[u]][y] = "completed" => y \in applied'[at[u]]
    BY <1>2, <1>3, <1>5 DEF ExecutionOf, AppliedInv, RowsApplied
<1>8. ASSUME batch'[at[u]] = "completed", NEW y \in Recs, rows'[at[u]][y] # "none"
      PROVE  y \in applied'[at[u]]
    <2>1. CASE batch[at[u]] = "completed"
        BY <1>2, <1>3, <1>6, <1>8, <2>1 DEF AppliedInv, CompletedMeansApplied
    <2>2. CASE batch[at[u]] # "completed"
        BY <1>2, <1>3, <1>4, <1>6, <1>8, <2>2 DEF ExecutionOf
    <2>. QED BY <2>1, <2>2
<1>9. batch'[at[u]] # "none" /\ batch[at[u]] # "none"
    BY <1>2, <1>4 DEF ExecutionOf
<1>10. SessionRows(u)' /\ pc'[u] # "batch"
    <2>1. CASE End(u)
        BY <2>1, EndRecord DEF SessionRows
    <2>2. CASE Goto(u, "finish")
        BY <1>1, <2>2 DEF Goto, SessionTypes, SessionRows
    <2>. QED BY <2>1, <2>2 DEF BatchFinish
<1>. QED BY <1>2, <1>3, <1>4, <1>6, <1>7, <1>8, <1>9, <1>10, AppliedWrites

\* Every step preserves the invariant, however many executions overlap.
LEMMA NextApplied == IInv /\ AppliedInv /\ [Next]_vars => AppliedInv'
<1> SUFFICES ASSUME IInv, AppliedInv, [Next]_vars PROVE AppliedInv'
    OBVIOUS
<1>1. ASSUME NEW u \in Users,
             \/ Aside(u) \/ SubmitCommit(u) \/ ApprovePartial(u) \/ ApproveAll(u)
             \/ RejectFlush(u) \/ RejectCommit(u) \/ ExecuteFinish(u)
             \/ \E r \in Requests : DecisionRead(u, r, "approving") \/ DecisionRead(u, r, "rejecting")
      PROVE  AppliedInv'
    <2>1. OthersSame(u) /\ OthersKeep(u)
        BY <1>1, SessionFrame
    <2>2. Monotone(u)
        <3>1. CASE Aside(u)
            BY <3>1, AsideFrame, Quiet
        <3>2. CASE UNCHANGED <<status, assigned>>
            BY <3>2, Quiet
        <3>. QED BY <1>1, <3>1, <3>2, SubmitCommitStep, ApprovePartialStep, ApproveAllStep,
                    RejectCommitStep, ExecuteFinishStep DEF RejectFlush, DecisionRead, db
    <2>. QED BY <1>1, <2>1, <2>2, AppliedElsewhere, AppliedSubmitCommit, AppliedBatchCommit,
                AppliedHookRead, AppliedHookRow, AppliedRejectSteps, AppliedExecuteRead,
                AppliedExecuteRow, AppliedExecuteRowFails, AppliedBatchFinish, Zenon
         DEF Aside
<1>2. ASSUME NEW x \in Recs, Endpoint(x) PROVE AppliedInv'
    <2>1. UNCHANGED <<status, rec, assigned, batch, rows, session, raced, applied>>
        BY <1>2, EndpointFrame
    <2>. QED BY <2>1 DEF session, AppliedInv, CompletedMeansApplied, RowsApplied, Unborn, OneCreator,
             SessionRows, ExecutionOf
<1>3. CASE UNCHANGED vars
    BY <1>3 DEF vars, AppliedInv, CompletedMeansApplied, RowsApplied, Unborn, OneCreator,
        SessionRows, ExecutionOf
<1>. QED BY <1>1, <1>2, <1>3, NextCases

\* A batch that says completed has had the tags of all its rows accepted
\* (execute_batch), with any number of admins executing it, dying and trying again, and
\* the approval hook overtaking them.
THEOREM CompletedIsApplied == Spec => []CompletedMeansApplied
<1>1. Init => AppliedInv
    BY DEF Init, AppliedInv, CompletedMeansApplied, RowsApplied, Unborn, OneCreator, SessionRows,
        NoRows
<1>2. AppliedInv => CompletedMeansApplied
    BY DEF AppliedInv
<1>3. IInv /\ AppliedInv /\ [Next]_vars => AppliedInv'
    BY NextApplied
<1>. QED BY Invariance, <1>1, <1>2, <1>3, PTL DEF Spec
===============================================================================
