----------------------- MODULE RecommendationLifecycle -----------------------
(***************************************************************************)
(* What happens to the recommendation rows of one cloud account after they *)
(* are built: every generation reconciles the table with the findings of   *)
(* one run, while users snooze, dismiss, reactivate and act on the rows.   *)
(*                                                                         *)
(* A key stands for (resource_id, finding_type, recommendation_type); the  *)
(* module FindingsPipeline says which keys a run produces.  A generation   *)
(* reads findings and rows in one transaction and writes, in its commit,   *)
(* only the columns it changed, so that a user's commit may fall between.  *)
(***************************************************************************)
EXTENDS Naturals, FiniteSets

CONSTANTS
    Keys,          \* the recommendation keys of the account
    Ec2Keys,       \* those whose findings detect_ec2_findings creates
    Generators,    \* sessions that detect and generate: workers, API requests
    MaxCopies,     \* bound on the rows of one key
    MaxRuns,       \* bound on the detection runs
    MaxTime,       \* bound on the clock
    MaxActs        \* bound on the users' requests

ASSUME LifecycleAssumption ==
    /\ Ec2Keys \subseteq Keys
    /\ MaxCopies \in Nat /\ MaxRuns \in Nat
    /\ MaxTime \in Nat \ {0} /\ MaxActs \in Nat

VARIABLES
    snaps,      \* keys whose issue the latest resource snapshots show
    findings,   \* per run id: the keys its committed findings lead to
    rows,       \* the recommendations table
    gen,        \* the generator sessions
    now,        \* the clock, in days
    acts        \* users' requests so far

vars == <<snaps, findings, rows, gen, now, acts>>

Runs == 1..MaxRuns
Times == 0..MaxTime
None == "none"
RECOMMENDATION_STATES == {"active", "snoozed", "dismissed", "resolved"}

\* The columns of a recommendation that the lifecycle reads or writes.  The
\* states accepted, in_progress and closed are never written by any code.
Row == [state : RECOMMENDATION_STATES,
        snoozed_until : Times,                     \* 0: NULL
        dismissed_reason : BOOLEAN,
        resolution_source : {None, "auto"},
        run : Runs,                                \* run of finding_id
        created : Times]

RowIds == Keys \X (1..MaxCopies)
KeyOf(id) == id[1]

Session == [pc : {"idle", "detect_ec2", "detect_rest", "generate", "commit"},
            kind : {"full", "cost_refresh", "detect", "recommend"},
            run : Runs \cup {0},
            keys : SUBSET Keys,                    \* candidates_by_key
            seen : UNION {[S -> Row] : S \in SUBSET RowIds},
            at : Times]                            \* created_at

Idle == [pc |-> "idle", kind |-> "full", run |-> 0, keys |-> {},
         seen |-> <<>>, at |-> 0]

---------------------------------------------------------------------------
(* Reading the table                                                       *)

\* _effective_state_for_read: an expired snooze reads as active.
effective_state_for_read(row, t) ==
    IF row.state = "snoozed" /\ row.snoozed_until # 0 /\ row.snoozed_until <= t
    THEN "active" ELSE row.state

\* _matches_state_view.
matches_state_view(state, view) ==
    \/ view = "all"
    \/ view \in RECOMMENDATION_STATES /\ state = view
    \/ view \notin RECOMMENDATION_STATES \cup {"all"} /\ state = "active"

\* row_number() over (created_at, id) descending, per key: the newest row.
latest(table) ==
    {id \in DOMAIN table :
        \A o \in DOMAIN table :
            KeyOf(o) = KeyOf(id) =>
                \/ table[o].created < table[id].created
                \/ table[o].created = table[id].created /\ o[2] <= id[2]}

\* list_recommendations(latest_only = True).
list_recommendations(view) ==
    {id \in latest(rows) :
        matches_state_view(effective_state_for_read(rows[id], now), view)}

---------------------------------------------------------------------------
(* _upsert_recommendations_for_findings                                    *)

\* A matched row keeps the state it had.
MutantMatched(row, run, t) == [row EXCEPT !.run = run]

\* The mutations of one existing row whose key has a candidate.
Matched(row, run, t) ==
    LET cur == effective_state_for_read(row, t)
        woken == \/ row.state = "snoozed" /\ cur = "active"
                 \/ cur = "snoozed" /\ (row.snoozed_until = 0 \/ row.snoozed_until <= t)
        state == IF cur = "dismissed" THEN row.state
                 ELSE IF woken \/ cur = "resolved" THEN "active" ELSE row.state
    IN [row EXCEPT !.run = run,
                   !.state = state,
                   !.snoozed_until = IF woken THEN 0 ELSE @,
                   !.resolution_source = IF state # "resolved" THEN None ELSE @]

\* A dismissed recommendation is resolved like any other.
MutantUnmatched(row, t) ==
    IF row.state = "resolved" THEN row
    ELSE [row EXCEPT !.state = "resolved", !.resolution_source = "auto"]

\* The mutations of one existing row whose key has none.
Unmatched(row, t) ==
    IF effective_state_for_read(row, t) = "dismissed" \/ row.state = "resolved"
    THEN row
    ELSE [row EXCEPT !.state = "resolved", !.resolution_source = "auto"]

Upsert(row, key, s) ==
    IF key \in s.keys THEN Matched(row, s.run, s.at) ELSE Unmatched(row, s.at)

\* The UPDATE statement of one row: only the columns the session changed.
Write(current, read, new) ==
    [c \in DOMAIN current |-> IF new[c] = read[c] THEN current[c] ELSE new[c]]

\* Every candidate is inserted.
MutantNewKeys(s) == s.keys

\* The keys that get a new row, and the ids those rows get.
NewKeys(s) == s.keys \ {KeyOf(id) : id \in DOMAIN s.seen}
FreeCopies(k) == {n \in 1..MaxCopies : <<k, n>> \notin DOMAIN rows}
NewIds(s) ==
    {<<k, CHOOSE n \in FreeCopies(k) : \A o \in FreeCopies(k) : n <= o>> :
        k \in NewKeys(s)}
NewRow(s) ==
    [state |-> "active", snoozed_until |-> 0, dismissed_reason |-> FALSE,
     resolution_source |-> None, run |-> s.run, created |-> s.at]

\* The rows the session has loaded and modified.
Touched(s) == {id \in DOMAIN s.seen : Upsert(s.seen[id], KeyOf(id), s) # s.seen[id]}

---------------------------------------------------------------------------
(* Detection and generation                                                *)

Init ==
    /\ snaps = {}
    /\ findings = [r \in Runs |-> {}]
    /\ rows = <<>>
    /\ gen = [g \in Generators |-> Idle]
    /\ now = 1
    /\ acts = 0

\* sync_run_id of a new run: one that no finding and no session carries.
Fresh == {r \in Runs : findings[r] = {} /\ \A g \in Generators : gen[g].run # r}
NewRun(r) == r \in Fresh /\ \A o \in Fresh : r <= o

\* A resource sync: the collectors have committed the snapshots of a new
\* inventory and the analyzer starts under a new sync_run_id.
StartFull(g) ==
    /\ gen[g].pc = "idle"
    /\ \E r \in Runs, seen \in SUBSET Keys :
        /\ NewRun(r)
        /\ snaps' = seen
        /\ gen' = [gen EXCEPT ![g] = [Idle EXCEPT !.pc = "detect_ec2", !.run = r]]
    /\ UNCHANGED <<findings, rows, now, acts>>

\* A cost refresh (ingestion job): no inventory, a new sync_run_id.
StartCostRefresh(g) ==
    /\ gen[g].pc = "idle"
    /\ \E r \in Runs :
        /\ NewRun(r)
        /\ gen' = [gen EXCEPT ![g] = [Idle EXCEPT !.pc = "detect_ec2", !.kind = "cost_refresh", !.run = r]]
    /\ UNCHANGED <<snaps, findings, rows, now, acts>>

\* POST .../detect/{type}: one detector under a new sync_run_id, no generation.
DetectEndpoint(g) ==
    /\ gen[g].pc = "idle"
    /\ \E r \in Runs, pc \in {"detect_ec2", "detect_rest"} :
        /\ NewRun(r)
        /\ gen' = [gen EXCEPT ![g] = [Idle EXCEPT !.pc = pc, !.kind = "detect", !.run = r]]
    /\ UNCHANGED <<snaps, findings, rows, now, acts>>

\* The retry of an analyzer task that did not commit its result: the same run.
Retry(g) ==
    /\ gen[g].pc = "idle" /\ gen[g].kind = "full" /\ gen[g].run # 0
    /\ gen' = [gen EXCEPT ![g].pc = "detect_ec2"]
    /\ UNCHANGED <<snaps, findings, rows, now, acts>>

\* The recommendations the analyzer deletes: those whose finding_id is of the run.
Cleared(g) ==
    IF gen[g].kind = "full" /\ findings[gen[g].run] # {}
    THEN {id \in DOMAIN rows : rows[id].run = gen[g].run} ELSE {}

\* analyzer_bundle's removal of the run's rows, then detect_ec2_findings and
\* its commit.
DetectEc2(g) ==
    /\ gen[g].pc = "detect_ec2"
    /\ rows' = [id \in DOMAIN rows \ Cleared(g) |-> rows[id]]
    /\ findings' = [findings EXCEPT ![gen[g].run] = snaps \cap Ec2Keys]
    /\ gen' = [gen EXCEPT ![g].pc = CASE gen[g].kind = "full" -> "detect_rest"
                                      [] gen[g].kind = "cost_refresh" -> "generate"
                                      [] OTHER -> "idle"]
    /\ UNCHANGED <<snaps, now, acts>>

\* The other detectors and the rules, which commit after it.
DetectRest(g) ==
    /\ gen[g].pc = "detect_rest"
    /\ findings' = [findings EXCEPT ![gen[g].run] = @ \cup (snaps \ Ec2Keys)]
    /\ gen' = [gen EXCEPT ![g].pc = IF gen[g].kind = "full" THEN "generate" ELSE "idle"]
    /\ UNCHANGED <<snaps, rows, now, acts>>

\* POST .../recommend/{type}: the run of the newest finding, or one the caller
\* names; without any finding the call returns at once.
RecommendEndpoint(g) ==
    /\ gen[g].pc = "idle"
    /\ \E r \in Runs :
        /\ findings[r] # {}
        /\ gen' = [gen EXCEPT ![g] = [Idle EXCEPT !.pc = "generate", !.kind = "recommend", !.run = r]]
    /\ UNCHANGED <<snaps, findings, rows, now, acts>>

\* generate_rds_recommendations up to its commit: candidates and rows are read.
GenerateRead(g) ==
    /\ gen[g].pc = "generate"
    /\ gen' = [gen EXCEPT ![g].pc = "commit",
                          ![g].keys = findings[gen[g].run],
                          ![g].seen = [id \in latest(rows) |-> rows[id]],
                          ![g].at = now]
    /\ UNCHANGED <<snaps, findings, rows, now, acts>>

\* Its commit.  A row that was deleted meanwhile makes the UPDATE fail.
GenerateCommit(g) ==
    LET s == gen[g] IN
    /\ s.pc = "commit"
    /\ Touched(s) \subseteq DOMAIN rows
    /\ \A k \in NewKeys(s) : FreeCopies(k) # {}
    /\ rows' = [id \in DOMAIN rows \cup NewIds(s) |->
                  IF id \in NewIds(s) THEN NewRow(s)
                  ELSE IF id \in DOMAIN s.seen
                  THEN Write(rows[id], s.seen[id], Upsert(s.seen[id], KeyOf(id), s))
                  ELSE rows[id]]
    /\ gen' = [gen EXCEPT ![g] = [Idle EXCEPT !.kind = s.kind, !.run = s.run]]
    /\ UNCHANGED <<snaps, findings, now, acts>>

\* A failed commit, a failed detector or the end of the process: what was
\* committed stays, the session is gone.
Abort(g) ==
    /\ gen[g].pc # "idle"
    /\ gen' = [gen EXCEPT ![g] = [Idle EXCEPT !.kind = gen[g].kind, !.run = gen[g].run]]
    /\ UNCHANGED <<snaps, findings, rows, now, acts>>

---------------------------------------------------------------------------
(* Users                                                                   *)

Snoozed(row, t) ==
    [row EXCEPT !.state = "snoozed", !.snoozed_until = t, !.resolution_source = None]
Dismissed(row) ==
    [row EXCEPT !.state = "dismissed", !.dismissed_reason = TRUE, !.resolution_source = None]
Reactivated(row) ==
    [row EXCEPT !.state = "active", !.snoozed_until = 0,
                !.dismissed_reason = FALSE, !.resolution_source = None]

\* snooze_recommendation: snoozed_until from the request is taken as it is,
\* the past included.
snooze_recommendation(id, t) ==
    /\ rows' = [rows EXCEPT ![id] = Snoozed(@, t)]
    /\ UNCHANGED <<snaps, findings, gen, now>>

dismiss_recommendation(id) ==
    /\ rows' = [rows EXCEPT ![id] = Dismissed(@)]
    /\ UNCHANGED <<snaps, findings, gen, now>>

reactivate_recommendation(id) ==
    /\ rows' = [rows EXCEPT ![id] = Reactivated(@)]
    /\ UNCHANGED <<snaps, findings, gen, now>>

\* mark_recommendation_acted_on: the state changes and no other column.
mark_recommendation_acted_on(id) ==
    /\ rows' = [rows EXCEPT ![id].state = "resolved"]
    /\ UNCHANGED <<snaps, findings, gen, now>>

\* bulk_update_recommendation_state: all the rows in one commit.
bulk_update_recommendation_state(ids, act, t) ==
    /\ rows' = [id \in DOMAIN rows |->
                  IF id \notin ids THEN rows[id]
                  ELSE CASE act = "snooze" -> Snoozed(rows[id], t)
                         [] act = "dismiss" -> Dismissed(rows[id])
                         [] act = "reactivate" -> Reactivated(rows[id])]
    /\ UNCHANGED <<snaps, findings, gen, now>>

Tick ==
    /\ now < MaxTime
    /\ now' = now + 1
    /\ UNCHANGED <<snaps, findings, rows, gen, acts>>

Generate(g) ==
    \/ StartFull(g)
    \/ StartCostRefresh(g)
    \/ DetectEndpoint(g)
    \/ Retry(g)
    \/ DetectEc2(g)
    \/ DetectRest(g)
    \/ RecommendEndpoint(g)
    \/ GenerateRead(g)
    \/ GenerateCommit(g)
    \/ Abort(g)

User ==
    /\ acts < MaxActs
    /\ acts' = acts + 1
    /\ \/ \E id \in DOMAIN rows :
           \/ \E t \in Times \ {0} : snooze_recommendation(id, t)
           \/ dismiss_recommendation(id)
           \/ reactivate_recommendation(id)
           \/ mark_recommendation_acted_on(id)
       \/ \E ids \in SUBSET DOMAIN rows, act \in {"snooze", "dismiss", "reactivate"} :
           /\ Cardinality(ids) > 1
           /\ bulk_update_recommendation_state(ids, act, MaxTime)

Next ==
    \/ \E g \in Generators : Generate(g)
    \/ User
    \/ Tick

Spec == Init /\ [][Next]_vars

---------------------------------------------------------------------------
(* Properties                                                              *)

TypeOK ==
    /\ snaps \in SUBSET Keys
    /\ findings \in [Runs -> SUBSET Keys]
    /\ DOMAIN rows \subseteq RowIds
    /\ \A id \in DOMAIN rows : rows[id] \in Row
    /\ \A g \in Generators :
        /\ gen[g].pc \in {"idle", "detect_ec2", "detect_rest", "generate", "commit"}
        /\ gen[g].run \in Runs \cup {0}
        /\ gen[g].keys \in SUBSET Keys
        /\ DOMAIN gen[g].seen \subseteq RowIds
    /\ now \in Times
    /\ acts \in 0..MaxActs

\* As long as the generations of an account follow one another, a key never has
\* two rows, whatever users do between a generation's read and its commit.
OneRowPerKey ==
    \A i, j \in DOMAIN rows : KeyOf(i) = KeyOf(j) => i = j

\* A user finds the issue of key k on one of the lists, or somebody has recorded that
\* it was acted on.
Listed(k) ==
    \E id \in latest(rows) :
        /\ KeyOf(id) = k
        /\ \/ \E view \in {"active", "snoozed", "dismissed"} :
                id \in list_recommendations(view)
           \/ rows[id].state = "resolved" /\ rows[id].resolution_source = None

\* What the commit of a full sync's generation makes of every issue it is about.
ListsIssues ==
    \A g \in Generators :
        gen[g].kind = "full" /\ GenerateCommit(g) => \A k \in snaps : Listed(k)'

\* A full sync leaves every issue of the snapshots listed: also one that a cost
\* refresh or a generation from the findings of a single detector resolved before, that
\* an attempt which died deleted, or that a user changed between the generation's read
\* and its commit.  (Those partial generations do resolve issues that persist, until
\* the next full sync.)
FullSyncListsIssues == [][ListsIssues]_vars

\* What the commit of generation g does to a row that it had read as it is now.
KeepsDecisions ==
    \A g \in Generators, id \in DOMAIN rows \cap DOMAIN rows' :
        (gen[g].pc = "commit" /\ rows' # rows /\ gen'[g].pc = "idle"
            /\ id \in DOMAIN gen[g].seen /\ gen[g].seen[id] = rows[id]) =>
          /\ rows[id].state = "dismissed" => rows'[id].state = "dismissed"
          /\ (/\ rows[id].state = "snoozed"
              /\ rows[id].snoozed_until > gen[g].at
              /\ KeyOf(id) \in gen[g].keys) =>
                rows'[id].state = "snoozed"
                  /\ rows'[id].snoozed_until = rows[id].snoozed_until

\* A generation leaves the decisions alone that users had made when it read the
\* table: a dismissed row stays dismissed, and a snooze that has not expired
\* lasts while its issue is found.
DecisionsSurviveGeneration == [][KeepsDecisions]_vars

\* A generation resolves a recommendation only when its issue is no longer in
\* the snapshots the detectors work on, as the reconciliation tests describe it
\* ("when issue disappears").
ResolvedMeansGone ==
    [][\A id \in DOMAIN rows \cap DOMAIN rows' :
        (rows[id].state # "resolved" /\ rows'[id].resolution_source = "auto"
            /\ rows'[id].state = "resolved")
          => KeyOf(id) \notin snaps]_vars
=============================================================================
