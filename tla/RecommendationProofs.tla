------------------------ MODULE RecommendationProofs ------------------------
(***************************************************************************)
(* Two modules about recommendations, for any keys, runs, times, requests, *)
(* accounts, failing calls and crashes.                                    *)
(*                                                                         *)
(* RecommendationLifecycle: OneRowPerKey and FullSyncListsIssues for one   *)
(* generation at a time, DecisionsSurviveGeneration for any number.  The   *)
(* first rests on a generation that has read the table knowing every key   *)
(* with a row until it commits (KeysKnown): nobody else inserts, and users *)
(* change no key.  The second adds that a row it has read is not resolved  *)
(* by a generation in the meantime (ReadIsCurrent), so that a column it    *)
(* leaves out of its UPDATE is one it need not write, and that a full sync *)
(* is about all the snapshots, after any attempt that died (FullRun).  The *)
(* third is a fact about those columns and needs the types only.           *)
(*                                                                         *)
(* FindingsPipeline: its seven invariants.  What the session holds at each *)
(* stage is a prefix of one analysis (StageInv: RetryIdempotent), made by  *)
(* one attempt (OnceInv: NoDuplicateFinding).  Up to each stage the types  *)
(* this sync collected are complete (CoverInv: FaultContained), and so is  *)
(* the flag a cluster gets from its members when the sync has captured     *)
(* both (PublicInv: PublicDatabaseReported).  Every row it captured is     *)
(* what its collector makes of a resource of the account (CollectedInv),   *)
(* which settles what the rules and the detectors read (MigrationAgrees,   *)
(* UnknownNotReported).  Of the rows that earlier syncs left, only what    *)
(* these invariants name is known: the account has changed since.          *)
(***************************************************************************)
EXTENDS RecommendationLifecycle, FindingsPipeline, WellFoundedInduction,
        SequenceTheorems, FiniteSetTheorems, TLAPS

------------------------------------------------------------------------------
(* RecommendationLifecycle *)

Tables == UNION {[S -> Row] : S \in SUBSET RowIds}

Types ==
  /\ snaps \in SUBSET Keys
  /\ findings \in [Runs -> SUBSET Keys]
  /\ rows \in Tables
  /\ gen \in [Generators -> Session]
  /\ \A g \in Generators : gen[g].pc # "idle" => gen[g].run \in Runs
  /\ now \in Times

LEMMA TimesAre == Times \subseteq Nat /\ 0 \in Times
  BY LifecycleAssumption DEF Times

LEMMA TableIs ==
  ASSUME NEW f
  PROVE  f \in Tables <=> /\ DOMAIN f \subseteq RowIds
                          /\ f \in [DOMAIN f -> Row]
  BY DEF Tables

LEMMA EmptyTable == <<>> \in Tables
<1>1. <<>> \in [{} -> Row]
  OBVIOUS
<1> QED
  BY <1>1 DEF Tables

LEMMA IdleIs ==
  /\ Idle \in Session /\ Idle.pc = "idle"
<1>1. 0 \in Times /\ <<>> \in Tables
  BY TimesAre, EmptyTable
<1> QED
  BY <1>1 DEF Idle, Session, Tables

LEMMA WriteIs ==
  ASSUME NEW cur \in Row, NEW read \in Row, NEW new \in Row
  PROVE  /\ Write(cur, read, new) \in Row
         /\ Write(cur, read, new).state = (IF new.state = read.state THEN cur.state ELSE new.state)
         /\ Write(cur, read, new).snoozed_until =
              (IF new.snoozed_until = read.snoozed_until THEN cur.snoozed_until ELSE new.snoozed_until)
  BY DEF Write, Row

LEMMA UpsertIs ==
  ASSUME NEW row \in Row, NEW k \in Keys, NEW s \in Session, s.run \in Runs
  PROVE  /\ Upsert(row, k, s) \in Row
         /\ row.state = "dismissed" => Upsert(row, k, s).state = "dismissed"
         /\ row.state = "snoozed" /\ row.snoozed_until > s.at /\ k \in s.keys =>
              Upsert(row, k, s).state = "snoozed" /\ Upsert(row, k, s).snoozed_until = row.snoozed_until
<1>1. s.at \in Times /\ row.snoozed_until \in Times /\ Times \subseteq Nat /\ 0 \in Times
  BY TimesAre DEF Session, Row
<1>2. row.state \in RECOMMENDATION_STATES /\ row.resolution_source \in {None, "auto"}
  BY DEF Row
<1>3. effective_state_for_read(row, s.at) \in RECOMMENDATION_STATES
  BY <1>2 DEF effective_state_for_read, RECOMMENDATION_STATES
<1>4. CASE k \in s.keys
  <2>1. Upsert(row, k, s) = Matched(row, s.run, s.at)
    BY <1>4 DEF Upsert
  <2>2. Matched(row, s.run, s.at) \in Row
    BY <1>1, <1>2 DEF Matched, Row, RECOMMENDATION_STATES
  <2>3. row.state = "dismissed" => Matched(row, s.run, s.at).state = "dismissed"
    BY DEF Matched, effective_state_for_read, Row
  <2>4. row.state = "snoozed" /\ row.snoozed_until > s.at =>
          Matched(row, s.run, s.at).state = "snoozed"
            /\ Matched(row, s.run, s.at).snoozed_until = row.snoozed_until
    BY <1>1 DEF Matched, effective_state_for_read, Row
  <2> QED
    BY <2>1, <2>2, <2>3, <2>4
<1>5. CASE k \notin s.keys
  <2>1. Upsert(row, k, s) = Unmatched(row, s.at)
    BY <1>5 DEF Upsert
  <2>2. Unmatched(row, s.at) \in Row
    BY <1>2 DEF Unmatched, Row, RECOMMENDATION_STATES
  <2>3. row.state = "dismissed" => Unmatched(row, s.at).state = "dismissed"
    BY DEF Unmatched, effective_state_for_read, Row
  <2> QED
    BY <1>5, <2>1, <2>2, <2>3
<1> QED
  BY <1>4, <1>5

\* The smallest free copy is one of the free copies.
LEMMA FreeCopy ==
  ASSUME NEW k, FreeCopies(k) # {}
  PROVE  (CHOOSE n \in FreeCopies(k) : \A o \in FreeCopies(k) : n <= o) \in FreeCopies(k)
<1>1. FreeCopies(k) \subseteq Nat
  BY DEF FreeCopies
<1>2. PICK n \in FreeCopies(k) : \A o \in FreeCopies(k) : ~(<<o, n>> \in OpToRel(<, Nat))
  BY <1>1, WFMin, NatLessThanWellFounded
<1>3. \A o \in FreeCopies(k) : ~(o < n)
  BY <1>1, <1>2, Zenon DEF OpToRel
<1>4. \A o \in FreeCopies(k) : n <= o
  BY <1>1, <1>3
<1> QED
  BY <1>4

LEMMA NewIdsAre ==
  ASSUME NEW s \in Session, \A k \in NewKeys(s) : FreeCopies(k) # {}
  PROVE  /\ NewIds(s) \subseteq RowIds
         /\ \A id \in NewIds(s) : KeyOf(id) \in NewKeys(s)
         /\ \A i, j \in NewIds(s) : KeyOf(i) = KeyOf(j) => i = j
         /\ \A k \in NewKeys(s) : \E id \in NewIds(s) : KeyOf(id) = k
<1> DEFINE n(k) == CHOOSE m \in FreeCopies(k) : \A o \in FreeCopies(k) : m <= o
<1>1. NewIds(s) = {<<k, n(k)>> : k \in NewKeys(s)}
  BY DEF NewIds
<1>2. \A k \in NewKeys(s) : k \in Keys /\ n(k) \in 1 .. MaxCopies
  <2>1. ASSUME NEW k \in NewKeys(s) PROVE n(k) \in 1 .. MaxCopies
    <3>1. n(k) \in FreeCopies(k)
      BY FreeCopy
    <3> QED
      BY <3>1 DEF FreeCopies
  <2>2. NewKeys(s) \subseteq Keys
    BY DEF NewKeys, Session
  <2> QED
    BY <2>1, <2>2
<1> HIDE DEF n
<1>3. \A k \in NewKeys(s) : \E id \in NewIds(s) : KeyOf(id) = k
  <2>1. ASSUME NEW k \in NewKeys(s) PROVE \E id \in NewIds(s) : KeyOf(id) = k
    <3>1. <<k, n(k)>> \in NewIds(s) /\ KeyOf(<<k, n(k)>>) = k
      BY <1>1 DEF KeyOf
    <3> QED
      BY <3>1
  <2> QED
    BY <2>1
<1>4. NewIds(s) \subseteq RowIds
  BY <1>1, <1>2 DEF RowIds
<1>5. /\ \A id \in NewIds(s) : KeyOf(id) \in NewKeys(s)
      /\ \A i, j \in NewIds(s) : KeyOf(i) = KeyOf(j) => i = j
  BY <1>1 DEF KeyOf
<1> QED
  BY <1>3, <1>4, <1>5

LEMMA LatestIs == latest(rows) \subseteq DOMAIN rows
  BY DEF latest

------------------------------------------------------------------------------
(* types *)

LEMMA TypesInit == ASSUME Init PROVE Types
  BY EmptyTable, IdleIs, LifecycleAssumption DEF Init, Types, Times

\* A step of a session that leaves the table alone.
LEMMA SessionTypes ==
  ASSUME Types, NEW g \in Generators, NEW s \in Session, s.pc # "idle" => s.run \in Runs,
         gen' = [gen EXCEPT ![g] = s],
         snaps' \in SUBSET Keys, findings' \in [Runs -> SUBSET Keys], rows' \in Tables, now' \in Times
  PROVE  Types'
  BY DEF Types

LEMMA GenerateTypes == ASSUME Types, NEW g \in Generators, Generate(g) PROVE Types'
<1>0. gen[g] \in Session /\ gen \in [Generators -> Session] /\ rows \in Tables /\ now \in Times
      /\ (gen[g].pc # "idle" => gen[g].run \in Runs)
  BY DEF Types
<1>1. ASSUME NEW r \in Runs, NEW pc \in {"detect_ec2", "detect_rest", "generate"},
             NEW kind \in {"full", "cost_refresh", "detect", "recommend"}
      PROVE  [Idle EXCEPT !.pc = pc, !.kind = kind, !.run = r] \in Session
             /\ [Idle EXCEPT !.pc = pc, !.kind = kind, !.run = r].run = r
  BY IdleIs DEF Session
<1>2. ASSUME NEW pc \in {"idle", "detect_ec2", "detect_rest", "generate"}
      PROVE  [gen[g] EXCEPT !.pc = pc] \in Session
             /\ [gen[g] EXCEPT !.pc = pc].run = gen[g].run
  BY <1>0 DEF Session
<1>3. CASE StartFull(g)
  <2>1. PICK r \in Runs : gen' = [gen EXCEPT ![g] = [Idle EXCEPT !.pc = "detect_ec2", !.run = r]]
    BY <1>3 DEF StartFull
  <2>2. [Idle EXCEPT !.pc = "detect_ec2", !.run = r] \in Session /\ [Idle EXCEPT !.pc = "detect_ec2", !.run = r].run = r
    BY IdleIs DEF Session
  <2>3. snaps' \in SUBSET Keys /\ UNCHANGED <<findings, rows, now>>
    BY <1>3 DEF StartFull
  <2> QED
    BY <2>1, <2>2, <2>3, SessionTypes DEF Types
<1>4. CASE StartCostRefresh(g)
  <2>1. PICK r \in Runs : gen' = [gen EXCEPT ![g] = [Idle EXCEPT !.pc = "detect_ec2", !.kind = "cost_refresh", !.run = r]]
    BY <1>4 DEF StartCostRefresh
  <2>2. UNCHANGED <<snaps, findings, rows, now>>
    BY <1>4 DEF StartCostRefresh
  <2> QED
    BY <1>1, <2>1, <2>2, SessionTypes DEF Types
<1>5. CASE DetectEndpoint(g)
  <2>1. PICK r \in Runs, pc \in {"detect_ec2", "detect_rest"} :
          gen' = [gen EXCEPT ![g] = [Idle EXCEPT !.pc = pc, !.kind = "detect", !.run = r]]
    BY <1>5 DEF DetectEndpoint
  <2>2. UNCHANGED <<snaps, findings, rows, now>>
    BY <1>5 DEF DetectEndpoint
  <2> QED
    <3>1. [Idle EXCEPT !.pc = pc, !.kind = "detect", !.run = r] \in Session
          /\ [Idle EXCEPT !.pc = pc, !.kind = "detect", !.run = r].run = r
      BY IdleIs DEF Session
    <3> QED
      BY <2>1, <2>2, <3>1, SessionTypes DEF Types
<1>6. CASE Retry(g)
  <2>1. gen' = [gen EXCEPT ![g] = [gen[g] EXCEPT !.pc = "detect_ec2"]] /\ UNCHANGED <<snaps, findings, rows, now>>
    BY <1>6, <1>0 DEF Retry
  <2>2. gen[g].run \in Runs
    BY <1>0, <1>6 DEF Retry, Session
  <2> QED
    BY <1>2, <2>1, <2>2, SessionTypes DEF Types
<1>7. CASE DetectEc2(g)
  <2> DEFINE pc == CASE gen[g].kind = "full" -> "detect_rest"
                     [] gen[g].kind = "cost_refresh" -> "generate"
                     [] OTHER -> "idle"
  <2>1. pc \in {"idle", "detect_rest", "generate"}
    BY <1>0 DEF Session
  <2>2. gen' = [gen EXCEPT ![g] = [gen[g] EXCEPT !.pc = pc]] /\ UNCHANGED <<snaps, now>>
    BY <1>7, <1>0 DEF DetectEc2
  <2> HIDE DEF pc
  <2>3. findings' \in [Runs -> SUBSET Keys]
    BY <1>7 DEF DetectEc2, Types
  <2>4. rows' \in Tables
    <3>1. rows' = [id \in DOMAIN rows \ Cleared(g) |-> rows[id]]
      BY <1>7 DEF DetectEc2
    <3>2. DOMAIN rows \subseteq RowIds /\ \A id \in DOMAIN rows : rows[id] \in Row
      BY <1>0, TableIs
    <3> QED
      BY <3>1, <3>2, TableIs
  <2>5. gen[g].run \in Runs
    BY <1>0, <1>7 DEF DetectEc2
  <2> QED
    BY <1>2, <2>1, <2>2, <2>3, <2>4, <2>5, SessionTypes DEF Types
<1>8. CASE DetectRest(g)
  <2> DEFINE pc == IF gen[g].kind = "full" THEN "generate" ELSE "idle"
  <2>1. pc \in {"idle", "generate"}
    OBVIOUS
  <2>2. gen' = [gen EXCEPT ![g] = [gen[g] EXCEPT !.pc = pc]] /\ UNCHANGED <<snaps, rows, now>>
    BY <1>8, <1>0 DEF DetectRest
  <2> HIDE DEF pc
  <2>3. findings' \in [Runs -> SUBSET Keys]
    BY <1>8 DEF DetectRest, Types
  <2>4. gen[g].run \in Runs
    BY <1>0, <1>8 DEF DetectRest
  <2> QED
    BY <1>2, <2>1, <2>2, <2>3, <2>4, SessionTypes DEF Types
<1>9. CASE RecommendEndpoint(g)
  <2>1. PICK r \in Runs : gen' = [gen EXCEPT ![g] = [Idle EXCEPT !.pc = "generate", !.kind = "recommend", !.run = r]]
    BY <1>9 DEF RecommendEndpoint
  <2>2. UNCHANGED <<snaps, findings, rows, now>>
    BY <1>9 DEF RecommendEndpoint
  <2> QED
    BY <1>1, <2>1, <2>2, SessionTypes DEF Types
<1>10. CASE GenerateRead(g)
  <2> DEFINE seen == [id \in latest(rows) |-> rows[id]]
             keys == findings[gen[g].run]
  <2>1. seen \in Tables
    <3>1. DOMAIN rows \subseteq RowIds /\ \A id \in DOMAIN rows : rows[id] \in Row
      BY <1>0, TableIs
    <3> QED
      BY <3>1, TableIs, LatestIs
  <2>2. keys \in SUBSET Keys /\ gen[g].run \in Runs
    BY <1>0, <1>10 DEF GenerateRead, Types
  <2>3. gen' = [gen EXCEPT ![g] = [gen[g] EXCEPT !.pc = "commit", !.keys = keys, !.seen = seen, !.at = now]]
    BY <1>0, <1>10 DEF GenerateRead
  <2> HIDE DEF seen, keys
  <2> DEFINE new == [gen[g] EXCEPT !.pc = "commit", !.keys = keys, !.seen = seen, !.at = now]
  <2>4. new \in Session /\ new.run = gen[g].run
    BY <1>0, <2>1, <2>2 DEF Session, Tables
  <2>5. UNCHANGED <<snaps, findings, rows, now>>
    BY <1>10 DEF GenerateRead
  <2> QED
    BY <2>2, <2>3, <2>4, <2>5, SessionTypes DEF Types
<1>11. ASSUME NEW s \in Session, s.pc = "idle", gen' = [gen EXCEPT ![g] = s], rows' \in Tables,
              UNCHANGED <<snaps, findings, now>>
       PROVE  Types'
  BY <1>11, SessionTypes DEF Types
<1>12. [Idle EXCEPT !.kind = gen[g].kind, !.run = gen[g].run] \in Session
       /\ [Idle EXCEPT !.kind = gen[g].kind, !.run = gen[g].run].pc = "idle"
  BY <1>0, IdleIs DEF Session
<1>13. CASE GenerateCommit(g)
  <2> DEFINE s == gen[g]
  <2>1. rows' = [id \in DOMAIN rows \cup NewIds(s) |->
                  IF id \in NewIds(s) THEN NewRow(s)
                  ELSE IF id \in DOMAIN s.seen
                  THEN Write(rows[id], s.seen[id], Upsert(s.seen[id], KeyOf(id), s))
                  ELSE rows[id]]
        /\ \A k \in NewKeys(s) : FreeCopies(k) # {}
    BY <1>13 DEF GenerateCommit
  <2>2. s \in Session /\ s.run \in Runs /\ s.seen \in Tables
    BY <1>0, <1>13 DEF GenerateCommit, Session, Tables
  <2>3. UNCHANGED <<snaps, findings, now>>
    BY <1>13 DEF GenerateCommit
  <2>4. gen' = [gen EXCEPT ![g] = [Idle EXCEPT !.kind = gen[g].kind, !.run = gen[g].run]]
    BY <1>13 DEF GenerateCommit
  <2> HIDE DEF s
  <2>5. NewRow(s) \in Row
    BY <2>2, TimesAre DEF NewRow, Row, Session, RECOMMENDATION_STATES
  <2>6. DOMAIN rows \subseteq RowIds /\ \A id \in DOMAIN rows : rows[id] \in Row
    BY <1>0, TableIs
  <2>7. \A id \in DOMAIN s.seen : id \in RowIds /\ s.seen[id] \in Row
    BY <2>2, TableIs
  <2>8. ASSUME NEW id \in DOMAIN rows, id \in DOMAIN s.seen
        PROVE  Write(rows[id], s.seen[id], Upsert(s.seen[id], KeyOf(id), s)) \in Row
    <3>1. KeyOf(id) \in Keys
      BY <2>6 DEF RowIds, KeyOf
    <3>2. Upsert(s.seen[id], KeyOf(id), s) \in Row
      BY <2>2, <2>7, <2>8, <3>1, UpsertIs
    <3> QED
      BY <2>6, <2>7, <2>8, <3>2, WriteIs
  <2>9. NewIds(s) \subseteq RowIds
    BY <2>1, <2>2, NewIdsAre
  <2>10. rows' \in Tables
    BY <2>1, <2>5, <2>6, <2>8, <2>9, TableIs
  <2> QED
    BY <1>11, <1>12, <2>3, <2>4, <2>10
<1>14. CASE Abort(g)
  BY <1>0, <1>11, <1>12, <1>14 DEF Abort
<1> QED
  BY <1>3, <1>4, <1>5, <1>6, <1>7, <1>8, <1>9, <1>10, <1>13, <1>14 DEF Generate

\* What users write keeps the type of a row.
LEMMA UserRows ==
  ASSUME NEW row \in Row, NEW t \in Times
  PROVE  /\ Snoozed(row, t) \in Row /\ Dismissed(row) \in Row /\ Reactivated(row) \in Row
         /\ [row EXCEPT !.state = "resolved"] \in Row
<1>1. 0 \in Times
  BY TimesAre
<1>2. Snoozed(row, t) \in Row
  BY DEF Snoozed, Row, RECOMMENDATION_STATES
<1>3. Dismissed(row) \in Row
  BY DEF Dismissed, Row, RECOMMENDATION_STATES
<1>4. Reactivated(row) \in Row
  BY <1>1 DEF Reactivated, Row, RECOMMENDATION_STATES
<1>5. [row EXCEPT !.state = "resolved"] \in Row
  BY DEF Row, RECOMMENDATION_STATES
<1> QED
  BY <1>2, <1>3, <1>4, <1>5

\* A user changes columns of rows and inserts or deletes none.
LEMMA UserStep ==
  ASSUME Types, User
  PROVE  /\ rows' \in Tables /\ DOMAIN rows' = DOMAIN rows
         /\ UNCHANGED <<snaps, findings, gen, now>>
<1>1. DOMAIN rows \subseteq RowIds /\ rows \in [DOMAIN rows -> Row] /\ MaxTime \in Times
  BY TableIs, LifecycleAssumption DEF Types, Times
<1>2. ASSUME NEW id \in DOMAIN rows, NEW t \in Times, snooze_recommendation(id, t)
      PROVE  rows' \in [DOMAIN rows -> Row] /\ UNCHANGED <<snaps, findings, gen, now>>
  BY <1>1, <1>2, UserRows DEF snooze_recommendation
<1>3. ASSUME NEW id \in DOMAIN rows, dismiss_recommendation(id)
      PROVE  rows' \in [DOMAIN rows -> Row] /\ UNCHANGED <<snaps, findings, gen, now>>
  BY <1>1, <1>3, UserRows DEF dismiss_recommendation
<1>4. ASSUME NEW id \in DOMAIN rows, reactivate_recommendation(id)
      PROVE  rows' \in [DOMAIN rows -> Row] /\ UNCHANGED <<snaps, findings, gen, now>>
  BY <1>1, <1>4, UserRows DEF reactivate_recommendation
<1>5. ASSUME NEW id \in DOMAIN rows, mark_recommendation_acted_on(id)
      PROVE  rows' \in [DOMAIN rows -> Row] /\ UNCHANGED <<snaps, findings, gen, now>>
  BY <1>1, <1>5, UserRows DEF mark_recommendation_acted_on
<1>6. ASSUME NEW ids \in SUBSET DOMAIN rows, NEW act \in {"snooze", "dismiss", "reactivate"},
             bulk_update_recommendation_state(ids, act, MaxTime)
      PROVE  rows' \in [DOMAIN rows -> Row] /\ UNCHANGED <<snaps, findings, gen, now>>
  <2>1. \A id \in DOMAIN rows : /\ Snoozed(rows[id], MaxTime) \in Row /\ Dismissed(rows[id]) \in Row
                                /\ Reactivated(rows[id]) \in Row
    BY <1>1, UserRows
  <2> QED
    BY <1>1, <1>6, <2>1 DEF bulk_update_recommendation_state
<1>7. rows' \in [DOMAIN rows -> Row] /\ UNCHANGED <<snaps, findings, gen, now>>
  BY <1>2, <1>3, <1>4, <1>5, <1>6 DEF User
<1> QED
  BY <1>1, <1>7, TableIs

LEMMA TypesNext == ASSUME Types, [Next]_vars PROVE Types'
<1>1. ASSUME NEW g \in Generators, Generate(g) PROVE Types'
  BY <1>1, GenerateTypes
<1>2. CASE User
  BY <1>2, UserStep DEF Types
<1>3. CASE Tick
  <2>1. now' \in Times
    BY <1>3, LifecycleAssumption DEF Tick, Types, Times
  <2> QED
    BY <1>3, <2>1 DEF Tick, Types
<1>4. CASE UNCHANGED vars
  BY <1>4 DEF vars, Types
<1> QED
  BY <1>1, <1>2, <1>3, <1>4 DEF Next

------------------------------------------------------------------------------
(* decisions *)

\* The row it had read is the row it updates, and it updates only what it changed.
LEMMA CommitKeepsDecisions ==
  ASSUME Types, NEW g \in Generators, GenerateCommit(g), NEW id \in DOMAIN rows,
         id \in DOMAIN gen[g].seen, gen[g].seen[id] = rows[id]
  PROVE  /\ rows[id].state = "dismissed" => rows'[id].state = "dismissed"
         /\ (/\ rows[id].state = "snoozed" /\ rows[id].snoozed_until > gen[g].at
             /\ KeyOf(id) \in gen[g].keys) =>
               rows'[id].state = "snoozed" /\ rows'[id].snoozed_until = rows[id].snoozed_until
<1> DEFINE s == gen[g]
           new == Upsert(rows[id], KeyOf(id), s)
<1>1. s \in Session /\ s.run \in Runs /\ s.seen \in Tables
  BY DEF Types, GenerateCommit, Session, Tables
<1>2. rows[id] \in Row /\ id \in RowIds
  BY TableIs DEF Types
<1>3. KeyOf(id) \in Keys
  BY <1>2 DEF RowIds, KeyOf
<1>4. id \notin NewIds(s)
  <2>1. KeyOf(id) \notin NewKeys(s)
    BY DEF NewKeys
  <2>2. \A k \in NewKeys(s) : FreeCopies(k) # {}
    BY DEF GenerateCommit
  <2> QED
    BY <1>1, <2>1, <2>2, NewIdsAre
<1>5. rows'[id] = Write(rows[id], rows[id], new)
  BY <1>4 DEF GenerateCommit
<1>6. new \in Row
  BY <1>1, <1>2, <1>3, UpsertIs
<1>7. rows'[id].state = new.state /\ rows'[id].snoozed_until = new.snoozed_until
  BY <1>2, <1>5, <1>6, WriteIs
<1> QED
  BY <1>1, <1>2, <1>3, <1>7, UpsertIs

LEMMA NextKeepsDecisions == ASSUME Types, Next PROVE KeepsDecisions
<1>1. SUFFICES ASSUME NEW g \in Generators, NEW id \in DOMAIN rows \cap DOMAIN rows',
                      gen[g].pc = "commit", rows' # rows, gen'[g].pc = "idle",
                      id \in DOMAIN gen[g].seen, gen[g].seen[id] = rows[id]
               PROVE  /\ rows[id].state = "dismissed" => rows'[id].state = "dismissed"
                      /\ (/\ rows[id].state = "snoozed" /\ rows[id].snoozed_until > gen[g].at
                          /\ KeyOf(id) \in gen[g].keys) =>
                            rows'[id].state = "snoozed" /\ rows'[id].snoozed_until = rows[id].snoozed_until
  BY DEF KeepsDecisions
<1>2. ~User /\ ~Tick
  BY <1>1, UserStep DEF Tick
<1>3. PICK h \in Generators : Generate(h)
  BY <1>2 DEF Next
<1>4. h = g
  <2>1. \A f \in Generators : f # h => gen'[f] = gen[f]
    BY <1>3 DEF Types, Generate, StartFull, StartCostRefresh, DetectEndpoint, Retry, DetectEc2, DetectRest,
                RecommendEndpoint, GenerateRead, GenerateCommit, Abort
  <2> QED
    BY <1>1, <2>1
<1>5. GenerateCommit(g)
  BY <1>1, <1>3, <1>4 DEF Generate, StartFull, StartCostRefresh, DetectEndpoint, Retry, DetectEc2, DetectRest,
                RecommendEndpoint, GenerateRead, Abort
<1> QED
  BY <1>1, <1>5, CommitKeepsDecisions

------------------------------------------------------------------------------
(* one row per key *)

OneGenerator == \A g, h \in Generators : g = h

KeysKnown ==
  \A g \in Generators : gen[g].pc = "commit" =>
    \A id \in DOMAIN rows : \E o \in DOMAIN gen[g].seen : KeyOf(o) = KeyOf(id)

\* The inductive invariant.
RowInv == Types /\ KeysKnown /\ OneRowPerKey

LEMMA LatestIsAll ==
  ASSUME NEW t \in Tables, \A i, j \in DOMAIN t : KeyOf(i) = KeyOf(j) => i = j
  PROVE  latest(t) = DOMAIN t
<1>1. \A id \in DOMAIN t : id[2] \in Nat
  BY TableIs DEF RowIds
<1>2. ASSUME NEW id \in DOMAIN t, NEW o \in DOMAIN t, KeyOf(o) = KeyOf(id)
      PROVE  t[o].created = t[id].created /\ o[2] <= id[2]
  <2>1. o = id
    BY <1>2
  <2> QED
    BY <1>1, <2>1
<1> QED
  BY <1>2 DEF latest

\* Only GenerateRead leaves a session about to commit.
LEMMA NotReading ==
  ASSUME Types, NEW g \in Generators, Generate(g), ~GenerateCommit(g), ~GenerateRead(g)
  PROVE  gen'[g].pc # "commit"
<1>0. gen[g] \in Session /\ gen \in [Generators -> Session]
  BY DEF Types
<1>1. CASE StartFull(g) \/ StartCostRefresh(g) \/ RecommendEndpoint(g)
  <2>1. CASE StartFull(g)
    BY <1>0, <2>1, IdleIs DEF Session, StartFull
  <2>2. CASE StartCostRefresh(g)
    BY <1>0, <2>2, IdleIs DEF Session, StartCostRefresh
  <2>3. CASE RecommendEndpoint(g)
    BY <1>0, <2>3, IdleIs DEF Session, RecommendEndpoint
  <2> QED
    BY <1>1, <2>1, <2>2, <2>3
<1>2. CASE DetectEndpoint(g)
  BY <1>0, <1>2, IdleIs DEF Session, DetectEndpoint
<1>3. CASE Retry(g) \/ DetectRest(g)
  BY <1>0, <1>3 DEF Session, Retry, DetectRest
<1>4. CASE DetectEc2(g)
  BY <1>0, <1>4 DEF Session, DetectEc2
<1>5. CASE Abort(g)
  BY <1>0, <1>5, IdleIs DEF Session, Abort
<1> QED
  BY <1>1, <1>2, <1>3, <1>4, <1>5 DEF Generate

LEMMA RowNext == ASSUME RowInv, OneGenerator, [Next]_vars PROVE RowInv'
<1>0. Types /\ KeysKnown /\ OneRowPerKey /\ Types'
  BY TypesNext DEF RowInv
<1>1. CASE UNCHANGED <<rows, gen>>
  BY <1>0, <1>1 DEF RowInv, KeysKnown, OneRowPerKey
<1>2. CASE User
  BY <1>0, <1>2, UserStep DEF RowInv, KeysKnown, OneRowPerKey
<1>3. ASSUME NEW g \in Generators, GenerateCommit(g) PROVE RowInv'
  <2> DEFINE s == gen[g]
  <2>1. s \in Session /\ s.pc = "commit" /\ DOMAIN rows' = DOMAIN rows \cup NewIds(s)
        /\ \A k \in NewKeys(s) : FreeCopies(k) # {}
    BY <1>0, <1>3 DEF Types, GenerateCommit
  <2>2. gen'[g].pc = "idle"
    BY <1>0, <1>3, IdleIs DEF Types, GenerateCommit, Session
  <2>3. KeysKnown'
    BY <2>2 DEF KeysKnown, OneGenerator
  <2>4. \A id \in DOMAIN rows : KeyOf(id) \notin NewKeys(s)
    BY <1>0, <2>1 DEF KeysKnown, NewKeys
  <2>5. \A id \in NewIds(s) : KeyOf(id) \in NewKeys(s)
    BY <2>1, NewIdsAre
  <2>6. \A i, j \in NewIds(s) : KeyOf(i) = KeyOf(j) => i = j
    BY <2>1, NewIdsAre
  <2>7. OneRowPerKey'
    BY <1>0, <2>1, <2>4, <2>5, <2>6 DEF OneRowPerKey, KeyOf
  <2> QED
    BY <1>0, <2>3, <2>7 DEF RowInv
<1>4. ASSUME NEW g \in Generators, GenerateRead(g) PROVE RowInv'
  <2>1. rows' = rows /\ gen'[g].seen = [id \in latest(rows) |-> rows[id]]
    BY <1>0, <1>4 DEF Types, GenerateRead, Session
  <2>2. DOMAIN gen'[g].seen = DOMAIN rows
    BY <1>0, <2>1, LatestIsAll DEF OneRowPerKey, Types
  <2> QED
    BY <1>0, <2>1, <2>2 DEF RowInv, KeysKnown, OneRowPerKey, OneGenerator
<1>5. ASSUME NEW g \in Generators, Generate(g), ~GenerateCommit(g), ~GenerateRead(g) PROVE RowInv'
  <2>1. gen'[g].pc # "commit"
    BY <1>0, <1>5, NotReading
  <2>2. DOMAIN rows' \subseteq DOMAIN rows
    BY <1>5 DEF Generate, StartFull, StartCostRefresh, DetectEndpoint, Retry,
       DetectEc2, DetectRest, RecommendEndpoint, Abort
  <2> QED
    BY <1>0, <2>1, <2>2 DEF RowInv, KeysKnown, OneRowPerKey, OneGenerator
<1> QED
  BY <1>1, <1>2, <1>3, <1>4, <1>5 DEF Next, Tick, vars

------------------------------------------------------------------------------
\* For any number of generations, a commit leaves a dismissed row dismissed and an
\* unexpired snooze in place, if the row is still as the generation read it
\* (_upsert_recommendations_for_findings).
THEOREM DecisionsSurvive == Spec => DecisionsSurviveGeneration
<1>1. Init => Types
  BY TypesInit
<1>2. Types /\ [Next]_vars => Types'
  BY TypesNext
<1>3. Types /\ [Next]_vars => [KeepsDecisions]_vars
  BY NextKeepsDecisions
<1> QED
  BY <1>1, <1>2, <1>3, PTL DEF Spec, DecisionsSurviveGeneration

\* With one generation at a time a key never has two rows, for any keys, runs, clock
\* and requests of users.
THEOREM RowsAreUnique == OneGenerator /\ Spec => []OneRowPerKey
<1>1. Init => RowInv
  BY TypesInit, IdleIs DEF Init, RowInv, KeysKnown, OneRowPerKey
<1>2. OneGenerator /\ RowInv /\ [Next]_vars => RowInv'
  BY RowNext
<1>3. RowInv => OneRowPerKey
  BY DEF RowInv
<1>4. OneGenerator /\ Init /\ [][Next]_vars => []OneRowPerKey
  <2>1. SUFFICES ASSUME OneGenerator PROVE Init /\ [][Next]_vars => []OneRowPerKey
    OBVIOUS
  <2>2. RowInv /\ [Next]_vars => RowInv'
    BY <1>2, <2>1
  <2> QED
    BY <1>1, <1>3, <2>2, PTL
<1> QED
  BY <1>4, PTL DEF Spec

------------------------------------------------------------------------------
(* no issue of a full sync is hidden *)

\* A row of k that no generation has resolved.
Shown(k) == \E id \in DOMAIN rows : KeyOf(id) = k /\ rows[id].resolution_source = None

\* The rows a generation has read are still there when it commits, and what it did
\* not read as resolved by a generation has not been resolved by one since.
ReadIsCurrent ==
  \A g \in Generators : gen[g].pc = "commit" =>
    \A id \in DOMAIN gen[g].seen :
      /\ id \in DOMAIN rows
      /\ gen[g].seen[id].resolution_source = None => rows[id].resolution_source = None

\* What a full sync has found so far, and what its generation is about.
FullRun ==
  \A g \in Generators : gen[g].kind = "full" =>
    /\ gen[g].pc = "detect_rest" => findings[gen[g].run] = snaps \cap Ec2Keys
    /\ gen[g].pc = "generate" => findings[gen[g].run] = snaps
    /\ gen[g].pc = "commit" => gen[g].keys = snaps

\* The inductive invariant.
ListInv == RowInv /\ ReadIsCurrent /\ FullRun

LEMMA ShownIsListed == ASSUME RowInv', NEW k, Shown(k)' PROVE Listed(k)'
<1>1. latest(rows') = DOMAIN rows'
  BY LatestIsAll DEF RowInv, Types, OneRowPerKey
<1>2. PICK id \in DOMAIN rows' : KeyOf(id) = k /\ rows'[id].resolution_source = None
  BY DEF Shown
<1>3. CASE rows'[id].state = "resolved"
  BY <1>1, <1>2, <1>3 DEF Listed
<1>4. CASE rows'[id].state # "resolved"
  <2>1. rows'[id].state \in RECOMMENDATION_STATES
    <3>1. rows' \in Tables
      BY DEF RowInv, Types
    <3> QED
      BY <1>2, <3>1, TableIs DEF Row
  <2>2. PICK v \in {"active", "snoozed", "dismissed"} : v = effective_state_for_read(rows'[id], now')
    BY <1>4, <2>1 DEF effective_state_for_read, RECOMMENDATION_STATES
  <2>3. matches_state_view(v, v)
    BY <2>2 DEF matches_state_view, RECOMMENDATION_STATES
  <2>4. id \in list_recommendations(v)'
    BY <1>1, <1>2, <2>2, <2>3 DEF list_recommendations
  <2>5. \E view \in {"active", "snoozed", "dismissed"} : id \in list_recommendations(view)'
    BY <2>2, <2>4
  <2> QED
    BY <1>1, <1>2, <2>5, Zenon DEF Listed
<1> QED
  BY <1>3, <1>4

\* No request of a user writes "auto" into a row.
LEMMA UserSources ==
  ASSUME Types, User, NEW id \in DOMAIN rows
  PROVE  rows[id].resolution_source = None => rows'[id].resolution_source = None
<1>1. rows \in [DOMAIN rows -> Row]
  BY TableIs DEF Types
<1>2. ASSUME NEW row \in Row, NEW t
      PROVE  /\ Snoozed(row, t).resolution_source = None
             /\ Dismissed(row).resolution_source = None
             /\ Reactivated(row).resolution_source = None
             /\ [row EXCEPT !.state = "resolved"].resolution_source = row.resolution_source
  BY DEF Snoozed, Dismissed, Reactivated, Row
<1>3. ASSUME NEW o \in DOMAIN rows, NEW t, snooze_recommendation(o, t)
      PROVE  rows[id].resolution_source = None => rows'[id].resolution_source = None
  <2>1. rows'[id] = IF id = o THEN Snoozed(rows[id], t) ELSE rows[id]
    BY <1>1, <1>3 DEF snooze_recommendation
  <2> QED
    BY <1>1, <1>2, <2>1
<1>4. ASSUME NEW o \in DOMAIN rows, dismiss_recommendation(o)
      PROVE  rows[id].resolution_source = None => rows'[id].resolution_source = None
  <2>1. rows'[id] = IF id = o THEN Dismissed(rows[id]) ELSE rows[id]
    BY <1>1, <1>4 DEF dismiss_recommendation
  <2> QED
    BY <1>1, <1>2, <2>1
<1>5. ASSUME NEW o \in DOMAIN rows, reactivate_recommendation(o)
      PROVE  rows[id].resolution_source = None => rows'[id].resolution_source = None
  <2>1. rows'[id] = IF id = o THEN Reactivated(rows[id]) ELSE rows[id]
    BY <1>1, <1>5 DEF reactivate_recommendation
  <2> QED
    BY <1>1, <1>2, <2>1
<1>6. ASSUME NEW o \in DOMAIN rows, mark_recommendation_acted_on(o)
      PROVE  rows[id].resolution_source = None => rows'[id].resolution_source = None
  <2>1. rows'[id] = IF id = o THEN [rows[id] EXCEPT !.state = "resolved"] ELSE rows[id]
    BY <1>1, <1>6 DEF mark_recommendation_acted_on
  <2> QED
    BY <1>1, <1>2, <2>1
<1>7. ASSUME NEW ids \in SUBSET DOMAIN rows, NEW act \in {"snooze", "dismiss", "reactivate"},
             bulk_update_recommendation_state(ids, act, MaxTime)
      PROVE  rows[id].resolution_source = None => rows'[id].resolution_source = None
  <2>1. rows'[id] \in {rows[id], Snoozed(rows[id], MaxTime), Dismissed(rows[id]), Reactivated(rows[id])}
    BY <1>7 DEF bulk_update_recommendation_state
  <2> QED
    BY <1>1, <1>2, <2>1
<1> QED
  BY <1>3, <1>4, <1>5, <1>6, <1>7 DEF User

\* A row whose key has a candidate is never left resolved by a generation.
LEMMA MatchedSource ==
  ASSUME NEW row \in Row, NEW run, NEW t
  PROVE  Matched(row, run, t).resolution_source = None
  BY DEF Matched, effective_state_for_read, Row, RECOMMENDATION_STATES

\* The commit of the only generation shows each of its keys.
LEMMA CommitShows ==
  ASSUME ListInv, NEW g \in Generators, GenerateCommit(g)
  PROVE  \A k \in gen[g].keys : Shown(k)'
<1> DEFINE s == gen[g]
<1>1. s \in Session /\ s.run \in Runs /\ s.seen \in Tables /\ s.pc = "commit"
  BY DEF ListInv, RowInv, Types, GenerateCommit, Session, Tables
<1>2. \A k \in NewKeys(s) : FreeCopies(k) # {}
  BY DEF GenerateCommit
<1>3. SUFFICES ASSUME NEW k \in s.keys
               PROVE  \E id \in DOMAIN rows' : KeyOf(id) = k /\ rows'[id].resolution_source = None
  BY DEF Shown
<1>4. DOMAIN rows' = DOMAIN rows \cup NewIds(s)
  BY DEF GenerateCommit
<1>5. CASE k \in NewKeys(s)
  <2>1. PICK id \in NewIds(s) : KeyOf(id) = k
    BY <1>1, <1>2, <1>5, NewIdsAre
  <2>2. rows'[id] = NewRow(s)
    BY <2>1 DEF GenerateCommit
  <2> QED
    BY <1>4, <2>1, <2>2 DEF NewRow
<1>6. CASE k \notin NewKeys(s)
  <2>1. PICK id \in DOMAIN s.seen : KeyOf(id) = k
    BY <1>3, <1>6 DEF NewKeys
  <2>2. id \in DOMAIN rows /\ (s.seen[id].resolution_source = None => rows[id].resolution_source = None)
    BY <1>1, <2>1 DEF ListInv, ReadIsCurrent
  <2>3. id \notin NewIds(s)
    BY <1>1, <1>2, <1>6, <2>1, NewIdsAre
  <2> DEFINE new == Matched(s.seen[id], s.run, s.at)
  <2>4. s.seen[id] \in Row /\ rows[id] \in Row
    BY <1>1, <2>1, <2>2, TableIs DEF ListInv, RowInv, Types
  <2>5. Upsert(s.seen[id], KeyOf(id), s) = new
    BY <1>3, <2>1 DEF Upsert
  <2>6. rows'[id] = Write(rows[id], s.seen[id], new)
    BY <2>1, <2>2, <2>3, <2>5 DEF GenerateCommit
  <2>7. new.resolution_source = None
    BY <2>4, MatchedSource
  <2> HIDE DEF new
  <2>8. rows'[id].resolution_source =
          IF new.resolution_source = s.seen[id].resolution_source
          THEN rows[id].resolution_source ELSE new.resolution_source
    BY <2>4, <2>6 DEF Write, Row
  <2> QED
    BY <1>4, <2>1, <2>2, <2>7, <2>8
<1> QED
  BY <1>5, <1>6

LEMMA ListNext == ASSUME ListInv, OneGenerator, [Next]_vars PROVE ListInv'
<1>0. Types /\ RowInv /\ RowInv' /\ ReadIsCurrent /\ FullRun /\ OneRowPerKey
  BY RowNext DEF ListInv, RowInv
<1>1. CASE UNCHANGED <<rows, gen, snaps, findings>>
  BY <1>0, <1>1 DEF ListInv, ReadIsCurrent, FullRun
<1>2. CASE User
  <2>1. DOMAIN rows' = DOMAIN rows /\ UNCHANGED <<gen, snaps, findings>>
    BY <1>0, <1>2, UserStep
  <2>2. \A id \in DOMAIN rows : rows[id].resolution_source = None => rows'[id].resolution_source = None
    BY <1>0, <1>2, UserSources
  <2>3. ReadIsCurrent'
    BY <1>0, <2>1, <2>2 DEF ReadIsCurrent
  <2> QED
    BY <1>0, <2>1, <2>3 DEF ListInv, FullRun
<1>3. ASSUME NEW g \in Generators, GenerateRead(g) PROVE ListInv'
  <2>1. /\ UNCHANGED <<rows, snaps>> /\ gen[g].pc = "generate"
        /\ gen'[g].pc = "commit" /\ gen'[g].kind = gen[g].kind /\ gen'[g].keys = findings[gen[g].run]
        /\ gen'[g].seen = [id \in latest(rows) |-> rows[id]]
    BY <1>0, <1>3 DEF Types, GenerateRead, Session
  <2>2. latest(rows) = DOMAIN rows
    BY <1>0, LatestIsAll DEF Types, OneRowPerKey
  <2>3. ReadIsCurrent'
    BY <2>1, <2>2 DEF ReadIsCurrent, OneGenerator
  <2>4. FullRun'
    BY <1>0, <2>1 DEF FullRun, OneGenerator
  <2> QED
    BY <1>0, <2>3, <2>4 DEF ListInv
<1>4. ASSUME NEW g \in Generators, Generate(g), ~GenerateRead(g) PROVE ListInv'
  <2>0. gen[g] \in Session /\ gen \in [Generators -> Session] /\ (gen[g].pc # "idle" => gen[g].run \in Runs)
        /\ findings \in [Runs -> SUBSET Keys] /\ snaps \in SUBSET Keys
    BY <1>0 DEF Types
  <2>1. gen'[g].pc # "commit"
    <3>1. CASE GenerateCommit(g)
      BY <2>0, <3>1, IdleIs DEF GenerateCommit, Session
    <3> QED
      BY <1>0, <1>4, <3>1, NotReading
  <2>2. ReadIsCurrent'
    BY <2>1 DEF ReadIsCurrent, OneGenerator
  <2>3. /\ gen'[g].kind = "full" /\ gen'[g].pc = "detect_rest" => findings'[gen'[g].run] = snaps' \cap Ec2Keys
        /\ gen'[g].kind = "full" /\ gen'[g].pc = "generate" => findings'[gen'[g].run] = snaps'
    <3>1. CASE DetectEc2(g)
      <4>1. /\ gen'[g].kind = gen[g].kind /\ gen'[g].run = gen[g].run /\ gen[g].run \in Runs /\ snaps' = snaps
            /\ gen'[g].kind = "full" => gen'[g].pc = "detect_rest"
            /\ findings'[gen[g].run] = snaps \cap Ec2Keys
        BY <2>0, <3>1 DEF DetectEc2, Session
      <4> QED
        BY <4>1
    <3>2. CASE DetectRest(g)
      <4>1. /\ gen'[g].kind = gen[g].kind /\ gen'[g].run = gen[g].run /\ gen[g].run \in Runs /\ snaps' = snaps
            /\ gen[g].pc = "detect_rest" /\ gen'[g].pc # "detect_rest"
            /\ findings'[gen[g].run] = findings[gen[g].run] \cup (snaps \ Ec2Keys)
        BY <2>0, <3>2 DEF DetectRest, Session
      <4> QED
        BY <1>0, <4>1 DEF FullRun
    <3>3. CASE StartFull(g) \/ Retry(g)
      <4>1. CASE StartFull(g)
        BY <2>0, <4>1, IdleIs DEF StartFull, Session
      <4>2. CASE Retry(g)
        BY <2>0, <4>2 DEF Retry, Session
      <4> QED
        BY <3>3, <4>1, <4>2
    <3>4. CASE StartCostRefresh(g) \/ RecommendEndpoint(g) \/ DetectEndpoint(g)
      <4>1. CASE StartCostRefresh(g)
        BY <2>0, <4>1, IdleIs DEF StartCostRefresh, Session
      <4>2. CASE RecommendEndpoint(g)
        BY <2>0, <4>2, IdleIs DEF RecommendEndpoint, Session
      <4>3. CASE DetectEndpoint(g)
        BY <2>0, <4>3, IdleIs DEF DetectEndpoint, Session
      <4> QED
        BY <3>4, <4>1, <4>2, <4>3
    <3>5. CASE GenerateCommit(g) \/ Abort(g)
      <4>1. gen'[g].pc = "idle"
        BY <2>0, <3>5, IdleIs DEF GenerateCommit, Abort, Session
      <4> QED
        BY <4>1
    <3> QED
      BY <1>4, <3>1, <3>2, <3>3, <3>4, <3>5 DEF Generate
  <2>4. FullRun'
    BY <2>1, <2>3 DEF FullRun, OneGenerator
  <2> QED
    BY <1>0, <2>2, <2>4 DEF ListInv
<1> QED
  BY <1>1, <1>2, <1>3, <1>4 DEF Next, Tick, vars

\* With one generation at a time, for any keys, runs, clock and requests of users: when
\* the generation of a full sync commits, every issue of the snapshots is on a list or
\* was recorded as acted on, also one that a partial generation had resolved, one whose
\* rows an attempt that died had deleted, and one that a user changed between the
\* generation's read and its commit (_upsert_recommendations_for_findings,
\* analyzer_bundle, list_recommendations).
THEOREM FullSyncsListIssues == OneGenerator /\ Spec => FullSyncListsIssues
<1>1. Init => ListInv
  BY TypesInit, IdleIs DEF Init, ListInv, RowInv, KeysKnown, OneRowPerKey, ReadIsCurrent, FullRun
<1>2. SUFFICES ASSUME OneGenerator PROVE Spec => FullSyncListsIssues
  OBVIOUS
<1>3. ListInv /\ [Next]_vars => ListInv'
  BY <1>2, ListNext
<1>4. ListInv /\ [Next]_vars => [ListsIssues]_vars
  <2>1. SUFFICES ASSUME ListInv, [Next]_vars, NEW g \in Generators, gen[g].kind = "full", GenerateCommit(g),
                        NEW k \in snaps
                 PROVE  Listed(k)'
    BY DEF ListsIssues
  <2>2. gen[g].keys = snaps
    BY <2>1 DEF ListInv, FullRun, GenerateCommit
  <2>3. Shown(k)'
    BY <2>1, <2>2, CommitShows
  <2>4. RowInv'
    BY <1>2, <2>1, RowNext DEF ListInv
  <2> QED
    BY <2>3, <2>4, ShownIsListed
<1> QED
  BY <1>1, <1>3, <1>4, PTL DEF Spec, FullSyncListsIssues

------------------------------------------------------------------------------
(* FindingsPipeline *)

\* What the analyzer has found when it reaches each of its stages, on an
\* undisturbed analysis of the snapshots.
NatCost == CostFinding(snapshots, cost.nat, "nat_gateway", "nat_gateway_cost_review_candidate", {})
WafCost == CostFinding(snapshots, cost.waf, "waf", "waf_cost_review_candidate", {})
ToNat == detect_ec2_findings(snapshots)
ToWaf == ToNat \cup NatCost
ToEbs == ToWaf \cup WafCost
ToRds == ToEbs \cup detect_ebs_findings(snapshots)
ToLambda == ToRds \cup detect_rds_findings(snapshots)
ToS3 == ToLambda \cup detect_lambda_findings(snapshots)
ToExtended == ToS3 \cup detect_s3_findings(snapshots)
ToRules == ToExtended \cup detect_extended_findings(snapshots, migrated_finding_types(rules))
ToRecommend == ToRules \cup run_rule_engine(snapshots, rules)

\* The findings of the run at every stage, however often the task died before.
StageInv ==
  /\ stage = "detect_ec2" => Found = {}
  /\ stage = "nat" => Found = ToNat
  /\ stage = "waf" => Found = ToWaf
  /\ stage = "detect_ebs" => Found = ToEbs
  /\ stage = "detect_rds" => Found = ToRds
  /\ stage = "detect_lambda" => Found = ToLambda
  /\ stage = "detect_s3" => Found = ToS3
  /\ stage = "detect_extended" => Found = ToExtended
  /\ stage = "rules" => Found = ToRules
  /\ stage = "recommend" => Found = ToRecommend
  /\ stage = "done" => /\ {r.finding : r \in db.rows} = ToRecommend
                       /\ db.recs = recommendation_candidates(ToRecommend, rules)

\* A detector adds its findings to those of the run.
LEMMA EmitAdds ==
  ASSUME NEW at, NEW next, NEW found, Emit(at, next, found)
  PROVE  Found' = Found \cup found
<1> DEFINE new == {[finding |-> f, attempt |-> crashes] : f \in found}
<1>1. written' = written \cup new
  BY DEF Emit
<1>2. {r.finding : r \in new} = found
  <2>1. \A f \in found : \E r \in new : r.finding = f
    <3>1. \A f \in found : [finding |-> f, attempt |-> crashes] \in new
      OBVIOUS
    <3> QED BY <3>1
  <2>2. \A r \in new : r.finding \in found
    OBVIOUS
  <2> HIDE DEF new
  <2> QED BY <2>1, <2>2
<1>3. Found' = {r.finding : r \in written'}
  BY DEF Found
<1> HIDE DEF new
<1> QED BY <1>1, <1>2, <1>3 DEF Found

\* No EC2 finding has the type of a cost finding, and the two cost findings differ.
LEMMA EarlierTypes ==
  /\ \A f \in ToNat : f.ftype \in {"ec2_missing_required_tags", "ec2_stopped_instance"}
  /\ \A f \in NatCost : f.ftype = "nat_gateway_cost_review_candidate"
<1>1. \A f \in ToNat : f.ftype \in {"ec2_missing_required_tags", "ec2_stopped_instance"}
  BY DEF ToNat, detect_ec2_findings, Each, Find
<1>2. \A f \in NatCost : f.ftype = "nat_gateway_cost_review_candidate"
  BY DEF NatCost, CostFinding
<1> QED BY <1>1, <1>2

\* What the session holds when a stage starts depends on the snapshots, the cost data
\* and the rules only.
LEMMA SameInputSameFindings ==
  ASSUME UNCHANGED <<snapshots, cost, broken>>
  PROVE  /\ ToNat' = ToNat /\ ToWaf' = ToWaf /\ ToEbs' = ToEbs /\ ToRds' = ToRds
         /\ ToLambda' = ToLambda /\ ToS3' = ToS3 /\ ToExtended' = ToExtended
         /\ ToRules' = ToRules /\ ToRecommend' = ToRecommend /\ rules' = rules
         /\ NatCost' = NatCost /\ WafCost' = WafCost
BY DEF ToNat, ToWaf, ToEbs, ToRds, ToLambda, ToS3, ToExtended, ToRules, ToRecommend, NatCost, WafCost, rules

\* The first and the second cost finding are looked for among findings of other types.
LEMMA CostFindingsNew ==
  /\ CostFinding(snapshots, cost.nat, "nat_gateway", "nat_gateway_cost_review_candidate", ToNat) = NatCost
  /\ CostFinding(snapshots, cost.waf, "waf", "waf_cost_review_candidate", ToWaf) = WafCost
<1>1. /\ ~\E e \in ToNat : e.ftype = "nat_gateway_cost_review_candidate"
      /\ ~\E e \in ToWaf : e.ftype = "waf_cost_review_candidate"
  BY EarlierTypes DEF ToWaf
<1> QED BY <1>1 DEF CostFinding, NatCost, WafCost

\* The steps outside the analysis end outside of it.
LEMMA OtherSteps ==
  ASSUME \/ ingest_ec2 \/ ingest_ebs \/ ingest_rds \/ ingest_lambda \/ ingest_s3
         \/ fetch_all_extended \/ ingest_extended_batch \/ InventoryDone
         \/ detect_extended_raises \/ Restart \/ NextSync
  PROVE  stage' \in InventoryStages \cup {"clear", "failed"}
BY DEF ingest_ec2, ingest_ebs, ingest_rds, ingest_lambda, ingest_s3, IngestOne, Ingest, InventoryFails,
       fetch_all_extended, ingest_extended_batch, InventoryDone, detect_extended_raises, Restart,
       NextSync, InventoryStages

LEMMA StageNext == StageInv /\ [AnalysisNext]_analysisVars => StageInv'
<1> SUFFICES ASSUME StageInv, [AnalysisNext]_analysisVars PROVE StageInv'
  OBVIOUS
<1>1. CASE \/ ingest_ec2 \/ ingest_ebs \/ ingest_rds \/ ingest_lambda \/ ingest_s3
           \/ fetch_all_extended \/ ingest_extended_batch \/ InventoryDone
           \/ detect_extended_raises \/ Restart \/ NextSync
  <2>1. stage' \in InventoryStages \cup {"clear", "failed"}
    BY <1>1, OtherSteps
  <2>2. stage' \notin {"detect_ec2", "nat", "waf", "detect_ebs", "detect_rds", "detect_lambda",
                       "detect_s3", "detect_extended", "rules", "recommend", "done"}
    BY <2>1 DEF InventoryStages
  <2> QED BY <2>2 DEF StageInv
<1>2. CASE clear_run
  <2>1. stage' = "detect_ec2" /\ Found' = {}
    BY <1>2 DEF clear_run, Found
  <2> QED BY <2>1 DEF StageInv
<1>3. ASSUME NEW at, NEW next, NEW found, Emit(at, next, found)
      PROVE  /\ UNCHANGED <<snapshots, cost, broken>>
             /\ stage = at /\ stage' = next
             /\ Found' = Found \cup found
  BY <1>3, EmitAdds DEF Emit, input
<1>4. CASE detect_ec2
  <2>1. /\ stage = "detect_ec2" /\ stage' = "nat" /\ Found' = Found \cup ToNat
        /\ UNCHANGED <<snapshots, cost, broken>>
    BY <1>4, <1>3 DEF detect_ec2, ToNat
  <2>2. Found' = ToNat'
    BY <2>1, SameInputSameFindings DEF StageInv
  <2> QED BY <2>1, <2>2 DEF StageInv
<1>5. CASE detect_nat_cost
  <2>1. stage = "nat" /\ Found = ToNat
    BY <1>5 DEF detect_nat_cost, Emit, StageInv
  <2>2. Emit("nat", "waf", NatCost)
    BY <1>5, <2>1, CostFindingsNew DEF detect_nat_cost
  <2>3. /\ stage' = "waf" /\ Found' = Found \cup NatCost
        /\ UNCHANGED <<snapshots, cost, broken>>
    BY <2>2, <1>3
  <2>4. Found' = ToWaf'
    BY <2>1, <2>3, SameInputSameFindings DEF ToWaf
  <2> QED BY <2>3, <2>4 DEF StageInv
<1>6. CASE detect_waf_cost
  <2>1. stage = "waf" /\ Found = ToWaf
    BY <1>6 DEF detect_waf_cost, Emit, StageInv
  <2>2. Emit("waf", "detect_ebs", WafCost)
    BY <1>6, <2>1, CostFindingsNew DEF detect_waf_cost
  <2>3. /\ stage' = "detect_ebs" /\ Found' = Found \cup WafCost
        /\ UNCHANGED <<snapshots, cost, broken>>
    BY <2>2, <1>3
  <2>4. Found' = ToEbs'
    BY <2>1, <2>3, SameInputSameFindings DEF ToEbs
  <2> QED BY <2>3, <2>4 DEF StageInv
<1>7. CASE detect_ebs
  <2>1. /\ stage = "detect_ebs" /\ stage' = "detect_rds"
        /\ Found' = Found \cup detect_ebs_findings(snapshots)
        /\ UNCHANGED <<snapshots, cost, broken>>
    BY <1>7, <1>3 DEF detect_ebs
  <2>2. Found' = ToRds'
    BY <2>1, SameInputSameFindings DEF StageInv, ToRds
  <2> QED BY <2>1, <2>2 DEF StageInv
<1>8. CASE detect_rds
  <2>1. /\ stage = "detect_rds" /\ stage' = "detect_lambda"
        /\ Found' = Found \cup detect_rds_findings(snapshots)
        /\ UNCHANGED <<snapshots, cost, broken>>
    BY <1>8, <1>3 DEF detect_rds
  <2>2. Found' = ToLambda'
    BY <2>1, SameInputSameFindings DEF StageInv, ToLambda
  <2> QED BY <2>1, <2>2 DEF StageInv
<1>9. CASE detect_lambda
  <2>1. /\ stage = "detect_lambda" /\ stage' = "detect_s3"
        /\ Found' = Found \cup detect_lambda_findings(snapshots)
        /\ UNCHANGED <<snapshots, cost, broken>>
    BY <1>9, <1>3 DEF detect_lambda
  <2>2. Found' = ToS3'
    BY <2>1, SameInputSameFindings DEF StageInv, ToS3
  <2> QED BY <2>1, <2>2 DEF StageInv
<1>10. CASE detect_s3
  <2>1. /\ stage = "detect_s3" /\ stage' = "detect_extended"
        /\ Found' = Found \cup detect_s3_findings(snapshots)
        /\ UNCHANGED <<snapshots, cost, broken>>
    BY <1>10, <1>3 DEF detect_s3
  <2>2. Found' = ToExtended'
    BY <2>1, SameInputSameFindings DEF StageInv, ToExtended
  <2> QED BY <2>1, <2>2 DEF StageInv
<1>11. CASE detect_extended
  <2>1. /\ stage = "detect_extended" /\ stage' = "rules"
        /\ Found' = Found \cup detect_extended_findings(snapshots, migrated_finding_types(rules))
        /\ UNCHANGED <<snapshots, cost, broken>>
    BY <1>11, <1>3 DEF detect_extended
  <2>2. Found' = ToRules'
    BY <2>1, SameInputSameFindings DEF StageInv, ToRules
  <2> QED BY <2>1, <2>2 DEF StageInv
<1>12. CASE evaluate_rules
  <2>1. /\ stage = "rules" /\ stage' = "recommend"
        /\ Found' = Found \cup run_rule_engine(snapshots, rules)
        /\ UNCHANGED <<snapshots, cost, broken>>
    BY <1>12, <1>3 DEF evaluate_rules
  <2>2. Found' = ToRecommend'
    BY <2>1, SameInputSameFindings DEF StageInv, ToRecommend
  <2> QED BY <2>1, <2>2 DEF StageInv
<1>13. CASE generate_recommendations
  <2>1. /\ stage' = "done" /\ UNCHANGED <<snapshots, cost, broken>>
        /\ Found = ToRecommend
        /\ db' = [rows |-> written, recs |-> recommendation_candidates(Found, rules)]
    BY <1>13 DEF generate_recommendations, input, StageInv
  <2>2. db.rows' = written /\ db.recs' = recommendation_candidates(Found, rules)
    BY <2>1
  <2>3. /\ {r.finding : r \in db.rows'} = ToRecommend'
        /\ db.recs' = recommendation_candidates(ToRecommend', rules')
    BY <2>1, <2>2, SameInputSameFindings DEF Found
  <2> QED BY <2>1, <2>3 DEF StageInv
<1>14. CASE UNCHANGED analysisVars
  <2>1. UNCHANGED <<stage, db>> /\ Found' = Found
    BY <1>14 DEF analysisVars, Found
  <2>2. UNCHANGED <<snapshots, cost, broken>>
    BY <1>14 DEF analysisVars, input
  <2> QED BY <2>1, <2>2, SameInputSameFindings DEF StageInv
<1> QED
  BY <1>1, <1>2, <1>4, <1>5, <1>6, <1>7, <1>8, <1>9, <1>10, <1>11, <1>12, <1>13, <1>14 DEF AnalysisNext

\* A finished analysis holds what one undisturbed pass over the snapshots, the cost data
\* and the rules gives, however often the task died and whatever it had committed.
THEOREM RetryIdempotentHolds == AnalysisSpec => []RetryIdempotent
<1>1. AnalysisInit => StageInv
  BY DEF AnalysisInit, StageInv
<1>2. StageInv => RetryIdempotent
  BY DEF StageInv, RetryIdempotent, ToRecommend, ToRules, ToExtended, ToS3, ToLambda, ToRds, ToEbs, ToWaf,
         ToNat, NatCost, WafCost
<1> QED BY <1>1, <1>2, StageNext, PTL DEF AnalysisSpec
------------------------------------------------------------------------------
(* What the collectors return *)

\* A row that a collector returns is about the resource it was asked for.
About(i, r) == i.out = "row" /\ \E cfg, tags : i.row = [id |-> r.id, type |-> r.type, region |-> r.region,
                                                         cfg |-> cfg, tags |-> tags]

LEMMA RowIsAbout == ASSUME NEW r, NEW cfg, NEW tags PROVE About(SnapshotRow(r, cfg, tags), r)
BY DEF About, SnapshotRow

LEMMA DropIs == Drop.out = "drop"
BY DEF Drop

LEMMA RaiseIs == ASSUME NEW kind PROVE Raise(kind).out = kind
BY DEF Raise

\* What a collector makes of a resource: a row about it, nothing, or the error of
\* the describe or the tag call, the row whenever both succeed.
ItemOutcome(i, r, o) ==
  \/ About(i, r)
  \/ o["describe"] # "ok" /\ i.out \in {"drop", o["describe"]}
  \/ o["tags"] # "ok" /\ i.out = o["tags"]

LEMMA ItemIs ==
  ASSUME NEW r, NEW o, r.type \in ResourceTypes
  PROVE  ItemOutcome(Item(r, o), r, o)
<1>1. CASE r.type \in {"ec2_instance", "ebs_volume", "rds_instance", "aurora_cluster"}
  BY <1>1, RowIsAbout, DropIs, RaiseIs
     DEF ItemOutcome, Item, normalize_instance, normalize_ebs_volume, normalize_rds_instance,
         normalize_aurora_cluster
<1>2. CASE r.type \in {"lambda_function", "s3_bucket", "cloudfront_distribution", "acm_certificate"}
  <2>1. CASE r.type = "lambda_function"
    <3>1. Item(r, o) = normalize_lambda_function(r, o)
      BY <2>1 DEF Item
    <3> QED
      BY <3>1, RowIsAbout DEF ItemOutcome, normalize_lambda_function
  <2>2. CASE r.type = "s3_bucket"
    <3>1. Item(r, o) = normalize_s3_bucket(r, o)
      BY <2>2 DEF Item
    <3> QED
      BY <3>1, RowIsAbout, RaiseIs DEF ItemOutcome, normalize_s3_bucket, fetch_s3_bucket_tags
  <2>3. CASE r.type = "cloudfront_distribution"
    <3>1. Item(r, o) = cloudfront_item(r, o)
      BY <2>3 DEF Item
    <3> QED
      BY <3>1, RowIsAbout DEF ItemOutcome, cloudfront_item
  <2>4. CASE r.type = "acm_certificate"
    <3>1. Item(r, o) = acm_one_region(r, o)
      BY <2>4 DEF Item
    <3> QED
      BY <3>1, RowIsAbout DEF ItemOutcome, acm_one_region
  <2> QED
    BY <1>2, <2>1, <2>2, <2>3, <2>4
<1>3. CASE r.type \in {"apigateway_rest_api", "apigateway_http_api", "eventbridge_rule", "ses_email_identity"}
  BY <1>3, RowIsAbout, DropIs, RaiseIs
     DEF ItemOutcome, Item, apigw_rest_one_region, apigw_http_one_region, events_rules_one_region,
         ses_identities_one_region
<1>4. CASE r.type \in {"iot_thing", "load_balancer", "target_group", "route_table"}
  <2>1. CASE r.type = "iot_thing"
    <3>1. Item(r, o) = iot_things_one_region(r, o)
      BY <2>1 DEF Item
    <3> QED
      BY <3>1, RowIsAbout DEF ItemOutcome, iot_things_one_region
  <2>2. CASE r.type = "load_balancer"
    <3>1. Item(r, o) = elbv2_one_region(r, o)
      BY <2>2 DEF Item
    <3> QED
      BY <3>1, RowIsAbout DEF ItemOutcome, elbv2_one_region
  <2>3. CASE r.type = "target_group"
    <3>1. Item(r, o) = target_groups_one_region(r, o)
      BY <2>3 DEF Item
    <3> QED
      BY <3>1, RowIsAbout DEF ItemOutcome, target_groups_one_region
  <2>4. CASE r.type = "route_table"
    <3>1. Item(r, o) = route_tables_one_region(r, o)
      BY <2>4 DEF Item
    <3> QED
      BY <3>1, RowIsAbout DEF ItemOutcome, route_tables_one_region
  <2> QED
    BY <1>4, <2>1, <2>2, <2>3, <2>4
<1>5. CASE r.type \in {"vpc", "subnet", "nat_gateway", "internet_gateway"}
  BY <1>5, RowIsAbout, DropIs, RaiseIs
     DEF ItemOutcome, Item, ec2_vpcs_one_region, ec2_subnets_one_region, nat_one_region,
         igw_one_region
<1>6. CASE r.type \in {"security_group", "rds_parameter_group", "ecs_cluster", "ecs_service"}
  BY <1>6, RowIsAbout, DropIs, RaiseIs
     DEF ItemOutcome, Item, sg_one_region, rds_parameter_groups_one_region,
         ecs_clusters_one_region, ecs_services_one_region
<1>7. CASE r.type \in {"eks_cluster", "elasticache_cluster", "redshift_cluster", "opensearch_domain"}
  BY <1>7, RowIsAbout, DropIs, RaiseIs
     DEF ItemOutcome, Item, eks_clusters_one_region, elasticache_clusters_one_region,
         redshift_clusters_one_region, opensearch_domains_one_region
<1>8. CASE r.type \in {"sqs_queue", "sns_topic", "kinesis_stream", "dynamodb_table"}
  BY <1>8, RowIsAbout, DropIs, RaiseIs
     DEF ItemOutcome, Item, sqs_queues_one_region, sns_topics_one_region,
         kinesis_streams_one_region, dynamodb_tables_one_region
<1>9. CASE r.type \in {"kms_key", "cloudwatch_log_group", "iam_role", "iam_user"}
  BY <1>9, RowIsAbout, DropIs, RaiseIs
     DEF ItemOutcome, Item, kms_keys_one_region, cloudwatch_log_groups_one_region, iam_roles_item,
         iam_users_item
<1> QED BY <1>1, <1>2, <1>3, <1>4, <1>5, <1>6, <1>7, <1>8, <1>9 DEF ResourceTypes, EXTENDED_TAGGABLE_RESOURCE_TYPES

\* The two collectors whose resources always get their row.
LEMMA ItemAlways ==
  ASSUME NEW r, NEW o, r.type \in {"cloudfront_distribution", "aurora_cluster"}
  PROVE  About(Item(r, o), r)
BY RowIsAbout DEF Item, cloudfront_item, normalize_aurora_cluster
------------------------------------------------------------------------------
\* What is known of an account and of the failing call.
WellFormed(resources, failing) ==
  /\ \A r \in resources :
       /\ r.type \in ResourceTypes
       /\ r.region \in IF r.type \in GlobalTypes THEN AwsRegions \cup {"global"} ELSE AwsRegions
       /\ r.type = "rds_instance" => r.x.publicly_accessible \in BOOLEAN
       /\ r.type = "cloudfront_distribution" => r.x.enabled \in BOOLEAN
  /\ failing = NULL \/ failing.kind \in {"denied", "client", "network"}

\* It holds of the present sync and of the syncs to come.
Inputs == WellFormed(account, fault)
Futures == \A n \in later : WellFormed(n.account, n.fault)

LEMMA InputsNext == Inputs /\ Futures /\ [AnalysisNext]_analysisVars => (Inputs /\ Futures)'
<1> SUFFICES ASSUME Inputs, Futures, [AnalysisNext]_analysisVars PROVE (Inputs /\ Futures)'
  OBVIOUS
<1>1. CASE NextSync
  <2>1. PICK n \in later : account' = n.account /\ fault' = n.fault /\ later' = later \ {n}
    BY <1>1 DEF NextSync
  <2> QED BY <2>1 DEF Inputs, Futures, WellFormed
<1>2. CASE ~NextSync
  <2>1. UNCHANGED <<account, later>> /\ fault' \in {fault, NULL}
    BY <1>2 DEF AnalysisNext, ingest_ec2, ingest_ebs, ingest_rds, ingest_lambda, ingest_s3, IngestOne, Ingest,
          fetch_all_extended, ingest_extended_batch, InventoryDone, clear_run, detect_ec2, detect_nat_cost,
          detect_waf_cost, detect_ebs, detect_rds, detect_lambda, detect_s3, detect_extended,
          detect_extended_raises, evaluate_rules, Emit, generate_recommendations, Restart, analysisVars, input
  <2> QED BY <2>1 DEF Inputs, Futures, WellFormed
<1> QED BY <1>1, <1>2

LEMMA InputsInit == AnalysisInit => Inputs /\ Futures
BY ScenariosAssumption DEF AnalysisInit, Inputs, Futures, WellFormed

\* The calls about a type in a region.
AllRegions == AwsRegions \cup {"global"}
Hits(type, reg) == fault # NULL /\ fault.type = type /\ fault.region = reg

LEMMA CallOutcome ==
  ASSUME NEW type, NEW reg \in AllRegions, NEW c \in Calls
  PROVE  /\ Outcomes(type)[reg][c] = (IF Hits(type, reg) /\ fault.call = c THEN fault.kind ELSE "ok")
         /\ DOMAIN Outcomes(type) = AllRegions
BY DEF Outcomes, Hits, AllRegions

LEMMA CallNames == {"list", "regions", "tags", "describe"} \subseteq Calls
BY DEF Calls

\* A failing call gives no outcome that could be taken for a row.
LEMMA FailureKinds ==
  ASSUME Inputs, NEW type, NEW reg \in AllRegions, NEW c \in Calls
  PROVE  Outcomes(type)[reg][c] \in {"ok", "denied", "client", "network"}
BY CallOutcome DEF Inputs, WellFormed, Hits

LEMMA ListFailureKinds ==
  ASSUME NEW type, NEW kind
  PROVE  ListFailure(type, kind).out \in {"drop", "attribute", kind}
BY DropIs, RaiseIs DEF ListFailure

Resources(type, reg) == {r \in {q \in account : q.type = type} : r.region = reg}

\* A row that the scan of a region gives is about one of the resources there.
LEMMA RegionRows ==
  ASSUME Inputs, NEW type \in ResourceTypes, NEW reg \in AllRegions,
         NEW s \in Rows(RegionResults(type, Resources(type, reg), Outcomes(type)[reg]))
  PROVE  \E r \in Resources(type, reg) :
            LET i == Item(r, Outcomes(type)[reg]) IN About(i, r) /\ s = i.row
<1> DEFINE o == Outcomes(type)[reg]
           rs == Resources(type, reg)
<1>1. PICK res \in RegionResults(type, rs, o) : res.out = "row" /\ s = res.row
  BY DEF Rows
<1>2. o["list"] \in {"ok", "denied", "client", "network"}
  BY FailureKinds, CallNames
<1>3. o["list"] = "ok"
  <2>1. SUFFICES ASSUME o["list"] # "ok" PROVE FALSE
    OBVIOUS
  <2>2. res = ListFailure(type, o["list"])
    BY <1>1, <2>1 DEF RegionResults
  <2>3. res.out \in {"drop", "attribute", o["list"]}
    BY <2>2, ListFailureKinds
  <2> QED BY <1>1, <1>2, <2>3
<1>4. PICK r \in rs : res = Item(r, o)
  BY <1>1, <1>3 DEF RegionResults
<1>5. r.type \in ResourceTypes
  BY <1>4 DEF Resources
<1>6. o["describe"] \in {"ok", "denied", "client", "network"} /\ o["tags"] \in {"ok", "denied", "client", "network"}
  BY FailureKinds, CallNames
<1> HIDE DEF o
<1>7. ItemOutcome(Item(r, o), r, o)
  BY <1>5, ItemIs
<1>8. About(Item(r, o), r)
  BY <1>1, <1>4, <1>6, <1>7 DEF ItemOutcome
<1> QED BY <1>1, <1>4, <1>8 DEF o

Scan(type, reg) == RegionResults(type, Resources(type, reg), Outcomes(type)[reg])
Regions(type) == inventory_regions(Outcomes(type)[HomeRegion])

\* A collector, in terms of the scans of the regions.
LEMMA CollectIs ==
  ASSUME NEW type
  PROVE  /\ type \in GlobalTypes =>
              /\ Collect(type).ok = (\A reg \in AllRegions : Raised(Scan(type, reg)) = {})
              /\ Collect(type).rows = UNION {Rows(Scan(type, reg)) : reg \in AllRegions}
         /\ type \notin GlobalTypes =>
              /\ Collect(type).ok = (\A reg \in Regions(type) : Raised(Scan(type, reg)) \subseteq {"denied", "network"})
              /\ Collect(type).rows = UNION {Rows(Scan(type, reg)) :
                                               reg \in {q \in Regions(type) : Raised(Scan(type, q)) = {}}}
         /\ Regions(type) \subseteq AllRegions
<1> DEFINE out == Outcomes(type)
           per == [reg \in DOMAIN out |-> RegionResults(type, {r \in {q \in account : q.type = type} : r.region = reg},
                                                        out[reg])]
<1>1. DOMAIN out = AllRegions /\ HomeRegion \in AwsRegions
  BY InventoryAssumption DEF Outcomes, AllRegions
<1>2. \A reg \in AllRegions : per[reg] = Scan(type, reg)
  BY <1>1 DEF Scan, Resources
<1>3. Regions(type) \subseteq AllRegions
  BY <1>1 DEF Regions, inventory_regions, AllRegions
<1>4. Collect(type) =
        IF type \in GlobalTypes
        THEN [ok   |-> \A reg \in DOMAIN out : Raised(per[reg]) = {},
              rows |-> UNION {Rows(per[reg]) : reg \in DOMAIN out}]
        ELSE gather_per_region(per, inventory_regions(out[HomeRegion]))
  BY DEF Collect, Fetch
<1> HIDE DEF per, out
<1>5. CASE type \in GlobalTypes
  <2>1. Collect(type).ok = (\A reg \in AllRegions : Raised(per[reg]) = {})
    BY <1>1, <1>4, <1>5
  <2>2. Collect(type).rows = UNION {Rows(per[reg]) : reg \in AllRegions}
    BY <1>1, <1>4, <1>5
  <2>3. {Rows(per[reg]) : reg \in AllRegions} = {Rows(Scan(type, reg)) : reg \in AllRegions}
    BY <1>2
  <2> QED BY <1>2, <1>3, <1>5, <2>1, <2>2, <2>3
<1>6. CASE type \notin GlobalTypes
  <2>1. Collect(type) = gather_per_region(per, Regions(type))
    BY <1>4, <1>6 DEF Regions, out
  <2>2. Collect(type).ok = (\A reg \in Regions(type) : Raised(per[reg]) \subseteq {"denied", "network"})
    BY <2>1 DEF gather_per_region, Skippable
  <2>3. Collect(type).rows = UNION {Rows(per[reg]) : reg \in {q \in Regions(type) : Raised(per[q]) = {}}}
    BY <2>1 DEF gather_per_region
  <2>4. {q \in Regions(type) : Raised(per[q]) = {}} = {q \in Regions(type) : Raised(Scan(type, q)) = {}}
    BY <1>2, <1>3
  <2>5. {Rows(per[reg]) : reg \in {q \in Regions(type) : Raised(per[q]) = {}}}
          = {Rows(Scan(type, reg)) : reg \in {q \in Regions(type) : Raised(Scan(type, q)) = {}}}
    BY <1>2, <1>3, <2>4
  <2>6. Collect(type).ok = (\A reg \in Regions(type) : Raised(Scan(type, reg)) \subseteq {"denied", "network"})
    BY <1>2, <1>3, <2>2
  <2> QED BY <1>3, <1>6, <2>3, <2>5, <2>6
<1> QED BY <1>5, <1>6

\* Every row a collector returns is about a resource of the account, of its type.
LEMMA CollectRows ==
  ASSUME Inputs, NEW type \in ResourceTypes, NEW s \in Collect(type).rows
  PROVE  \E reg \in AllRegions : \E r \in Resources(type, reg) :
            LET i == Item(r, Outcomes(type)[reg]) IN About(i, r) /\ s = i.row
<1>1. PICK reg \in AllRegions : s \in Rows(Scan(type, reg))
  <2>1. CASE type \in GlobalTypes
    <3>1. s \in UNION {Rows(Scan(type, reg)) : reg \in AllRegions}
      BY <2>1, CollectIs
    <3> QED BY <3>1
  <2>2. CASE type \notin GlobalTypes
    <3>1. s \in UNION {Rows(Scan(type, reg)) : reg \in {q \in Regions(type) : Raised(Scan(type, q)) = {}}}
      BY <2>2, CollectIs
    <3>2. Regions(type) \subseteq AllRegions
      BY CollectIs
    <3> QED BY <3>1, <3>2
  <2> QED BY <2>1, <2>2
<1> QED BY <1>1, RegionRows DEF Scan

LEMMA CollectTypes ==
  ASSUME Inputs, NEW type \in ResourceTypes, NEW s \in Collect(type).rows
  PROVE  s.type = type
<1>1. PICK reg \in AllRegions : \E r \in Resources(type, reg) :
         About(Item(r, Outcomes(type)[reg]), r) /\ s = Item(r, Outcomes(type)[reg]).row
  BY CollectRows
<1>0. PICK r \in Resources(type, reg) :
         About(Item(r, Outcomes(type)[reg]), r) /\ s = Item(r, Outcomes(type)[reg]).row
  BY <1>1
<1>2. r.type = type
  BY DEF Resources
<1> QED BY <1>0, <1>2 DEF About
------------------------------------------------------------------------------
(* An AWS error stays with its type and region *)

\* A failing call the collectors mean to survive, and the resources it may cost.
Survivable ==
  \/ fault = NULL
  \/ /\ fault.kind \in {"denied", "network"} /\ fault.call # "regions"
     /\ fault.type \notin {"iam_role", "iam_user", "s3_bucket"}
     /\ fault.kind = "network" => fault.type \notin {"target_group", "rds_parameter_group"}

Exempt(r) ==
  \/ Hits(r.type, r.region)
  \/ ~(r.region \in {HomeRegion, "global"} \/ ScanAllRegions)
  \/ ~BeforeCap(r, Resources(r.type, r.region))

\* A region whose calls succeed raises nothing and gives a row of every resource
\* before the cap.
LEMMA QuietRegion ==
  ASSUME NEW type \in ResourceTypes, NEW reg \in AllRegions, ~Hits(type, reg)
  PROVE  /\ Raised(Scan(type, reg)) = {}
         /\ \A r \in Resources(type, reg) : BeforeCap(r, Resources(type, reg)) =>
              \E s \in Rows(Scan(type, reg)) : s.id = r.id /\ s.type = r.type
<1> DEFINE o == Outcomes(type)[reg]
           rs == Resources(type, reg)
<1>1. o["list"] = "ok" /\ o["tags"] = "ok" /\ o["describe"] = "ok"
  BY CallOutcome, CallNames
<1> HIDE DEF o
<1>2. Scan(type, reg) = {Item(r, o) : r \in {q \in rs : BeforeCap(q, rs)}}
  BY <1>1 DEF Scan, RegionResults, o
<1>3. \A r \in rs : About(Item(r, o), r)
  <2>1. \A r \in rs : r.type \in ResourceTypes
    BY DEF Resources
  <2> QED BY <1>1, <2>1, ItemIs DEF ItemOutcome
<1>4. Raised(Scan(type, reg)) = {}
  BY <1>2, <1>3 DEF Raised, About
<1>5. ASSUME NEW r \in rs, BeforeCap(r, rs)
      PROVE  \E s \in Rows(Scan(type, reg)) : s.id = r.id /\ s.type = r.type
  <2>1. Item(r, o) \in Scan(type, reg) /\ About(Item(r, o), r)
    BY <1>2, <1>3, <1>5
  <2>2. Item(r, o).row \in Rows(Scan(type, reg))
    BY <2>1 DEF Rows, About
  <2> QED BY <2>1, <2>2 DEF About
<1> QED BY <1>4, <1>5

\* In the other region too a survivable error is one the collectors let pass.
LEMMA HitRegion ==
  ASSUME Survivable, NEW type \in ResourceTypes, NEW reg \in AllRegions, Hits(type, reg)
  PROVE  /\ Raised(Scan(type, reg)) \subseteq {"denied", "network"}
         /\ type \in GlobalTypes => Raised(Scan(type, reg)) = {}
<1> DEFINE o == Outcomes(type)[reg]
           rs == Resources(type, reg)
<1>1. /\ fault.type = type /\ fault.kind \in {"denied", "network"}
      /\ type \notin {"iam_role", "iam_user", "s3_bucket"}
      /\ fault.kind = "network" => type \notin {"target_group", "rds_parameter_group"}
  BY DEF Hits, Survivable
<1>2. \A c \in Calls : o[c] \in {"ok", fault.kind}
  BY CallOutcome
<1> HIDE DEF o
<1>3. type \in GlobalTypes => type = "cloudfront_distribution"
  BY <1>1 DEF GlobalTypes
<1>4. CASE o["list"] # "ok"
  <2>1. Scan(type, reg) = {ListFailure(type, fault.kind)}
    BY <1>2, <1>4, CallNames DEF Scan, RegionResults, o
  <2>2. /\ ListFailure(type, fault.kind).out \in {"drop", fault.kind}
        /\ type = "cloudfront_distribution" => ListFailure(type, fault.kind).out = "drop"
    BY <1>1, DropIs, RaiseIs DEF ListFailure
  <2> QED BY <1>1, <1>3, <2>1, <2>2 DEF Raised
<1>5. CASE o["list"] = "ok"
  <2>1. Scan(type, reg) = {Item(r, o) : r \in {q \in rs : BeforeCap(q, rs)}}
    BY <1>5 DEF Scan, RegionResults, o
  <2>2. \A r \in rs : r.type = type
    BY DEF Resources
  <2>3. \A r \in rs : /\ Item(r, o).out \in {"row", "drop", "denied", "network"}
                      /\ type = "cloudfront_distribution" => Item(r, o).out = "row"
    BY <1>1, <1>2, <2>2, CallNames, ItemIs, ItemAlways DEF ItemOutcome, About
  <2> QED BY <1>3, <2>1, <2>3 DEF Raised
<1> QED BY <1>4, <1>5

\* A collector that meets a survivable error ends well, with a row of every resource
\* that is not exempt.
LEMMA CollectSurvives ==
  ASSUME Inputs, Survivable, NEW type \in ResourceTypes
  PROVE  /\ Collect(type).ok
         /\ \A r \in account : r.type = type /\ ~Exempt(r) =>
              \E s \in Collect(type).rows : s.id = r.id /\ s.type = r.type
<1>1. /\ \A reg \in AllRegions : Raised(Scan(type, reg)) \subseteq {"denied", "network"}
      /\ type \in GlobalTypes => \A reg \in AllRegions : Raised(Scan(type, reg)) = {}
  BY QuietRegion, HitRegion
<1>2. Collect(type).ok
  BY <1>1, CollectIs
<1>3. ASSUME NEW r \in account, r.type = type, ~Exempt(r)
      PROVE  \E s \in Collect(type).rows : s.id = r.id /\ s.type = r.type
  <2>1. r.region \in AllRegions /\ (type \notin GlobalTypes => r.region \in AwsRegions)
    BY <1>3 DEF Inputs, WellFormed, AllRegions
  <2>2. r \in Resources(type, r.region)
    BY <1>3 DEF Resources
  <2>3. ~Hits(type, r.region) /\ BeforeCap(r, Resources(type, r.region))
    BY <1>3 DEF Exempt
  <2>4. /\ Raised(Scan(type, r.region)) = {}
        /\ \E s \in Rows(Scan(type, r.region)) : s.id = r.id /\ s.type = r.type
    BY <2>1, <2>2, <2>3, QuietRegion
  <2>5. CASE type \in GlobalTypes
    <3>1. Collect(type).rows = UNION {Rows(Scan(type, reg)) : reg \in AllRegions}
      BY <2>5, CollectIs
    <3>2. Rows(Scan(type, r.region)) \subseteq Collect(type).rows
      BY <2>1, <3>1
    <3> QED BY <2>4, <3>2
  <2>6. CASE type \notin GlobalTypes
    <3>1. HomeRegion \in AllRegions
      BY InventoryAssumption DEF AllRegions
    <3>2. Outcomes(type)[HomeRegion]["regions"] = "ok"
      BY <3>1, CallOutcome, CallNames DEF Survivable, Hits
    <3>3. r.region \in Regions(type)
      <4>1. r.region = HomeRegion \/ ScanAllRegions \/ r.region = "global"
        BY <1>3 DEF Exempt
      <4> QED BY <2>1, <2>6, <3>2, <4>1, InventoryAssumption DEF Regions, inventory_regions
    <3> QED BY <2>4, <2>6, <3>3, CollectIs, ZenonT(60)
  <2> QED BY <2>5, <2>6
<1> QED BY <1>2, <1>3

Covered(type) ==
  \A r \in account : r.type = type =>
    \/ Exempt(r)
    \/ type \in captured /\ \E s \in snapshots : s.id = r.id /\ s.type = r.type

Waiting(type) ==
  \A r \in account : r.type = type => Exempt(r) \/ \E b \in batches : b.id = r.id /\ b.type = r.type

\* The types whose resources have their snapshots, by the stage the worker has reached.
CoverInv ==
  Survivable =>
    /\ stage # "ec2" => Covered("ec2_instance")
    /\ stage \notin {"ec2", "ebs"} => Covered("ebs_volume")
    /\ stage \notin {"ec2", "ebs", "rds"} => Covered("rds_instance") /\ Covered("aurora_cluster")
    /\ stage \notin {"ec2", "ebs", "rds", "lambda"} => Covered("lambda_function")
    /\ stage \notin {"ec2", "ebs", "rds", "lambda", "s3"} => Covered("s3_bucket")
    /\ stage = "store_extended" =>
         \A t \in ExtendedTypes : IF \E b \in batches : b.type = t THEN Waiting(t) ELSE Covered(t)
    /\ stage \notin InventoryStages => \A t \in ExtendedTypes : Covered(t)

\* The exemption depends on the account and the error only.
LEMMA ExemptSame ==
  ASSUME UNCHANGED <<account, fault>>, NEW r
  PROVE  Exempt(r)' = Exempt(r)
BY DEF Exempt, Hits, Resources

LEMMA SurvivableSame ==
  ASSUME UNCHANGED fault
  PROVE  Survivable' = Survivable
BY DEF Survivable

\* Storing rows of other types loses nothing of a type; storing a row of every
\* resource that is not exempt covers it.
LEMMA CoverKept ==
  ASSUME UNCHANGED <<account, fault>>, NEW new, create_snapshots(new),
         NEW type, \A n \in new : n.type # type, Covered(type)
  PROVE  Covered(type)'
<1>1. \A s \in snapshots : s.type = type => s \in snapshots'
  BY DEF create_snapshots
<1>0. \A r : Exempt(r)' = Exempt(r)
  BY ExemptSame
<1> SUFFICES ASSUME NEW r \in account, r.type = type, ~Exempt(r)
             PROVE  type \in captured' /\ \E s \in snapshots' : s.id = r.id /\ s.type = r.type
  BY <1>0 DEF Covered
<1>2. captured \subseteq captured'
  BY DEF create_snapshots
<1> QED BY <1>1, <1>2 DEF Covered

LEMMA CoverGained ==
  ASSUME UNCHANGED <<account, fault>>, NEW new, create_snapshots(new), NEW type,
         \A r \in account : r.type = type /\ ~Exempt(r) => \E s \in new : s.id = r.id /\ s.type = r.type
  PROVE  Covered(type)'
<1>1. new \subseteq snapshots' /\ \A s \in new : s.type \in captured'
  BY DEF create_snapshots
<1>0. \A r : Exempt(r)' = Exempt(r)
  BY ExemptSame
<1> SUFFICES ASSUME NEW r \in account, r.type = type, ~Exempt(r)
             PROVE  type \in captured' /\ \E s \in snapshots' : s.id = r.id /\ s.type = r.type
  BY <1>0 DEF Covered
<1> QED BY <1>1

LEMMA CoverSame ==
  ASSUME UNCHANGED <<account, fault, snapshots, captured>>, NEW type
  PROVE  Covered(type)' = Covered(type)
BY ExemptSame DEF Covered

\* One collector of the first five and its snapshots.
LEMMA IngestOneCovers ==
  ASSUME Inputs, Survivable, NEW at, NEW next, NEW type \in ResourceTypes, IngestOne(at, next, type)
  PROVE  /\ stage = at /\ stage' = next /\ UNCHANGED <<account, fault>>
         /\ Covered(type)'
         /\ \A t : t # type /\ Covered(t) => Covered(t)'
<1>1. Collect(type).ok
  BY CollectSurvives
<1>2. /\ stage = at /\ stage' = next /\ UNCHANGED <<account, fault>>
      /\ create_snapshots(Collect(type).rows)
  BY <1>1 DEF IngestOne, Ingest, input
<1>3. Covered(type)'
  BY <1>2, CollectSurvives, CoverGained
<1>4. ASSUME NEW t, t # type, Covered(t)
      PROVE  Covered(t)'
  <2>1. \A n \in Collect(type).rows : n.type # t
    BY <1>4, CollectTypes
  <2> QED BY <1>2, <1>4, <2>1, CoverKept
<1> QED BY <1>2, <1>3, <1>4

\* Copying the public flag to a cluster changes neither its identity nor its type.
LEMMA EnrichKeeps ==
  ASSUME NEW I, NEW C, \A c \in C : \E id, type, region, cfg, tags :
           c = [id |-> id, type |-> type, region |-> region, cfg |-> cfg, tags |-> tags]
  PROVE  /\ \A c \in C : \E e \in enrich_aurora_clusters(I, C) : e.id = c.id /\ e.type = c.type
         /\ \A e \in enrich_aurora_clusters(I, C) : \E c \in C : e.id = c.id /\ e.type = c.type
<1> DEFINE members(c) == {i \in I : i.cfg.db_cluster_identifier = c.id}
           public(c) == \E i \in members(c) : i.cfg.publicly_accessible
           flagged(c) == [k \in DOMAIN c.cfg \cup {"publicly_accessible"} |->
                            IF k = "publicly_accessible" THEN public(c) ELSE c.cfg[k]]
           enriched(c) == IF members(c) = {} THEN c ELSE [c EXCEPT !.cfg = flagged(c)]
<1>1. enrich_aurora_clusters(I, C) = {enriched(c) : c \in C}
  BY DEF enrich_aurora_clusters
<1> HIDE DEF members, flagged
<1>2. \A c \in C : enriched(c).id = c.id /\ enriched(c).type = c.type
  OBVIOUS
<1> HIDE DEF enriched
<1> QED BY <1>1, <1>2

LEMMA RowForm ==
  ASSUME Inputs, NEW type \in ResourceTypes
  PROVE  \A c \in Collect(type).rows : \E id, ty, region, cfg, tags :
           c = [id |-> id, type |-> ty, region |-> region, cfg |-> cfg, tags |-> tags]
<1> SUFFICES ASSUME NEW c \in Collect(type).rows
             PROVE  \E id, ty, region, cfg, tags :
                      c = [id |-> id, type |-> ty, region |-> region, cfg |-> cfg, tags |-> tags]
  OBVIOUS
<1>1. PICK reg \in AllRegions : \E r \in Resources(type, reg) :
         About(Item(r, Outcomes(type)[reg]), r) /\ c = Item(r, Outcomes(type)[reg]).row
  BY CollectRows
<1>2. PICK r \in Resources(type, reg) :
         About(Item(r, Outcomes(type)[reg]), r) /\ c = Item(r, Outcomes(type)[reg]).row
  BY <1>1
<1> QED BY <1>2 DEF About

LEMMA IngestRdsCovers ==
  ASSUME Inputs, Survivable, ingest_rds
  PROVE  /\ stage = "rds" /\ stage' = "lambda" /\ UNCHANGED <<account, fault>>
         /\ Covered("rds_instance")' /\ Covered("aurora_cluster")'
         /\ \A t : t \notin {"rds_instance", "aurora_cluster"} /\ Covered(t) => Covered(t)'
<1> DEFINE i == Collect("rds_instance")
           c == Collect("aurora_cluster")
           e == enrich_aurora_clusters(i.rows, c.rows)
<1>0. "rds_instance" \in ResourceTypes /\ "aurora_cluster" \in ResourceTypes
  BY DEF ResourceTypes
<1>1. i.ok /\ c.ok
  BY <1>0, CollectSurvives
<1>2. Ingest("rds", "lambda", {i, c}, i.rows \cup e)
  BY DEF ingest_rds
<1>3. \A f \in {i, c} : f.ok
  BY <1>1
<1>4. /\ stage = "rds" /\ stage' = "lambda" /\ UNCHANGED <<account, fault>>
      /\ create_snapshots(i.rows \cup e)
  BY <1>2, <1>3 DEF Ingest, input
<1>5. /\ \A q \in c.rows : \E s \in e : s.id = q.id /\ s.type = q.type
      /\ \A s \in e : \E q \in c.rows : s.id = q.id /\ s.type = q.type
  BY <1>0, RowForm, EnrichKeeps
<1>6. \A s \in i.rows : s.type = "rds_instance"
  BY <1>0, CollectTypes
<1>7. \A s \in e : s.type = "aurora_cluster"
  BY <1>0, <1>5, CollectTypes
<1>8. \A r \in account : r.type = "rds_instance" /\ ~Exempt(r) =>
        \E s \in i.rows : s.id = r.id /\ s.type = r.type
  BY <1>0, CollectSurvives
<1>9. \A r \in account : r.type = "aurora_cluster" /\ ~Exempt(r) =>
        \E s \in c.rows : s.id = r.id /\ s.type = r.type
  BY <1>0, CollectSurvives
<1> HIDE DEF i, c, e
<1>10. Covered("rds_instance")'
  BY <1>4, <1>8, CoverGained
<1>11. Covered("aurora_cluster")'
  <2>1. \A r \in account : r.type = "aurora_cluster" /\ ~Exempt(r) =>
          \E s \in i.rows \cup e : s.id = r.id /\ s.type = r.type
    BY <1>5, <1>9
  <2> QED BY <1>4, <2>1, CoverGained
<1>12. ASSUME NEW t, t \notin {"rds_instance", "aurora_cluster"}, Covered(t)
       PROVE  Covered(t)'
  <2>1. \A n \in i.rows \cup e : n.type # t
    BY <1>6, <1>7, <1>12
  <2> QED BY <1>4, <1>12, <2>1, CoverKept
<1> QED BY <1>4, <1>10, <1>11, <1>12

\* The thirty extended collectors: all of their rows wait to be stored.
LEMMA FetchCovers ==
  ASSUME Inputs, Survivable, fetch_all_extended
  PROVE  /\ stage = "fetch_extended" /\ stage' = "store_extended"
         /\ UNCHANGED <<account, fault, snapshots, captured>>
         /\ \A t \in ExtendedTypes : IF \E b \in batches' : b.type = t THEN Waiting(t)' ELSE Covered(t)'
<1> DEFINE f == [t \in ExtendedTypes |-> Collect(t)]
<1>0. ExtendedTypes \subseteq ResourceTypes
  BY DEF ExtendedTypes, ResourceTypes
<1>1. \A t \in ExtendedTypes : f[t] = Collect(t) /\ f[t].ok
  BY <1>0, CollectSurvives
<1>2. /\ stage = "fetch_extended" /\ stage' = "store_extended"
      /\ UNCHANGED <<account, fault, snapshots, captured>>
      /\ batches' = UNION {f[t].rows : t \in ExtendedTypes}
  BY <1>1 DEF fetch_all_extended, input
<1> HIDE DEF f
<1>3. ASSUME NEW t \in ExtendedTypes, NEW r \in account, r.type = t, ~Exempt(r)
      PROVE  \E b \in batches' : b.id = r.id /\ b.type = r.type
  <2>1. PICK s \in Collect(t).rows : s.id = r.id /\ s.type = r.type
    BY <1>0, <1>3, CollectSurvives
  <2>2. s \in batches'
    BY <1>1, <1>2, <2>1
  <2> QED BY <2>1, <2>2
<1>4. \A t \in ExtendedTypes : Waiting(t)'
  <2>1. \A r : Exempt(r)' = Exempt(r)
    BY <1>2, ExemptSame
  <2> QED BY <1>2, <1>3, <2>1 DEF Waiting
<1>5. ASSUME NEW t \in ExtendedTypes, ~\E b \in batches' : b.type = t
      PROVE  Covered(t)'
  <2>1. \A r \in account : r.type = t => Exempt(r)
    BY <1>3, <1>5
  <2>2. \A r : Exempt(r)' = Exempt(r)
    BY <1>2, ExemptSame
  <2>3. \A r \in account' : r.type = t => Exempt(r)'
    BY <1>2, <2>1, <2>2
  <2> QED BY <2>3 DEF Covered
<1> QED BY <1>2, <1>4, <1>5

\* Storing one batch moves its type from waiting to covered.
LEMMA BatchCovers ==
  ASSUME ingest_extended_batch,
         \A t \in ExtendedTypes : IF \E b \in batches : b.type = t THEN Waiting(t) ELSE Covered(t),
         \A b \in batches : b.type \in ExtendedTypes
  PROVE  /\ UNCHANGED <<account, fault, stage>>
         /\ \A t \in ExtendedTypes : IF \E b \in batches' : b.type = t THEN Waiting(t)' ELSE Covered(t)'
         /\ \A t : t \notin ExtendedTypes /\ Covered(t) => Covered(t)'
<1>1. UNCHANGED <<account, fault, stage>>
  BY DEF ingest_extended_batch, input
<1>2. PICK u \in {b.type : b \in batches} :
        create_snapshots({b \in batches : b.type = u}) /\ batches' = batches \ {b \in batches : b.type = u}
  BY DEF ingest_extended_batch
<1> DEFINE batch == {b \in batches : b.type = u}
<1>3. u \in ExtendedTypes /\ \E b \in batches : b.type = u
  BY <1>2
<1>4. \A r : Exempt(r)' = Exempt(r)
  BY <1>1, ExemptSame
<1>5. \A n \in batch : n.type = u
  OBVIOUS
<1>6. Covered(u)'
  <2>1. \A r \in account : r.type = u /\ ~Exempt(r) => \E s \in batch : s.id = r.id /\ s.type = r.type
    BY <1>3 DEF Waiting
  <2> QED BY <1>1, <1>2, <2>1, CoverGained
<1>7. ASSUME NEW t, t # u, Covered(t)
      PROVE  Covered(t)'
  BY <1>1, <1>2, <1>5, <1>7, CoverKept
<1>8. ~\E b \in batches' : b.type = u
  BY <1>2
<1>9. ASSUME NEW t \in ExtendedTypes, t # u
      PROVE  IF \E b \in batches' : b.type = t THEN Waiting(t)' ELSE Covered(t)'
  <2>1. \A b \in batches : b.type = t => b \in batches'
    BY <1>2, <1>9
  <2>2. batches' \subseteq batches
    BY <1>2
  <2>3. CASE \E b \in batches' : b.type = t
    <3>1. Waiting(t)
      BY <1>9, <2>2, <2>3
    <3>2. Waiting(t)'
      BY <1>1, <1>4, <2>1, <3>1 DEF Waiting
    <3> QED BY <2>3, <3>2
  <2>4. CASE ~\E b \in batches' : b.type = t
    BY <1>7, <1>9, <2>1, <2>4
  <2> QED BY <2>3, <2>4
<1>10. \A t : t \notin ExtendedTypes /\ Covered(t) => Covered(t)'
  BY <1>3, <1>7
<1> QED BY <1>1, <1>6, <1>8, <1>9, <1>10

\* What waits to be stored was fetched by an extended collector.
BatchTypes == \A b \in batches : b.type \in ExtendedTypes

LEMMA BatchTypesNext == Inputs /\ BatchTypes /\ [AnalysisNext]_analysisVars => BatchTypes'
<1> SUFFICES ASSUME Inputs, BatchTypes, [AnalysisNext]_analysisVars PROVE BatchTypes'
  OBVIOUS
<1>1. CASE fetch_all_extended
  <2> DEFINE f == [t \in ExtendedTypes |-> Collect(t)]
  <2>1. batches' = batches \/ batches' = UNION {f[t].rows : t \in ExtendedTypes}
    BY <1>1 DEF fetch_all_extended
  <2>2. \A t \in ExtendedTypes : f[t] = Collect(t) /\ t \in ResourceTypes
    BY DEF ExtendedTypes, ResourceTypes
  <2> HIDE DEF f
  <2>3. \A t \in ExtendedTypes : \A b \in f[t].rows : b.type \in ExtendedTypes
    BY <2>2, CollectTypes
  <2>4. batches' = UNION {f[t].rows : t \in ExtendedTypes} => BatchTypes'
    BY <2>3 DEF BatchTypes
  <2> QED BY <2>1, <2>4 DEF BatchTypes
<1>2. CASE ingest_extended_batch
  <2>1. batches' \subseteq batches
    BY <1>2 DEF ingest_extended_batch
  <2> QED BY <2>1 DEF BatchTypes
<1>3. CASE Restart \/ NextSync
  BY <1>3 DEF Restart, NextSync, BatchTypes
<1>4. CASE \/ ingest_ec2 \/ ingest_ebs \/ ingest_rds \/ ingest_lambda \/ ingest_s3 \/ InventoryDone
           \/ clear_run \/ detect_ec2 \/ detect_nat_cost \/ detect_waf_cost \/ detect_ebs \/ detect_rds
           \/ detect_lambda \/ detect_s3 \/ detect_extended \/ detect_extended_raises \/ evaluate_rules
           \/ generate_recommendations \/ UNCHANGED analysisVars
  <2>1. batches' = batches
    BY <1>4 DEF ingest_ec2, ingest_ebs, ingest_rds, ingest_lambda, ingest_s3, IngestOne, Ingest,
          InventoryDone, clear_run, detect_ec2, detect_nat_cost, detect_waf_cost, detect_ebs, detect_rds,
          detect_lambda, detect_s3, detect_extended, detect_extended_raises, evaluate_rules, Emit,
          generate_recommendations, analysisVars
  <2> QED BY <2>1 DEF BatchTypes
<1> QED BY <1>1, <1>2, <1>3, <1>4 DEF AnalysisNext

\* The steps of the analyzer, and what it does not touch.
Analyses ==
  \/ clear_run \/ detect_ec2 \/ detect_nat_cost \/ detect_waf_cost \/ detect_ebs \/ detect_rds
  \/ detect_lambda \/ detect_s3 \/ detect_extended \/ detect_extended_raises \/ evaluate_rules
  \/ generate_recommendations

LEMMA AnalysesKeep ==
  ASSUME Analyses
  PROVE  /\ UNCHANGED <<account, fault, snapshots, captured, batches>>
         /\ stage \in AnalyzerStages
         /\ stage' \in AnalyzerStages \cup {"done", "failed"}
BY DEF Analyses, clear_run, detect_ec2, detect_nat_cost, detect_waf_cost, detect_ebs, detect_rds, detect_lambda,
       detect_s3, detect_extended, detect_extended_raises, evaluate_rules, Emit, generate_recommendations,
       input, AnalyzerStages

LEMMA StagesApart ==
  /\ (AnalyzerStages \cup {"done", "failed"}) \cap InventoryStages = {}
BY DEF AnalyzerStages, InventoryStages

\* A step that leaves the snapshots alone and is not an inventory stage afterwards.
LEMMA CoverOutside ==
  ASSUME CoverInv, UNCHANGED <<account, fault, snapshots, captured>>, stage \notin InventoryStages,
         stage' \notin InventoryStages
  PROVE  CoverInv'
<1> SUFFICES ASSUME Survivable' PROVE CoverInv'
  BY DEF CoverInv
<1>1. Survivable
  BY SurvivableSame
<1>2. /\ Covered("ec2_instance") /\ Covered("ebs_volume") /\ Covered("rds_instance")
      /\ Covered("aurora_cluster") /\ Covered("lambda_function") /\ Covered("s3_bucket")
      /\ \A t \in ExtendedTypes : Covered(t)
  BY <1>1 DEF CoverInv, InventoryStages
<1>3. \A t : Covered(t)' = Covered(t)
  BY CoverSame
<1>4. stage' # "store_extended"
  BY DEF InventoryStages
<1> QED BY <1>2, <1>3, <1>4 DEF CoverInv

LEMMA CoverNext == Inputs /\ BatchTypes /\ CoverInv /\ [AnalysisNext]_analysisVars => CoverInv'
<1> SUFFICES ASSUME Inputs, BatchTypes, CoverInv, [AnalysisNext]_analysisVars, Survivable'
             PROVE  CoverInv'
  BY DEF CoverInv
<1>0. CASE NextSync
  <2>1. stage' = "ec2"
    BY <1>0 DEF NextSync
  <2> QED BY <2>1 DEF CoverInv, InventoryStages
<1>1. CASE Restart
  <2>1. CASE stage \in InventoryStages
    <3>1. stage' = "ec2"
      BY <1>1, <2>1 DEF Restart
    <3> QED BY <3>1 DEF CoverInv, InventoryStages
  <2>2. CASE stage \notin InventoryStages
    <3>1. UNCHANGED <<account, fault, snapshots, captured>> /\ stage' = "clear"
      BY <1>1, <2>2 DEF Restart, input
    <3>2. stage' \notin InventoryStages
      BY <3>1 DEF InventoryStages
    <3> QED BY <2>2, <3>1, <3>2, CoverOutside
  <2> QED BY <2>1, <2>2
<1>2. CASE Analyses
  BY <1>2, AnalysesKeep, StagesApart, CoverOutside
<1>3. CASE UNCHANGED analysisVars
  <2>1. UNCHANGED <<account, fault, snapshots, captured, batches, stage>>
    BY <1>3 DEF analysisVars, input
  <2>2. \A t : Covered(t)' = Covered(t)
    BY <2>1, CoverSame
  <2>3. \A t : Waiting(t)' = Waiting(t)
    BY <2>1, ExemptSame DEF Waiting
  <2>4. Survivable
    BY <2>1, SurvivableSame
  <2> QED BY <2>1, <2>2, <2>3, <2>4 DEF CoverInv
<1>4. ASSUME fault' = fault PROVE Survivable
  BY <1>4, SurvivableSame
<1>5. {"ec2_instance", "ebs_volume", "rds_instance", "aurora_cluster", "lambda_function", "s3_bucket"}
        \cap ExtendedTypes = {}
  BY DEF ExtendedTypes, EXTENDED_TAGGABLE_RESOURCE_TYPES
<1>6. {"ec2_instance", "ebs_volume", "rds_instance", "aurora_cluster", "lambda_function", "s3_bucket"}
        \subseteq ResourceTypes
  BY DEF ResourceTypes
<1>7. CASE ingest_ec2
  <2>1. IngestOne("ec2", "ebs", "ec2_instance") /\ fault' = fault
    BY <1>7 DEF ingest_ec2, IngestOne, Ingest
  <2>2. stage' = "ebs" /\ Covered("ec2_instance")'
    BY <1>4, <1>6, <2>1, IngestOneCovers
  <2> QED BY <2>2 DEF CoverInv, InventoryStages
<1>8. CASE ingest_ebs
  <2>1. IngestOne("ebs", "rds", "ebs_volume") /\ fault' = fault
    BY <1>8 DEF ingest_ebs, IngestOne, Ingest
  <2>2. /\ stage = "ebs" /\ stage' = "rds" /\ Covered("ebs_volume")'
        /\ Covered("ec2_instance") => Covered("ec2_instance")'
    BY <1>4, <1>6, <2>1, IngestOneCovers
  <2>3. Covered("ec2_instance")
    BY <1>4, <2>1, <2>2 DEF CoverInv
  <2> QED BY <2>2, <2>3 DEF CoverInv, InventoryStages
<1>9. CASE ingest_rds
  <2>1. fault' = fault
    BY <1>9 DEF ingest_rds, Ingest
  <2>2. /\ stage = "rds" /\ stage' = "lambda" /\ Covered("rds_instance")' /\ Covered("aurora_cluster")'
        /\ Covered("ec2_instance") => Covered("ec2_instance")'
        /\ Covered("ebs_volume") => Covered("ebs_volume")'
    BY <1>4, <1>9, <2>1, IngestRdsCovers
  <2>3. Covered("ec2_instance") /\ Covered("ebs_volume")
    BY <1>4, <2>1, <2>2 DEF CoverInv
  <2> QED BY <2>2, <2>3 DEF CoverInv, InventoryStages
<1>10. CASE ingest_lambda
  <2>1. IngestOne("lambda", "s3", "lambda_function") /\ fault' = fault
    BY <1>10 DEF ingest_lambda, IngestOne, Ingest
  <2>2. /\ stage = "lambda" /\ stage' = "s3" /\ Covered("lambda_function")'
        /\ Covered("ec2_instance") => Covered("ec2_instance")'
        /\ Covered("ebs_volume") => Covered("ebs_volume")'
        /\ Covered("rds_instance") => Covered("rds_instance")'
        /\ Covered("aurora_cluster") => Covered("aurora_cluster")'
    BY <1>4, <1>6, <2>1, IngestOneCovers
  <2>3. /\ Covered("ec2_instance") /\ Covered("ebs_volume") /\ Covered("rds_instance")
        /\ Covered("aurora_cluster")
    BY <1>4, <2>1, <2>2 DEF CoverInv
  <2> QED BY <2>2, <2>3 DEF CoverInv, InventoryStages
<1>11. CASE ingest_s3
  <2>1. IngestOne("s3", "fetch_extended", "s3_bucket") /\ fault' = fault
    BY <1>11 DEF ingest_s3, IngestOne, Ingest
  <2>2. /\ stage = "s3" /\ stage' = "fetch_extended" /\ Covered("s3_bucket")'
        /\ Covered("ec2_instance") => Covered("ec2_instance")'
        /\ Covered("ebs_volume") => Covered("ebs_volume")'
        /\ Covered("rds_instance") => Covered("rds_instance")'
        /\ Covered("aurora_cluster") => Covered("aurora_cluster")'
        /\ Covered("lambda_function") => Covered("lambda_function")'
    BY <1>4, <1>6, <2>1, IngestOneCovers
  <2>3. /\ Covered("ec2_instance") /\ Covered("ebs_volume") /\ Covered("rds_instance")
        /\ Covered("aurora_cluster") /\ Covered("lambda_function")
    BY <1>4, <2>1, <2>2 DEF CoverInv
  <2> QED BY <2>2, <2>3 DEF CoverInv, InventoryStages
<1>12. CASE fetch_all_extended
  <2>1. fault' = fault
    BY <1>12 DEF fetch_all_extended
  <2>2. /\ stage = "fetch_extended" /\ stage' = "store_extended"
        /\ UNCHANGED <<account, fault, snapshots, captured>>
        /\ \A t \in ExtendedTypes : IF \E b \in batches' : b.type = t THEN Waiting(t)' ELSE Covered(t)'
    BY <1>4, <1>12, <2>1, FetchCovers
  <2>3. \A t : Covered(t)' = Covered(t)
    BY <2>2, CoverSame
  <2>4. /\ Covered("ec2_instance") /\ Covered("ebs_volume") /\ Covered("rds_instance")
        /\ Covered("aurora_cluster") /\ Covered("lambda_function") /\ Covered("s3_bucket")
    BY <1>4, <2>1, <2>2 DEF CoverInv
  <2> QED BY <2>2, <2>3, <2>4 DEF CoverInv, InventoryStages
<1>13. CASE ingest_extended_batch
  <2>1. fault' = fault /\ stage = "store_extended"
    BY <1>13 DEF ingest_extended_batch
  <2>2. /\ Covered("ec2_instance") /\ Covered("ebs_volume") /\ Covered("rds_instance")
        /\ Covered("aurora_cluster") /\ Covered("lambda_function") /\ Covered("s3_bucket")
        /\ \A t \in ExtendedTypes : IF \E b \in batches : b.type = t THEN Waiting(t) ELSE Covered(t)
    BY <1>4, <2>1 DEF CoverInv
  <2>3. /\ stage' = stage
        /\ \A t \in ExtendedTypes : IF \E b \in batches' : b.type = t THEN Waiting(t)' ELSE Covered(t)'
        /\ \A t : t \notin ExtendedTypes /\ Covered(t) => Covered(t)'
    BY <1>13, <2>2, BatchCovers DEF BatchTypes
  <2>4. /\ Covered("ec2_instance")' /\ Covered("ebs_volume")' /\ Covered("rds_instance")'
        /\ Covered("aurora_cluster")' /\ Covered("lambda_function")' /\ Covered("s3_bucket")'
    BY <1>5, <2>2, <2>3
  <2> QED BY <2>1, <2>3, <2>4 DEF CoverInv, InventoryStages
<1>14. CASE InventoryDone
  <2>1. /\ UNCHANGED <<account, fault, snapshots, captured>> /\ stage = "store_extended"
        /\ stage' = "clear" /\ batches = {}
    BY <1>14 DEF InventoryDone, input
  <2>2. /\ Covered("ec2_instance") /\ Covered("ebs_volume") /\ Covered("rds_instance")
        /\ Covered("aurora_cluster") /\ Covered("lambda_function") /\ Covered("s3_bucket")
        /\ \A t \in ExtendedTypes : Covered(t)
    BY <1>4, <2>1 DEF CoverInv
  <2>3. \A t : Covered(t)' = Covered(t)
    BY <2>1, CoverSame
  <2> QED BY <2>1, <2>2, <2>3 DEF CoverInv, InventoryStages
<1> QED
  BY <1>0, <1>1, <1>2, <1>3, <1>7, <1>8, <1>9, <1>10, <1>11, <1>12, <1>13, <1>14 DEF AnalysisNext, Analyses

\* An AWS error that the collectors mean to survive costs at most the rows of its own
\* type and region, for any account, any regions, any number of restarts and whatever
\* earlier syncs have stored: a
\* collector skips the region that raised (_gather_per_region), and storing the rows
\* of one type touches no other (create_snapshots).
THEOREM FaultContainedHolds == AnalysisSpec => []FaultContained
<1> DEFINE IInv == Inputs /\ Futures /\ BatchTypes /\ CoverInv
<1>1. AnalysisInit => IInv
  <2>1. AnalysisInit => BatchTypes /\ CoverInv
    BY DEF AnalysisInit, BatchTypes, CoverInv, InventoryStages
  <2> QED BY <2>1, InputsInit
<1>2. IInv /\ [AnalysisNext]_analysisVars => IInv'
  BY InputsNext, BatchTypesNext, CoverNext
<1>3. IInv => FaultContained
  <2> SUFFICES ASSUME IInv, stage \in AnalyzerStages, Survivable, NEW r \in account
               PROVE  \/ fault # NULL /\ r.type = fault.type /\ r.region = fault.region
                      \/ ~(r.region \in {HomeRegion, "global"} \/ ScanAllRegions)
                      \/ ~BeforeCap(r, {q \in account : q.type = r.type /\ q.region = r.region})
                      \/ r.type \in captured /\ \E s \in snapshots : s.id = r.id /\ s.type = r.type
    BY DEF FaultContained, Survivable
  <2>1. stage \notin InventoryStages
    BY StagesApart
  <2>2. Covered(r.type)
    <3>1. r.type \in ResourceTypes
      BY DEF Inputs, WellFormed
    <3>2. /\ Covered("ec2_instance") /\ Covered("ebs_volume") /\ Covered("rds_instance")
          /\ Covered("aurora_cluster") /\ Covered("lambda_function") /\ Covered("s3_bucket")
          /\ \A t \in ExtendedTypes : Covered(t)
      BY <2>1 DEF CoverInv, InventoryStages
    <3> QED BY <3>1, <3>2 DEF ResourceTypes, ExtendedTypes
  <2>3. Resources(r.type, r.region) = {q \in account : q.type = r.type /\ q.region = r.region}
    BY DEF Resources
  <2> QED BY <2>2, <2>3 DEF Covered, Exempt, Hits
<1> HIDE DEF IInv
<1> QED BY <1>1, <1>2, <1>3, PTL DEF AnalysisSpec------------------------------------------------------------------------------
(* A public database is reported *)

\* The clusters that the regions and the listings which succeed show.
Reachable(r) ==
  /\ \/ r.region = HomeRegion
     \/ ScanAllRegions /\ ~(Hits("aurora_cluster", HomeRegion) /\ fault.call = "regions")
  /\ ~(Hits("aurora_cluster", r.region) /\ fault.call = "list")

LEMMA AuroraIs == "aurora_cluster" \in ResourceTypes \ GlobalTypes
BY DEF ResourceTypes, GlobalTypes

\* The regions asked for clusters, and the listings that give some.
LEMMA AuroraCalls ==
  ASSUME Inputs, NEW reg \in AllRegions
  PROVE  /\ reg \in Regions("aurora_cluster") <=>
              \/ reg = HomeRegion
              \/ /\ ScanAllRegions /\ reg \in AwsRegions
                 /\ ~(Hits("aurora_cluster", HomeRegion) /\ fault.call = "regions")
         /\ Outcomes("aurora_cluster")[reg]["list"] = "ok" <=>
              ~(Hits("aurora_cluster", reg) /\ fault.call = "list")
<1>1. HomeRegion \in AllRegions /\ HomeRegion \in AwsRegions
  BY InventoryAssumption DEF AllRegions
<1>2. Hits("aurora_cluster", reg) => fault.kind # "ok"
  BY DEF Hits, Inputs, WellFormed
<1>3. Hits("aurora_cluster", HomeRegion) => fault.kind # "ok"
  BY DEF Hits, Inputs, WellFormed
<1>4. Outcomes("aurora_cluster")[HomeRegion]["regions"] = "ok" <=>
        ~(Hits("aurora_cluster", HomeRegion) /\ fault.call = "regions")
  BY <1>1, <1>3, CallOutcome, CallNames
<1>5. Outcomes("aurora_cluster")[reg]["list"] = "ok" <=>
        ~(Hits("aurora_cluster", reg) /\ fault.call = "list")
  BY <1>2, CallOutcome, CallNames
<1> QED BY <1>1, <1>4, <1>5, InventoryAssumption DEF Regions, inventory_regions

\* A cluster that is shown is collected, and the rest is not.
LEMMA ShownCollected ==
  ASSUME Inputs, NEW r \in account, r.type = "aurora_cluster", Reachable(r)
  PROVE  Collect("aurora_cluster").rows # {}
<1> DEFINE type == "aurora_cluster"
           reg == r.region
           o == Outcomes(type)[reg]
           rs == Resources(type, reg)
<1>1. reg \in AwsRegions /\ reg \in AllRegions
  BY AuroraIs DEF Inputs, WellFormed, AllRegions
<1>2. reg \in Regions(type) /\ o["list"] = "ok"
  BY <1>1, AuroraCalls DEF Reachable
<1> HIDE DEF o
<1>3. Scan(type, reg) = {Item(q, o) : q \in {p \in rs : BeforeCap(p, rs)}}
  BY <1>2 DEF Scan, RegionResults, o
<1>4. \A q \in rs : q.type = type /\ About(Item(q, o), q)
  BY ItemAlways DEF Resources
<1>5. Raised(Scan(type, reg)) = {}
  BY <1>3, <1>4 DEF Raised, About
<1>6. r \in rs /\ BeforeCap(r, rs)
  BY DEF Resources, BeforeCap
<1>7. Item(r, o) \in Scan(type, reg) /\ Item(r, o).out = "row"
  BY <1>3, <1>4, <1>6 DEF About
<1>8. Item(r, o).row \in Rows(Scan(type, reg))
  BY <1>7 DEF Rows
<1>9. Collect(type).rows = UNION {Rows(Scan(type, g)) :
                                    g \in {q \in Regions(type) : Raised(Scan(type, q)) = {}}}
  BY AuroraIs, CollectIs
<1>10. Item(r, o).row \in Collect(type).rows
  BY <1>2, <1>5, <1>8, <1>9
<1> QED BY <1>10

LEMMA CollectedShown ==
  ASSUME Inputs, Collect("aurora_cluster").rows # {}
  PROVE  \E r \in account : r.type = "aurora_cluster" /\ Reachable(r)
<1> DEFINE type == "aurora_cluster"
<1>1. PICK s : s \in Collect(type).rows
  OBVIOUS
<1>2. Collect(type).rows = UNION {Rows(Scan(type, g)) :
                                    g \in {q \in Regions(type) : Raised(Scan(type, q)) = {}}}
  BY AuroraIs, CollectIs
<1>3. PICK reg \in Regions(type) : s \in Rows(Scan(type, reg))
  BY <1>1, <1>2
<1>4. reg \in AllRegions
  BY <1>3, CollectIs
<1>5. PICK res \in Scan(type, reg) : res.out = "row"
  BY <1>3 DEF Rows
<1>6. Outcomes(type)[reg]["list"] \in {"ok", "denied", "client", "network"}
  BY <1>4, FailureKinds, CallNames
<1>7. Outcomes(type)[reg]["list"] = "ok"
  <2> SUFFICES ASSUME Outcomes(type)[reg]["list"] # "ok" PROVE FALSE
    OBVIOUS
  <2>1. res = ListFailure(type, Outcomes(type)[reg]["list"])
    BY <1>5 DEF Scan, RegionResults
  <2>2. res.out \in {"drop", "attribute", Outcomes(type)[reg]["list"]}
    BY <2>1, ListFailureKinds
  <2> QED BY <1>5, <1>6, <2>2
<1>8. \E r \in Resources(type, reg) : TRUE
  BY <1>3, <1>4, AuroraIs, RegionRows DEF Scan
<1>9. PICK r \in Resources(type, reg) : TRUE
  BY <1>8
<1>10. r \in account /\ r.type = type /\ r.region = reg
  BY DEF Resources
<1>11. Reachable(r)
  BY <1>3, <1>4, <1>7, <1>10, AuroraCalls DEF Reachable
<1> QED BY <1>10, <1>11

\* What the rows of the two collectors say of being public.
InstanceRow(s) ==
  /\ {"publicly_accessible", "db_cluster_identifier"} \subseteq DOMAIN s.cfg
  /\ s.cfg.publicly_accessible \in BOOLEAN

LEMMA InstanceRows ==
  ASSUME Inputs, NEW s \in Collect("rds_instance").rows
  PROVE  InstanceRow(s)
<1>0. "rds_instance" \in ResourceTypes
  BY DEF ResourceTypes
<1>1. PICK reg \in AllRegions : \E r \in Resources("rds_instance", reg) :
         s = Item(r, Outcomes("rds_instance")[reg]).row
  BY <1>0, CollectRows
<1>2. PICK r \in Resources("rds_instance", reg) : s = Item(r, Outcomes("rds_instance")[reg]).row
  BY <1>1
<1>3. r \in account /\ r.type = "rds_instance" /\ r.x.publicly_accessible \in BOOLEAN
  BY DEF Resources, Inputs, WellFormed
<1> DEFINE o == Outcomes("rds_instance")[reg]
<1> HIDE DEF o
<1>4. Item(r, o) = normalize_rds_instance(r, o)
  BY <1>3 DEF Item
<1> QED BY <1>2, <1>3, <1>4 DEF normalize_rds_instance, SnapshotRow, InstanceRow, o

LEMMA AuroraRows ==
  ASSUME Inputs, NEW s \in Collect("aurora_cluster").rows
  PROVE  "publicly_accessible" \notin DOMAIN s.cfg
<1>1. PICK reg \in AllRegions : \E r \in Resources("aurora_cluster", reg) :
         s = Item(r, Outcomes("aurora_cluster")[reg]).row
  BY AuroraIs, CollectRows
<1>2. PICK r \in Resources("aurora_cluster", reg) : s = Item(r, Outcomes("aurora_cluster")[reg]).row
  BY <1>1
<1>3. r.type = "aurora_cluster"
  BY DEF Resources
<1> DEFINE o == Outcomes("aurora_cluster")[reg]
<1> HIDE DEF o
<1>4. Item(r, o) = normalize_aurora_cluster(r, o)
  BY <1>3 DEF Item
<1> QED BY <1>2, <1>4 DEF normalize_aurora_cluster, SnapshotRow, o

\* A cluster that got the flag has it from its members.
LEMMA EnrichFlag ==
  ASSUME NEW I, NEW C,
         \A c \in C : \E id, type, region, cfg, tags :
           c = [id |-> id, type |-> type, region |-> region, cfg |-> cfg, tags |-> tags],
         \A c \in C : "publicly_accessible" \notin DOMAIN c.cfg,
         NEW e \in enrich_aurora_clusters(I, C), "publicly_accessible" \in DOMAIN e.cfg
  PROVE  /\ e.cfg.publicly_accessible \in BOOLEAN
         /\ \A i \in I : i.cfg.db_cluster_identifier = e.id /\ i.cfg.publicly_accessible =>
              e.cfg.publicly_accessible = TRUE
<1> DEFINE members(c) == {j \in I : j.cfg.db_cluster_identifier = c.id}
           public(c) == \E j \in members(c) : j.cfg.publicly_accessible
           flagged(c) == [k \in DOMAIN c.cfg \cup {"publicly_accessible"} |->
                            IF k = "publicly_accessible" THEN public(c) ELSE c.cfg[k]]
           enriched(c) == IF members(c) = {} THEN c ELSE [c EXCEPT !.cfg = flagged(c)]
<1>1. enrich_aurora_clusters(I, C) = {enriched(c) : c \in C}
  BY DEF enrich_aurora_clusters
<1>2. \A c \in C : /\ enriched(c).id = c.id
                   /\ members(c) # {} => enriched(c).cfg = flagged(c)
                   /\ members(c) = {} => enriched(c) = c
  <2> HIDE DEF members, flagged
  <2> QED OBVIOUS
<1> HIDE DEF enriched
<1>3. PICK c \in C : e = enriched(c)
  BY <1>1
<1>4. members(c) # {}
  <2> HIDE DEF members, flagged
  <2> QED BY <1>2, <1>3
<1>5. e.cfg = flagged(c)
  BY <1>2, <1>3, <1>4
<1>6. public(c) \in BOOLEAN
  OBVIOUS
<1>7. \A i \in I : i.cfg.db_cluster_identifier = e.id /\ i.cfg.publicly_accessible => public(c)
  BY <1>2, <1>3
<1> HIDE DEF public, members
<1>8. flagged(c)["publicly_accessible"] = public(c)
  OBVIOUS
<1>9. e.cfg.publicly_accessible = public(c)
  BY <1>5, <1>8
<1> HIDE DEF flagged
<1> QED BY <1>6, <1>7, <1>9

Databases == {"rds_instance", "aurora_cluster"}

\* In this sync the flag of a cluster's snapshot is true when one of its instances is
\* public.  Storing an empty batch leaves the earlier one in place, so even within a
\* sync instances and clusters could stem from different attempts; the last part says
\* that clusters this sync has collected are collected again, because an error can
\* only go away.
PublicInv ==
  /\ \A s \in snapshots : s.type = "rds_instance" => InstanceRow(s)
  /\ \A c \in snapshots : c.type = "aurora_cluster" /\ "publicly_accessible" \in DOMAIN c.cfg =>
       /\ c.cfg.publicly_accessible \in BOOLEAN
       /\ Databases \subseteq captured =>
            \A i \in snapshots : /\ i.type = "rds_instance" /\ i.cfg.db_cluster_identifier = c.id
                                 /\ i.cfg.publicly_accessible
                                 => c.cfg.publicly_accessible = TRUE
  /\ "aurora_cluster" \in captured => \E r \in account : r.type = "aurora_cluster" /\ Reachable(r)

\* The steps that store no database leave it true.
LEMMA PublicKept ==
  ASSUME PublicInv, account' = account, fault' \in {fault, NULL},
         \A s : s.type \in Databases => (s \in snapshots' <=> s \in snapshots),
         captured' \cap Databases = captured \cap Databases
  PROVE  PublicInv'
<1>1. \A s \in snapshots' : s.type = "rds_instance" => InstanceRow(s)
  BY DEF PublicInv, Databases
<1>2. \A c \in snapshots' : c.type = "aurora_cluster" /\ "publicly_accessible" \in DOMAIN c.cfg =>
        /\ c.cfg.publicly_accessible \in BOOLEAN
        /\ Databases \subseteq captured' =>
             \A i \in snapshots' : /\ i.type = "rds_instance" /\ i.cfg.db_cluster_identifier = c.id
                                   /\ i.cfg.publicly_accessible
                                   => c.cfg.publicly_accessible = TRUE
  <2>1. Databases \subseteq captured' => Databases \subseteq captured
    OBVIOUS
  <2> QED BY <2>1 DEF PublicInv, Databases
<1>3. \A r : Reachable(r) => Reachable(r)'
  BY DEF Reachable, Hits
<1>4. "aurora_cluster" \in captured' => \E r \in account' : r.type = "aurora_cluster" /\ Reachable(r)'
  BY <1>3 DEF PublicInv, Databases
<1> QED BY <1>1, <1>2, <1>4 DEF PublicInv, InstanceRow

LEMMA StoreOther ==
  ASSUME NEW new, create_snapshots(new),
         \A n \in new : n.type \notin Databases
  PROVE  /\ \A s : s.type \in Databases => (s \in snapshots' <=> s \in snapshots)
         /\ captured' \cap Databases = captured \cap Databases
BY DEF create_snapshots

LEMMA PublicIngest ==
  ASSUME Inputs, PublicInv, ingest_rds
  PROVE  PublicInv'
<1> DEFINE i == Collect("rds_instance")
           c == Collect("aurora_cluster")
           e == enrich_aurora_clusters(i.rows, c.rows)
<1>0. "rds_instance" \in ResourceTypes /\ "aurora_cluster" \in ResourceTypes
  BY DEF ResourceTypes
<1>1. Ingest("rds", "lambda", {i, c}, i.rows \cup e)
  BY DEF ingest_rds
<1>2. \A s \in i.rows : s.type = "rds_instance" /\ InstanceRow(s)
  BY <1>0, CollectTypes, InstanceRows
<1>3. /\ \A q \in c.rows : \E s \in e : s.id = q.id /\ s.type = q.type
      /\ \A s \in e : \E q \in c.rows : s.id = q.id /\ s.type = q.type
  BY <1>0, RowForm, EnrichKeeps
<1>4. \A s \in e : s.type = "aurora_cluster"
  BY <1>0, <1>3, CollectTypes
<1>5. \A s \in e, j \in i.rows :
        /\ "publicly_accessible" \in DOMAIN s.cfg
        /\ j.cfg.db_cluster_identifier = s.id /\ j.cfg.publicly_accessible
        => s.cfg.publicly_accessible = TRUE
  <2>1. \A q \in c.rows : "publicly_accessible" \notin DOMAIN q.cfg
    BY AuroraRows
  <2>2. \A q \in c.rows : \E id, ty, region, cfg, tags :
          q = [id |-> id, type |-> ty, region |-> region, cfg |-> cfg, tags |-> tags]
    BY <1>0, RowForm
  <2> HIDE DEF i, c
  <2> QED BY <2>1, <2>2, EnrichFlag
<1>6. i.rows = {} => \A s \in e : "publicly_accessible" \notin DOMAIN s.cfg
  <2>1. i.rows = {} => e = c.rows
    BY DEF enrich_aurora_clusters
  <2> QED BY <2>1, AuroraRows
<1>7. c.rows = {} => "aurora_cluster" \notin captured
  BY ShownCollected DEF PublicInv
<1>8. c.rows # {} => e # {} /\ \E r \in account : r.type = "aurora_cluster" /\ Reachable(r)
  BY <1>3, CollectedShown
<1>9. e # {} => c.rows # {}
  BY <1>3
<1>10. \A s \in e : "publicly_accessible" \in DOMAIN s.cfg => s.cfg.publicly_accessible \in BOOLEAN
  <2>1. \A q \in c.rows : "publicly_accessible" \notin DOMAIN q.cfg
    BY AuroraRows
  <2>2. \A q \in c.rows : \E id, ty, region, cfg, tags :
          q = [id |-> id, type |-> ty, region |-> region, cfg |-> cfg, tags |-> tags]
    BY <1>0, RowForm
  <2> HIDE DEF i, c
  <2> QED BY <2>1, <2>2, EnrichFlag
<1> HIDE DEF i, c, e
<1>11. /\ UNCHANGED <<account, fault>>
       /\ create_snapshots(i.rows \cup e) \/ UNCHANGED <<snapshots, captured>>
  BY <1>1 DEF Ingest, InventoryFails, input
<1>12. CASE UNCHANGED <<snapshots, captured>>
  BY <1>11, <1>12, PublicKept
<1>13. CASE create_snapshots(i.rows \cup e)
  <2>1. "aurora_cluster" \in captured' => e # {}
    <3> SUFFICES ASSUME "aurora_cluster" \in captured', e = {} PROVE FALSE
      OBVIOUS
    <3>1. "aurora_cluster" \in captured
      BY <1>2, <1>13 DEF create_snapshots
    <3> QED BY <1>7, <1>8, <3>1
  <2>2. \A s \in snapshots' : s.type = "rds_instance" =>
          \/ s \in i.rows
          \/ i.rows = {} /\ s \in snapshots
    BY <1>2, <1>4, <1>13 DEF create_snapshots
  <2>3. \A s \in snapshots' : s.type = "aurora_cluster" =>
          \/ s \in e
          \/ e = {} /\ s \in snapshots
    BY <1>2, <1>4, <1>13 DEF create_snapshots
  <2>4. \A s \in snapshots' : s.type = "rds_instance" => InstanceRow(s)
    BY <1>2, <2>2 DEF PublicInv
  <2>5. \A s \in snapshots' : s.type = "aurora_cluster" /\ "publicly_accessible" \in DOMAIN s.cfg =>
          /\ s.cfg.publicly_accessible \in BOOLEAN
          /\ Databases \subseteq captured' =>
               \A j \in snapshots' : /\ j.type = "rds_instance" /\ j.cfg.db_cluster_identifier = s.id
                                     /\ j.cfg.publicly_accessible
                                     => s.cfg.publicly_accessible = TRUE
    <3> SUFFICES ASSUME NEW s \in snapshots', s.type = "aurora_cluster",
                        "publicly_accessible" \in DOMAIN s.cfg
                 PROVE  /\ s.cfg.publicly_accessible \in BOOLEAN
                        /\ Databases \subseteq captured' =>
                             \A j \in snapshots' : /\ j.type = "rds_instance"
                                                   /\ j.cfg.db_cluster_identifier = s.id
                                                   /\ j.cfg.publicly_accessible
                                                   => s.cfg.publicly_accessible = TRUE
      OBVIOUS
    <3>1. s.cfg.publicly_accessible \in BOOLEAN
      BY <1>10, <2>3 DEF PublicInv
    <3>2. ASSUME Databases \subseteq captured', NEW j \in snapshots', j.type = "rds_instance",
                 j.cfg.db_cluster_identifier = s.id, j.cfg.publicly_accessible
          PROVE  s.cfg.publicly_accessible = TRUE
      <4>1. s \in e
        BY <2>1, <2>3, <3>2 DEF Databases
      <4>2. i.rows # {}
        BY <1>6, <4>1
      <4>3. j \in i.rows
        BY <2>2, <3>2, <4>2
      <4> QED BY <1>5, <3>2, <4>1, <4>3
    <3> QED BY <3>1, <3>2
  <2>6. "aurora_cluster" \in captured' => \E r \in account' : r.type = "aurora_cluster" /\ Reachable(r)'
    <3>1. \A r : Reachable(r)' = Reachable(r)
      BY <1>11 DEF Reachable, Hits
    <3> QED BY <1>8, <1>9, <1>11, <2>1, <3>1
  <2> QED BY <2>4, <2>5, <2>6 DEF PublicInv, InstanceRow
<1> QED BY <1>11, <1>12, <1>13

LEMMA PublicNext == Inputs /\ BatchTypes /\ PublicInv /\ [AnalysisNext]_analysisVars => PublicInv'
<1> SUFFICES ASSUME Inputs, BatchTypes, PublicInv, [AnalysisNext]_analysisVars PROVE PublicInv'
  OBVIOUS
<1>1. CASE ingest_rds
  BY <1>1, PublicIngest
<1>2. ASSUME NEW at, NEW next, NEW type \in ResourceTypes \ Databases,
             IngestOne(at, next, type)
      PROVE  PublicInv'
  <2>1. /\ UNCHANGED <<account, fault>>
        /\ create_snapshots(Collect(type).rows) \/ UNCHANGED <<snapshots, captured>>
    BY <1>2 DEF IngestOne, Ingest, InventoryFails, input
  <2>2. \A n \in Collect(type).rows : n.type \notin Databases
    BY CollectTypes
  <2> QED BY <2>1, <2>2, StoreOther, PublicKept
<1>3. CASE ingest_ec2 \/ ingest_ebs \/ ingest_lambda \/ ingest_s3
  <2>1. {"ec2_instance", "ebs_volume", "lambda_function", "s3_bucket"}
          \subseteq ResourceTypes \ Databases
    BY DEF ResourceTypes, Databases
  <2> QED BY <1>2, <1>3, <2>1 DEF ingest_ec2, ingest_ebs, ingest_lambda, ingest_s3
<1>4. CASE ingest_extended_batch
  <2>1. UNCHANGED <<account, fault>>
    BY <1>4 DEF ingest_extended_batch, input
  <2>2. PICK u \in {b.type : b \in batches} : create_snapshots({b \in batches : b.type = u})
    BY <1>4 DEF ingest_extended_batch
  <2>3. \A n \in {b \in batches : b.type = u} : n.type \notin Databases
    BY DEF BatchTypes, ExtendedTypes, EXTENDED_TAGGABLE_RESOURCE_TYPES, Databases
  <2> QED BY <2>1, <2>2, <2>3, StoreOther, PublicKept
<1>5. CASE fetch_all_extended \/ InventoryDone \/ Restart \/ UNCHANGED analysisVars
  <2>1. account' = account /\ fault' \in {fault, NULL} /\ UNCHANGED <<snapshots, captured>>
    BY <1>5 DEF fetch_all_extended, InventoryDone, Restart, analysisVars, input
  <2> QED BY <2>1, PublicKept
<1>6. CASE Analyses
  BY <1>6, AnalysesKeep, PublicKept
<1>7. CASE NextSync
  <2>1. snapshots' = snapshots /\ captured' = {}
    BY <1>7 DEF NextSync
  <2> QED BY <2>1 DEF PublicInv, Databases, InstanceRow
<1> QED
  BY <1>1, <1>3, <1>4, <1>5, <1>6, <1>7 DEF AnalysisNext, Analyses

\* Keeping one Aurora review per cluster drops no other finding.
LEMMA DedupeKeeps ==
  ASSUME NEW fs, NEW f \in fs, f.ftype # "aurora_serverless_review_candidate"
  PROVE  f \in dedupe_aurora_serverless_review_findings(fs)
BY DEF dedupe_aurora_serverless_review_findings

LEMMA PublicFound ==
  ASSUME NEW s \in OfType(snapshots, "rds_instance") \cup OfType(snapshots, "aurora_cluster"),
         rds_public(s, OfType(snapshots, "aurora_cluster"))
  PROVE  Find(s, "rds_publicly_accessible", "high") \in detect_rds_findings(snapshots)
<1> DEFINE I == OfType(snapshots, "rds_instance")
           C == OfType(snapshots, "aurora_cluster")
           f == Find(s, "rds_publicly_accessible", "high")
<1>1. f \in rds_configuration_findings(I, C)
  BY DEF rds_configuration_findings, Each
<1>2. f.ftype # "aurora_serverless_review_candidate"
  BY DEF Find
<1>3. f \in rds_configuration_findings(I, C) \cup rds_utilization_findings(I) \cup aurora_review_findings(I, C)
  BY <1>1
<1> HIDE DEF f, I, C
<1>4. f \in dedupe_aurora_serverless_review_findings(
               rds_configuration_findings(I, C) \cup rds_utilization_findings(I) \cup aurora_review_findings(I, C))
  BY <1>2, <1>3, DedupeKeeps
<1> QED BY <1>4 DEF detect_rds_findings, f, I, C

\* A public database instance that this sync collected is reported by its finished
\* analysis, on itself or on its cluster, for any accounts, errors, restarts and
\* earlier syncs, unless this sync captured no cluster and the row an earlier one left
\* says that the cluster was not public then (_rds_publicly_accessible reads the
\* latest row of every type, whichever sync it is of).
THEOREM PublicDatabaseReportedHolds == AnalysisSpec => []PublicDatabaseReported
<1> DEFINE IInv == Inputs /\ Futures /\ BatchTypes /\ PublicInv /\ StageInv
<1>1. AnalysisInit => IInv
  <2>1. AnalysisInit => BatchTypes /\ PublicInv /\ StageInv
    BY DEF AnalysisInit, BatchTypes, PublicInv, StageInv
  <2> QED BY <2>1, InputsInit
<1>2. IInv /\ [AnalysisNext]_analysisVars => IInv'
  BY InputsNext, BatchTypesNext, PublicNext, StageNext
<1>3. IInv => PublicDatabaseReported
  <2> DEFINE I == OfType(snapshots, "rds_instance")
             C == OfType(snapshots, "aurora_cluster")
  <2> SUFFICES ASSUME IInv, stage = "done", "rds_instance" \in captured, NEW s \in I,
                      s.cfg.publicly_accessible,
                      ~(/\ "aurora_cluster" \notin captured
                        /\ \E c \in C : /\ c.id = s.cfg.db_cluster_identifier
                                         /\ Get(c, "publicly_accessible") = FALSE)
               PROVE  \E r \in db.rows : /\ r.finding.ftype = "rds_publicly_accessible"
                                         /\ r.finding.rid \in {s.id, s.cfg.db_cluster_identifier}
    BY DEF PublicDatabaseReported
  <2>1. s \in snapshots /\ s.type = "rds_instance" /\ InstanceRow(s)
    BY DEF OfType, PublicInv
  <2>2. /\ Get(s, "publicly_accessible") = TRUE
        /\ Get(s, "db_cluster_identifier") = s.cfg.db_cluster_identifier
    BY <2>1 DEF Get, InstanceRow
  <2>3. ASSUME NEW q \in I \cup C, rds_public(q, C)
        PROVE  \E r \in db.rows : r.finding.ftype = "rds_publicly_accessible" /\ r.finding.rid = q.id
    <3>1. Find(q, "rds_publicly_accessible", "high") \in detect_rds_findings(snapshots)
      BY <2>3, PublicFound
    <3>2. Find(q, "rds_publicly_accessible", "high") \in {r.finding : r \in db.rows}
      BY <3>1 DEF StageInv, ToRecommend, ToRules, ToExtended, ToS3, ToLambda
    <3>3. PICK r \in db.rows : r.finding = Find(q, "rds_publicly_accessible", "high")
      BY <3>2
    <3> QED BY <3>3 DEF Find
  <2>4. CASE rds_public(s, C)
    BY <2>3, <2>4
  <2>5. CASE ~rds_public(s, C)
    <3>1. PICK c \in C : c.id = s.cfg.db_cluster_identifier /\ "publicly_accessible" \in DOMAIN c.cfg
      BY <2>2, <2>5 DEF rds_public
    <3>2. c \in snapshots /\ c.type = "aurora_cluster"
      BY DEF OfType
    <3>3. Get(c, "publicly_accessible") = c.cfg.publicly_accessible /\ c.cfg.publicly_accessible \in BOOLEAN
      BY <3>1, <3>2 DEF PublicInv, Get
    <3>4. c.cfg.publicly_accessible = TRUE
      <4>1. CASE "aurora_cluster" \in captured
        BY <2>1, <3>1, <3>2, <4>1 DEF PublicInv, Databases
      <4>2. CASE "aurora_cluster" \notin captured
        BY <3>1, <3>3, <4>2
      <4> QED BY <4>1, <4>2
    <3>5. rds_public(c, C)
      BY <3>1, <3>2, <3>4 DEF rds_public, Get
    <3> QED BY <2>3, <3>1, <3>5
  <2> QED BY <2>4, <2>5
<1> HIDE DEF IInv
<1> QED BY <1>1, <1>2, <1>3, PTL DEF AnalysisSpec

------------------------------------------------------------------------------
(* A finding is known by its resource and its type *)

Aurora == "aurora_serverless_review_candidate"

Severity(ftype) ==
  IF ftype \in HighFindings THEN "high" ELSE IF ftype \in LowFindings THEN "low" ELSE "medium"

\* A finding that is made up from its resource, its type and who reports it.
Made(f, by) ==
  /\ f = [rid |-> f.rid, rtype |-> f.rtype, ftype |-> f.ftype, sev |-> Severity(f.ftype),
          ev |-> NULL, by |-> by]
  /\ f.ftype # Aurora

LEMMA FindMade ==
  ASSUME NEW s
  PROVE  /\ \A ft \in HighFindings : Made(Find(s, ft, "high"), "detector")
         /\ \A ft \in LowFindings : Made(Find(s, ft, "low"), "detector")
         /\ \A ft : ft \notin HighFindings \cup LowFindings \cup {Aurora} =>
              Made(Find(s, ft, "medium"), "detector")
         /\ \A ft, sev : /\ Find(s, ft, sev).rid = s.id /\ Find(s, ft, sev).rtype = s.type
                         /\ Find(s, ft, sev).ftype = ft
<1>1. \A ft, sev : /\ Find(s, ft, sev).rid = s.id /\ Find(s, ft, sev).rtype = s.type
                   /\ Find(s, ft, sev).ftype = ft
  BY DEF Find
<1>2. \A ft, sev : sev = Severity(ft) /\ ft # Aurora => Made(Find(s, ft, sev), "detector")
  BY DEF Made, Find
<1>3. HighFindings \cap LowFindings = {} /\ Aurora \notin HighFindings \cup LowFindings
  BY DEF HighFindings, LowFindings, Aurora
<1>4. \A ft : /\ ft \in HighFindings => Severity(ft) = "high"
              /\ ft \in LowFindings => Severity(ft) = "low"
              /\ ft \notin HighFindings \cup LowFindings => Severity(ft) = "medium"
  BY <1>3 DEF Severity
<1> QED BY <1>1, <1>2, <1>3, <1>4

\* Keeping one review per cluster key invents no finding and leaves one per key.
LEMMA DedupeWithin ==
  ASSUME NEW fs
  PROVE  dedupe_aurora_serverless_review_findings(fs) \subseteq fs
<1> DEFINE serverless == {f \in fs : f.ftype = Aurora}
           group(f) == {g \in serverless : aurora_serverless_cluster_key(g) = aurora_serverless_cluster_key(f)}
           pool(g) == IF \E f \in g : f.rtype = "aurora_cluster"
                      THEN {f \in g : f.rtype = "aurora_cluster"} ELSE g
           chosen(f) == CHOOSE p \in pool(group(f)) : TRUE
<1>1. dedupe_aurora_serverless_review_findings(fs) = (fs \ serverless) \cup {chosen(f) : f \in serverless}
  BY DEF dedupe_aurora_serverless_review_findings, Aurora
<1>2. \A f \in serverless : chosen(f) \in group(f)
  <2>1. \A f \in serverless : f \in group(f)
    OBVIOUS
  <2>2. \A g : pool(g) \subseteq g /\ (g # {} => pool(g) # {})
    OBVIOUS
  <2> HIDE DEF group, pool, serverless
  <2> QED BY <2>1, <2>2
<1> QED BY <1>1, <1>2

LEMMA OneReviewPerKey ==
  ASSUME NEW fs,
         NEW f \in dedupe_aurora_serverless_review_findings(fs),
         NEW h \in dedupe_aurora_serverless_review_findings(fs),
         f.ftype = Aurora, h.ftype = Aurora, f.rid = h.rid, f.rtype = h.rtype
  PROVE  f = h
<1> DEFINE serverless == {g \in fs : g.ftype = Aurora}
           key(g) == aurora_serverless_cluster_key(g)
           group(k) == {g \in serverless : key(g) = k}
           pool(g) == IF \E p \in g : p.rtype = "aurora_cluster"
                      THEN {p \in g : p.rtype = "aurora_cluster"} ELSE g
           chosen(k) == CHOOSE p \in pool(group(k)) : TRUE
<1>1. dedupe_aurora_serverless_review_findings(fs) = (fs \ serverless) \cup {chosen(key(g)) : g \in serverless}
  BY DEF dedupe_aurora_serverless_review_findings, Aurora
<1>2. \A g \in serverless : key(chosen(key(g))) = key(g)
  <2>1. \A g \in serverless : g \in group(key(g))
    OBVIOUS
  <2>2. \A g : pool(g) \subseteq g /\ (g # {} => pool(g) # {})
    OBVIOUS
  <2>3. \A k : \A g \in group(k) : key(g) = k
    OBVIOUS
  <2>4. \A k : pool(group(k)) # {} => chosen(k) \in pool(group(k))
    OBVIOUS
  <2> HIDE DEF group, pool, serverless, chosen, key
  <2>5. \A g \in serverless : chosen(key(g)) \in group(key(g))
    BY <2>1, <2>2, <2>4
  <2> QED BY <2>3, <2>5
<1>3. \A g \in fs \ serverless : g.ftype # Aurora
  OBVIOUS
<1>4. key(f) = key(h)
  BY DEF aurora_serverless_cluster_key
<1> HIDE DEF chosen, key, serverless
<1>5. f = chosen(key(f)) /\ h = chosen(key(h))
  BY <1>1, <1>2, <1>3
<1> QED BY <1>4, <1>5

LEMMA ConfigurationFindings ==
  ASSUME NEW S
  PROVE  /\ \A f \in detect_ec2_findings(S) : Made(f, "detector") /\ f.rtype = "ec2_instance"
         /\ \A f \in detect_ebs_findings(S) : Made(f, "detector") /\ f.rtype = "ebs_volume"
         /\ \A f \in detect_lambda_findings(S) :
              /\ Made(f, "detector") /\ f.rtype = "lambda_function"
              /\ f.ftype \notin {"lambda_outdated_runtime", "lambda_review_timeout_configuration"}
         /\ \A f \in detect_s3_findings(S) : Made(f, "detector") /\ f.rtype = "s3_bucket"
<1>1. \A f \in detect_ec2_findings(S) : \E s : s.type = "ec2_instance" /\
        f \in {Find(s, "ec2_missing_required_tags", "medium"),
               Find(s, "ec2_stopped_instance", "medium")}
  BY DEF detect_ec2_findings, Each, OfType
<1>2. \A f \in detect_ebs_findings(S) : \E s : s.type = "ebs_volume" /\
        f \in {Find(s, "ebs_missing_required_tags", "medium"),
               Find(s, "ebs_unattached_volume", "medium")}
  BY DEF detect_ebs_findings, Each, OfType
<1>3. \A f \in detect_lambda_findings(S) : \E s : s.type = "lambda_function" /\
        f \in {Find(s, "lambda_missing_required_tags", "medium"),
               Find(s, "lambda_high_memory_configuration_candidate", "medium"),
               Find(s, "lambda_low_utilization", "low"),
               Find(s, "lambda_excessive_memory_allocation", "medium"),
               Find(s, "lambda_concurrency_risk", "medium")}
  BY DEF detect_lambda_findings, lambda_configuration_findings, lambda_utilization_findings, Each, OfType
<1>4. \A f \in detect_s3_findings(S) : \E s : s.type = "s3_bucket" /\
        f \in {Find(s, "s3_missing_required_tags", "medium"),
               Find(s, "s3_public_access_candidate", "high"),
               Find(s, "s3_versioning_disabled_candidate", "medium"),
               Find(s, "s3_lifecycle_policy_missing", "medium"),
               Find(s, "s3_missing_encryption", "high"),
               Find(s, "s3_no_lifecycle_large_bucket", "medium"),
               Find(s, "s3_infrequent_access_candidate", "low")}
  BY DEF detect_s3_findings, s3_configuration_findings, s3_storage_findings, Each, OfType
<1>5a. \A s, ft, sev : Find(s, ft, sev).rtype = s.type /\ Find(s, ft, sev).ftype = ft
  BY FindMade
<1>5b. \A s : \A ft \in {"s3_public_access_candidate", "s3_missing_encryption"} :
           Made(Find(s, ft, "high"), "detector")
  BY FindMade DEF HighFindings
<1>5c. \A s : \A ft \in {"ec2_missing_required_tags", "ec2_stopped_instance", "ebs_missing_required_tags",
         "ebs_unattached_volume", "lambda_missing_required_tags",
         "lambda_high_memory_configuration_candidate", "lambda_excessive_memory_allocation",
         "lambda_concurrency_risk", "s3_missing_required_tags", "s3_versioning_disabled_candidate",
         "s3_lifecycle_policy_missing", "s3_no_lifecycle_large_bucket"} :
           Made(Find(s, ft, "medium"), "detector")
  BY FindMade DEF HighFindings, LowFindings, Aurora
<1>5d. \A s : \A ft \in {"lambda_low_utilization", "s3_infrequent_access_candidate"} :
           Made(Find(s, ft, "low"), "detector")
  BY FindMade DEF LowFindings
<1>6. \A f \in detect_ec2_findings(S) : Made(f, "detector") /\ f.rtype = "ec2_instance"
  BY <1>1, <1>5a, <1>5b, <1>5c, <1>5d
<1>7. \A f \in detect_ebs_findings(S) : Made(f, "detector") /\ f.rtype = "ebs_volume"
  BY <1>2, <1>5a, <1>5b, <1>5c, <1>5d
<1>8. \A f \in detect_lambda_findings(S) :
        /\ Made(f, "detector") /\ f.rtype = "lambda_function"
        /\ f.ftype \notin {"lambda_outdated_runtime", "lambda_review_timeout_configuration"}
  BY <1>3, <1>5a, <1>5b, <1>5c, <1>5d
<1>9. \A f \in detect_s3_findings(S) : Made(f, "detector") /\ f.rtype = "s3_bucket"
  BY <1>4, <1>5a, <1>5b, <1>5c, <1>5d
<1> QED BY <1>6, <1>7, <1>8, <1>9

\* The databases: as above, and the Aurora reviews, one for each cluster key.
LEMMA DatabaseFindings ==
  ASSUME NEW S, NEW f \in detect_rds_findings(S)
  PROVE  /\ f.rtype \in {"rds_instance", "aurora_cluster"}
         /\ Made(f, "detector") \/ f.ftype = Aurora
<1> DEFINE I == OfType(S, "rds_instance")
           C == OfType(S, "aurora_cluster")
           all == rds_configuration_findings(I, C) \cup rds_utilization_findings(I) \cup aurora_review_findings(I, C)
<1>1. \A s \in I \cup C : s.type \in {"rds_instance", "aurora_cluster"}
  BY DEF OfType
<1>2. f \in all
  <2>1. f \in dedupe_aurora_serverless_review_findings(all)
    BY DEF detect_rds_findings
  <2> HIDE DEF all
  <2> QED BY <2>1, DedupeWithin
<1> HIDE DEF I, C
<1>3. \A g \in rds_configuration_findings(I, C) : \E s : s \in I \cup C /\
        g \in {Find(s, "rds_missing_required_tags", "medium"),
               Find(s, "rds_publicly_accessible", "high"),
               Find(s, "rds_instance_overprovisioned", "medium")}
  BY DEF rds_configuration_findings, Each
<1>4. \A g \in rds_utilization_findings(I) : \E s : s \in I \cup C /\
        g \in {Find(s, "rds_low_cpu_underutilized", "medium"),
               Find(s, "rds_high_storage_unused", "low"),
               Find(s, "rds_idle_instance_candidate", "low")}
  BY DEF rds_utilization_findings, Each
<1>5a. \A s, ft, sev : Find(s, ft, sev).rtype = s.type /\ Find(s, ft, sev).ftype = ft
  BY FindMade
<1>5b. \A s : \A ft \in {"rds_publicly_accessible"} :
           Made(Find(s, ft, "high"), "detector")
  BY FindMade DEF HighFindings
<1>5c. \A s : \A ft \in {"rds_missing_required_tags", "rds_instance_overprovisioned", "rds_low_cpu_underutilized"} :
           Made(Find(s, ft, "medium"), "detector")
  BY FindMade DEF HighFindings, LowFindings, Aurora
<1>5d. \A s : \A ft \in {"rds_high_storage_unused", "rds_idle_instance_candidate"} :
           Made(Find(s, ft, "low"), "detector")
  BY FindMade DEF LowFindings
<1>6. \A g \in rds_configuration_findings(I, C) \cup rds_utilization_findings(I) :
        g.rtype \in {"rds_instance", "aurora_cluster"} /\ Made(g, "detector")
  BY <1>1, <1>3, <1>4, <1>5a, <1>5b, <1>5c, <1>5d
<1>7. \A s, v2, v1 : /\ AuroraReview(s, v2, v1).rtype = s.type
                     /\ AuroraReview(s, v2, v1).ftype = Aurora
  BY DEF AuroraReview, Find, Aurora
<1>8. \A g \in aurora_review_findings(I, C) :
        g.rtype \in {"rds_instance", "aurora_cluster"} /\ g.ftype = Aurora
  BY <1>1, <1>7 DEF aurora_review_findings
<1> QED BY <1>2, <1>6, <1>8

\* Every extended detector gives a finding its own type and the severity of that type.
LEMMA ExtendedFindings ==
  ASSUME NEW S, NEW f \in legacy_extended_findings(S)
  PROVE  Made(f, "detector")
<1>1. \A s : \A ft \in {"acm_certificate_expiring_soon", "cloudfront_insecure_viewer_protocol_policy",
         "security_group_world_open_sensitive_port", "load_balancer_no_healthy_targets",
         "load_balancer_no_healthy_traffic_path", "target_group_unhealthy_targets",
         "target_group_no_healthy_targets", "public_subnet_with_open_sg",
         "internet_exposed_resource_chain", "acm_certificate_validation_issue",
         "lambda_outdated_runtime"} :
        Made(Find(s, ft, "high"), "detector")
  BY FindMade DEF HighFindings
<1>2. \A s : \A ft \in {"cloudfront_missing_https_redirect", "security_group_overly_permissive",
         "load_balancer_deletion_protection_disabled", "load_balancer_partial_failure",
         "route_table_public_default_route_review", "target_group_no_targets",
         "target_group_misconfigured_health_check", "apigateway_public_exposure_review",
         "eventbridge_rule_without_targets", "ses_identity_unverified",
         "ses_sending_disabled_identity", "acm_certificate_pending_validation",
         "lambda_review_timeout_configuration", "kms_key_rotation_disabled",
         "rds_parameter_group_general_log_enabled"} :
        Made(Find(s, ft, "medium"), "detector")
  BY FindMade DEF HighFindings, LowFindings, Aurora
<1>3. \A s : \A ft \in {"cloudfront_disabled_distribution_review", "load_balancer_unused",
         "route_table_unassociated_review", "target_group_stickiness_disabled",
         "target_group_slow_deregistration", "eventbridge_rule_disabled_review",
         "rds_parameter_group_slow_query_disabled", "cloudwatch_log_group_no_retention_policy"} :
        Made(Find(s, ft, "low"), "detector")
  BY FindMade DEF LowFindings
<1>4. \A g \in acm_expiry_findings(S) : Made(g, "detector")
  <2>1. \A g \in acm_expiry_findings(S) : \E s :
          g \in {Find(s, "acm_certificate_expiring_soon", "high")}
    BY DEF acm_expiry_findings, Each
  <2> QED BY <2>1, <1>1, <1>2, <1>3
<1>5. \A g \in cloudfront_findings(S) : Made(g, "detector")
  <2>1. \A g \in cloudfront_findings(S) : \E s :
          g \in {Find(s, "cloudfront_insecure_viewer_protocol_policy", "high"),
                Find(s, "cloudfront_missing_https_redirect", "medium"),
                Find(s, "cloudfront_disabled_distribution_review", "low")}
    BY DEF cloudfront_findings, Each
  <2> QED BY <2>1, <1>1, <1>2, <1>3
<1>6. \A g \in security_group_findings(S) : Made(g, "detector")
  <2>1. \A g \in security_group_findings(S) : \E s :
          g \in {Find(s, "security_group_world_open_sensitive_port", "high"),
                Find(s, "security_group_overly_permissive", "medium")}
    BY DEF security_group_findings, Each
  <2> QED BY <2>1, <1>1, <1>2, <1>3
<1>7. \A g \in load_balancer_findings(S) : Made(g, "detector")
  <2>1. \A g \in load_balancer_findings(S) : \E s :
          g \in {Find(s, "load_balancer_deletion_protection_disabled", "medium"),
                Find(s, "load_balancer_no_healthy_targets", "high"),
                Find(s, "load_balancer_no_healthy_traffic_path", "high"),
                Find(s, "load_balancer_partial_failure", "medium")}
    BY DEF load_balancer_findings, Each
  <2> QED BY <2>1, <1>1, <1>2, <1>3
<1>8. \A g \in load_balancer_unused_findings(S) : Made(g, "detector")
  <2>1. \A g \in load_balancer_unused_findings(S) : \E s :
          g \in {Find(s, "load_balancer_unused", "low")}
    BY DEF load_balancer_unused_findings, Each
  <2> QED BY <2>1, <1>1, <1>2, <1>3
<1>9. \A g \in route_table_findings(S) : Made(g, "detector")
  <2>1. \A g \in route_table_findings(S) : \E s :
          g \in {Find(s, "route_table_unassociated_review", "low"),
                Find(s, "route_table_public_default_route_review", "medium")}
    BY DEF route_table_findings, Each
  <2> QED BY <2>1, <1>1, <1>2, <1>3
<1>10. \A g \in target_group_findings(S) : Made(g, "detector")
  <2>1. \A g \in target_group_findings(S) : \E s :
          g \in {Find(s, "target_group_no_targets", "medium"),
                Find(s, "target_group_unhealthy_targets", "high"),
                Find(s, "target_group_misconfigured_health_check", "medium"),
                Find(s, "target_group_no_healthy_targets", "high")}
    BY DEF target_group_findings, Each
  <2> QED BY <2>1, <1>1, <1>2, <1>3
<1>11. \A g \in target_group_tuning_findings(S) : Made(g, "detector")
  <2>1. \A g \in target_group_tuning_findings(S) : \E s :
          g \in {Find(s, "target_group_stickiness_disabled", "low"),
                Find(s, "target_group_slow_deregistration", "low")}
    BY DEF target_group_tuning_findings, Each
  <2> QED BY <2>1, <1>1, <1>2, <1>3
<1>12. \A g \in exposure_findings(S) : Made(g, "detector")
  <2>1. \A g \in exposure_findings(S) : \E s :
          g \in {Find(s, "public_subnet_with_open_sg", "high"),
                Find(s, "internet_exposed_resource_chain", "high")}
    BY DEF exposure_findings, Each
  <2> QED BY <2>1, <1>1, <1>2, <1>3
<1>13. \A g \in apigateway_findings(S) : Made(g, "detector")
  <2>1. \A g \in apigateway_findings(S) : \E s :
          g \in {Find(s, "apigateway_public_exposure_review", "medium")}
    BY DEF apigateway_findings, Each
  <2> QED BY <2>1, <1>1, <1>2, <1>3
<1>14. \A g \in eventbridge_findings(S) : Made(g, "detector")
  <2>1. \A g \in eventbridge_findings(S) : \E s :
          g \in {Find(s, "eventbridge_rule_without_targets", "medium"),
                Find(s, "eventbridge_rule_disabled_review", "low")}
    BY DEF eventbridge_findings, Each
  <2> QED BY <2>1, <1>1, <1>2, <1>3
<1>15. \A g \in ses_findings(S) : Made(g, "detector")
  <2>1. \A g \in ses_findings(S) : \E s :
          g \in {Find(s, "ses_identity_unverified", "medium"),
                Find(s, "ses_sending_disabled_identity", "medium")}
    BY DEF ses_findings, Each
  <2> QED BY <2>1, <1>1, <1>2, <1>3
<1>16. \A g \in acm_status_findings(S) : Made(g, "detector")
  <2>1. \A g \in acm_status_findings(S) : \E s :
          g \in {Find(s, "acm_certificate_pending_validation", "medium"),
                Find(s, "acm_certificate_validation_issue", "high")}
    BY DEF acm_status_findings, Each
  <2> QED BY <2>1, <1>1, <1>2, <1>3
<1>17. \A g \in lambda_runtime_findings(S) : Made(g, "detector")
  <2>1. \A g \in lambda_runtime_findings(S) : \E s :
          g \in {Find(s, "lambda_outdated_runtime", "high"),
                Find(s, "lambda_review_timeout_configuration", "medium")}
    BY DEF lambda_runtime_findings, Each
  <2> QED BY <2>1, <1>1, <1>2, <1>3
<1>18. \A g \in slow_query_findings(S) : Made(g, "detector")
  <2>1. \A g \in slow_query_findings(S) : \E s :
          g \in {Find(s, "rds_parameter_group_slow_query_disabled", "low")}
    BY DEF slow_query_findings, Each
  <2> QED BY <2>1, <1>1, <1>2, <1>3
<1>19. \A g \in kms_findings(S) : Made(g, "detector")
  <2>1. \A g \in kms_findings(S) : \E s :
          g \in {Find(s, "kms_key_rotation_disabled", "medium")}
    BY DEF kms_findings, Each
  <2> QED BY <2>1, <1>1, <1>2, <1>3
<1>20. \A g \in log_group_findings(S) : Made(g, "detector")
  <2>1. \A g \in log_group_findings(S) : \E s :
          g \in {Find(s, "cloudwatch_log_group_no_retention_policy", "low"),
                Find(s, "rds_parameter_group_general_log_enabled", "medium")}
    BY DEF log_group_findings, Each
  <2> QED BY <2>1, <1>1, <1>2, <1>3
<1>21. \A g \in tag_findings(S) : Made(g, "detector")
  <2>1. \A g \in tag_findings(S) : \E rt \in EXTENDED_TAGGABLE_RESOURCE_TYPES : \E s :
          g = Find(s, TagFinding(rt), "medium")
    BY DEF tag_findings, Each
  <2>2. \A rt \in EXTENDED_TAGGABLE_RESOURCE_TYPES :
          TagFinding(rt) \notin HighFindings \cup LowFindings \cup {Aurora}
    BY TagFindingAssumption DEF Aurora, MediumFindings
  <2> QED BY <2>1, <2>2, FindMade, ZenonT(60)
<1> QED BY <1>4, <1>5, <1>6, <1>7, <1>8, <1>9, <1>10, <1>11, <1>12, <1>13, <1>14, <1>15, <1>16, <1>17, <1>18, <1>19, <1>20, <1>21 DEF legacy_extended_findings

\* The type of the recommendation made of a finding type, in whichever table it is.
AdviceFor(ft, rec) ==
  /\ \E t \in advice_tables : ft \in DOMAIN t
  /\ \A t \in advice_tables : ft \in DOMAIN t => t[ft].rec = rec

LEMMA AdviceIs == ASSUME NEW rec, NEW risk, NEW conf PROVE Advice(rec, risk, conf).rec = rec
BY DEF Advice

\* The finding types of the tables.
LEMMA AdviceDomains ==
  /\ DOMAIN edge_advice = {"ec2_stopped_instance", "acm_certificate_expiring_soon",
                            "cloudfront_insecure_viewer_protocol_policy",
                            "cloudfront_missing_https_redirect",
                            "cloudfront_disabled_distribution_review"}
  /\ DOMAIN integration_advice = {"apigateway_public_exposure_review",
                                   "eventbridge_rule_without_targets",
                                   "eventbridge_rule_disabled_review"}
  /\ DOMAIN load_balancer_advice = {"load_balancer_deletion_protection_disabled",
                                     "load_balancer_no_healthy_targets",
                                     "load_balancer_no_healthy_traffic_path",
                                     "load_balancer_unused", "load_balancer_partial_failure"}
  /\ DOMAIN route_and_certificate_advice = {"route_table_unassociated_review",
                                             "route_table_public_default_route_review",
                                             "acm_certificate_pending_validation",
                                             "acm_certificate_validation_issue",
                                             "ses_identity_unverified",
                                             "ses_sending_disabled_identity"}
  /\ DOMAIN exposure_advice = {"security_group_world_open_sensitive_port",
                                "security_group_overly_permissive", "lambda_outdated_runtime",
                                "lambda_review_timeout_configuration", "rds_missing_required_tags",
                                "rds_publicly_accessible"}
  /\ DOMAIN lambda_and_bucket_advice = {"lambda_missing_required_tags",
                                         "lambda_high_memory_configuration_candidate",
                                         "s3_missing_required_tags", "s3_public_access_candidate",
                                         "s3_versioning_disabled_candidate"}
  /\ DOMAIN cost_and_target_advice = {"s3_lifecycle_policy_missing",
                                       "nat_gateway_cost_review_candidate",
                                       "waf_cost_review_candidate",
                                       "target_group_no_healthy_targets",
                                       "target_group_no_targets", "target_group_unhealthy_targets"}
  /\ DOMAIN utilisation_advice = {"target_group_misconfigured_health_check",
                                   "rds_low_cpu_underutilized", "rds_high_storage_unused",
                                   "rds_idle_instance_candidate", "s3_missing_encryption",
                                   "s3_no_lifecycle_large_bucket"}
  /\ DOMAIN workload_advice = {"s3_infrequent_access_candidate", "lambda_low_utilization",
                                "lambda_excessive_memory_allocation", "lambda_concurrency_risk",
                                "public_subnet_with_open_sg", "internet_exposed_resource_chain"}
  /\ DOMAIN tuning_advice = {"target_group_stickiness_disabled",
                              "target_group_slow_deregistration",
                              "rds_parameter_group_slow_query_disabled",
                              "rds_parameter_group_general_log_enabled"}
BY DEF edge_advice, integration_advice, load_balancer_advice, route_and_certificate_advice, exposure_advice,
       lambda_and_bucket_advice, cost_and_target_advice, utilisation_advice, workload_advice, tuning_advice

LEMMA TagDomain ==
  DOMAIN TAG_GOVERNANCE_FINDING_TO_RECOMMENDATION
    = {TagFinding(rt) : rt \in EXTENDED_TAGGABLE_RESOURCE_TYPES \cup {"ec2"}}
BY DEF TAG_GOVERNANCE_FINDING_TO_RECOMMENDATION

LEMMA TagTypes ==
  ASSUME NEW ft \in HighFindings \cup MediumFindings \cup LowFindings
  PROVE  ft \notin {TagFinding(rt) : rt \in EXTENDED_TAGGABLE_RESOURCE_TYPES \cup {"ec2"}}
BY TagFindingAssumption

\* The advice of every finding type that a rule is about.
LEMMA RuleAdvice ==
  /\ AdviceFor("acm_certificate_expiring_soon", "acm_review_certificate_expiry")
  /\ AdviceFor("cloudfront_insecure_viewer_protocol_policy", "cloudfront_review_insecure_protocol_policy")
  /\ AdviceFor("cloudfront_missing_https_redirect", "cloudfront_enforce_https_redirect")
  /\ AdviceFor("cloudfront_disabled_distribution_review", "cloudfront_review_disabled_distribution")
  /\ AdviceFor("apigateway_public_exposure_review", "apigateway_public_exposure_review")
  /\ AdviceFor("eventbridge_rule_without_targets", "eventbridge_add_targets_or_cleanup")
  /\ AdviceFor("eventbridge_rule_disabled_review", "eventbridge_review_disabled_rule")
  /\ AdviceFor("load_balancer_deletion_protection_disabled", "load_balancer_enable_deletion_protection")
  /\ AdviceFor("load_balancer_no_healthy_targets", "load_balancer_review_target_health")
  /\ AdviceFor("load_balancer_no_healthy_traffic_path", "load_balancer_review_target_health")
  /\ AdviceFor("load_balancer_partial_failure", "load_balancer_review_target_health")
  /\ AdviceFor("route_table_unassociated_review", "route_table_cleanup_unused")
  /\ AdviceFor("route_table_public_default_route_review", "route_table_review_public_egress")
  /\ AdviceFor("acm_certificate_pending_validation", "acm_complete_validation")
  /\ AdviceFor("acm_certificate_validation_issue", "acm_investigate_validation_failure")
  /\ AdviceFor("security_group_world_open_sensitive_port", "security_group_restrict_world_open_ports")
  /\ AdviceFor("security_group_overly_permissive", "security_group_restrict_ingress")
  /\ AdviceFor("lambda_outdated_runtime", "lambda_update_runtime")
  /\ AdviceFor("lambda_review_timeout_configuration", "lambda_review_timeout_configuration")
  /\ AdviceFor("target_group_no_healthy_targets", "target_group_review_target_health")
  /\ AdviceFor("target_group_no_targets", "attach_targets_or_cleanup")
  /\ AdviceFor("target_group_unhealthy_targets", "investigate_unhealthy_targets")
  /\ AdviceFor("target_group_misconfigured_health_check", "fix_health_check_configuration")
  /\ AdviceFor("target_group_stickiness_disabled", "target_group_enable_stickiness")
  /\ AdviceFor("target_group_slow_deregistration", "target_group_optimize_deregistration_delay")
<1>1. /\ AdviceFor("acm_certificate_expiring_soon", "acm_review_certificate_expiry")
     /\ AdviceFor("cloudfront_insecure_viewer_protocol_policy", "cloudfront_review_insecure_protocol_policy")
     /\ AdviceFor("cloudfront_missing_https_redirect", "cloudfront_enforce_https_redirect")
     /\ AdviceFor("cloudfront_disabled_distribution_review", "cloudfront_review_disabled_distribution")
  <2>1. \A ft \in {"acm_certificate_expiring_soon", "cloudfront_insecure_viewer_protocol_policy",
                    "cloudfront_missing_https_redirect", "cloudfront_disabled_distribution_review"} :
          ft \notin DOMAIN TAG_GOVERNANCE_FINDING_TO_RECOMMENDATION
    BY TagTypes, TagDomain DEF HighFindings, MediumFindings, LowFindings
  <2>2. /\ edge_advice["acm_certificate_expiring_soon"].rec = "acm_review_certificate_expiry"
        /\ edge_advice["cloudfront_insecure_viewer_protocol_policy"].rec = "cloudfront_review_insecure_protocol_policy"
        /\ edge_advice["cloudfront_missing_https_redirect"].rec = "cloudfront_enforce_https_redirect"
        /\ edge_advice["cloudfront_disabled_distribution_review"].rec = "cloudfront_review_disabled_distribution"
    BY AdviceIs DEF edge_advice
  <2>3. \A ft \in {"acm_certificate_expiring_soon", "cloudfront_insecure_viewer_protocol_policy",
                    "cloudfront_missing_https_redirect", "cloudfront_disabled_distribution_review"} :
          ft \in DOMAIN edge_advice /\ \A t \in advice_tables : t = edge_advice \/ ft \notin DOMAIN t
    BY <2>1, AdviceDomains DEF advice_tables
  <2>4. edge_advice \in advice_tables
    BY DEF advice_tables
  <2> QED BY <2>2, <2>3, <2>4 DEF AdviceFor
<1>2. /\ AdviceFor("apigateway_public_exposure_review", "apigateway_public_exposure_review")
     /\ AdviceFor("eventbridge_rule_without_targets", "eventbridge_add_targets_or_cleanup")
     /\ AdviceFor("eventbridge_rule_disabled_review", "eventbridge_review_disabled_rule")
  <2>1. \A ft \in {"apigateway_public_exposure_review", "eventbridge_rule_without_targets",
                    "eventbridge_rule_disabled_review"} :
          ft \notin DOMAIN TAG_GOVERNANCE_FINDING_TO_RECOMMENDATION
    BY TagTypes, TagDomain DEF HighFindings, MediumFindings, LowFindings
  <2>2. /\ integration_advice["apigateway_public_exposure_review"].rec = "apigateway_public_exposure_review"
        /\ integration_advice["eventbridge_rule_without_targets"].rec = "eventbridge_add_targets_or_cleanup"
        /\ integration_advice["eventbridge_rule_disabled_review"].rec = "eventbridge_review_disabled_rule"
    BY AdviceIs DEF integration_advice
  <2>3. \A ft \in {"apigateway_public_exposure_review", "eventbridge_rule_without_targets",
                    "eventbridge_rule_disabled_review"} :
          ft \in DOMAIN integration_advice /\ \A t \in advice_tables : t = integration_advice \/ ft \notin DOMAIN t
    BY <2>1, AdviceDomains DEF advice_tables
  <2>4. integration_advice \in advice_tables
    BY DEF advice_tables
  <2> QED BY <2>2, <2>3, <2>4 DEF AdviceFor
<1>3. /\ AdviceFor("load_balancer_deletion_protection_disabled", "load_balancer_enable_deletion_protection")
     /\ AdviceFor("load_balancer_no_healthy_targets", "load_balancer_review_target_health")
     /\ AdviceFor("load_balancer_no_healthy_traffic_path", "load_balancer_review_target_health")
     /\ AdviceFor("load_balancer_partial_failure", "load_balancer_review_target_health")
  <2>1. \A ft \in {"load_balancer_deletion_protection_disabled",
                    "load_balancer_no_healthy_targets", "load_balancer_no_healthy_traffic_path",
                    "load_balancer_partial_failure"} :
          ft \notin DOMAIN TAG_GOVERNANCE_FINDING_TO_RECOMMENDATION
    BY TagTypes, TagDomain DEF HighFindings, MediumFindings, LowFindings
  <2>2. /\ load_balancer_advice["load_balancer_deletion_protection_disabled"].rec = "load_balancer_enable_deletion_protection"
        /\ load_balancer_advice["load_balancer_no_healthy_targets"].rec = "load_balancer_review_target_health"
        /\ load_balancer_advice["load_balancer_no_healthy_traffic_path"].rec = "load_balancer_review_target_health"
        /\ load_balancer_advice["load_balancer_partial_failure"].rec = "load_balancer_review_target_health"
    BY AdviceIs DEF load_balancer_advice
  <2>3. \A ft \in {"load_balancer_deletion_protection_disabled",
                    "load_balancer_no_healthy_targets", "load_balancer_no_healthy_traffic_path",
                    "load_balancer_partial_failure"} :
          ft \in DOMAIN load_balancer_advice /\ \A t \in advice_tables : t = load_balancer_advice \/ ft \notin DOMAIN t
    BY <2>1, AdviceDomains DEF advice_tables
  <2>4. load_balancer_advice \in advice_tables
    BY DEF advice_tables
  <2> QED BY <2>2, <2>3, <2>4 DEF AdviceFor
<1>4. /\ AdviceFor("route_table_unassociated_review", "route_table_cleanup_unused")
     /\ AdviceFor("route_table_public_default_route_review", "route_table_review_public_egress")
     /\ AdviceFor("acm_certificate_pending_validation", "acm_complete_validation")
     /\ AdviceFor("acm_certificate_validation_issue", "acm_investigate_validation_failure")
  <2>1. \A ft \in {"route_table_unassociated_review", "route_table_public_default_route_review",
                    "acm_certificate_pending_validation", "acm_certificate_validation_issue"} :
          ft \notin DOMAIN TAG_GOVERNANCE_FINDING_TO_RECOMMENDATION
    BY TagTypes, TagDomain DEF HighFindings, MediumFindings, LowFindings
  <2>2. /\ route_and_certificate_advice["route_table_unassociated_review"].rec = "route_table_cleanup_unused"
        /\ route_and_certificate_advice["route_table_public_default_route_review"].rec = "route_table_review_public_egress"
        /\ route_and_certificate_advice["acm_certificate_pending_validation"].rec = "acm_complete_validation"
        /\ route_and_certificate_advice["acm_certificate_validation_issue"].rec = "acm_investigate_validation_failure"
    BY AdviceIs DEF route_and_certificate_advice
  <2>3. \A ft \in {"route_table_unassociated_review", "route_table_public_default_route_review",
                    "acm_certificate_pending_validation", "acm_certificate_validation_issue"} :
          ft \in DOMAIN route_and_certificate_advice /\ \A t \in advice_tables : t = route_and_certificate_advice \/ ft \notin DOMAIN t
    BY <2>1, AdviceDomains DEF advice_tables
  <2>4. route_and_certificate_advice \in advice_tables
    BY DEF advice_tables
  <2> QED BY <2>2, <2>3, <2>4 DEF AdviceFor
<1>5. /\ AdviceFor("security_group_world_open_sensitive_port", "security_group_restrict_world_open_ports")
     /\ AdviceFor("security_group_overly_permissive", "security_group_restrict_ingress")
     /\ AdviceFor("lambda_outdated_runtime", "lambda_update_runtime")
     /\ AdviceFor("lambda_review_timeout_configuration", "lambda_review_timeout_configuration")
  <2>1. \A ft \in {"security_group_world_open_sensitive_port", "security_group_overly_permissive",
                    "lambda_outdated_runtime", "lambda_review_timeout_configuration"} :
          ft \notin DOMAIN TAG_GOVERNANCE_FINDING_TO_RECOMMENDATION
    BY TagTypes, TagDomain DEF HighFindings, MediumFindings, LowFindings
  <2>2. /\ exposure_advice["security_group_world_open_sensitive_port"].rec = "security_group_restrict_world_open_ports"
        /\ exposure_advice["security_group_overly_permissive"].rec = "security_group_restrict_ingress"
        /\ exposure_advice["lambda_outdated_runtime"].rec = "lambda_update_runtime"
        /\ exposure_advice["lambda_review_timeout_configuration"].rec = "lambda_review_timeout_configuration"
    BY AdviceIs DEF exposure_advice
  <2>3. \A ft \in {"security_group_world_open_sensitive_port", "security_group_overly_permissive",
                    "lambda_outdated_runtime", "lambda_review_timeout_configuration"} :
          ft \in DOMAIN exposure_advice /\ \A t \in advice_tables : t = exposure_advice \/ ft \notin DOMAIN t
    BY <2>1, AdviceDomains DEF advice_tables
  <2>4. exposure_advice \in advice_tables
    BY DEF advice_tables
  <2> QED BY <2>2, <2>3, <2>4 DEF AdviceFor
<1>6. /\ AdviceFor("target_group_no_healthy_targets", "target_group_review_target_health")
     /\ AdviceFor("target_group_no_targets", "attach_targets_or_cleanup")
     /\ AdviceFor("target_group_unhealthy_targets", "investigate_unhealthy_targets")
  <2>1. \A ft \in {"target_group_no_healthy_targets", "target_group_no_targets",
                    "target_group_unhealthy_targets"} :
          ft \notin DOMAIN TAG_GOVERNANCE_FINDING_TO_RECOMMENDATION
    BY TagTypes, TagDomain DEF HighFindings, MediumFindings, LowFindings
  <2>2. /\ cost_and_target_advice["target_group_no_healthy_targets"].rec = "target_group_review_target_health"
        /\ cost_and_target_advice["target_group_no_targets"].rec = "attach_targets_or_cleanup"
        /\ cost_and_target_advice["target_group_unhealthy_targets"].rec = "investigate_unhealthy_targets"
    BY AdviceIs DEF cost_and_target_advice
  <2>3. \A ft \in {"target_group_no_healthy_targets", "target_group_no_targets",
                    "target_group_unhealthy_targets"} :
          ft \in DOMAIN cost_and_target_advice /\ \A t \in advice_tables : t = cost_and_target_advice \/ ft \notin DOMAIN t
    BY <2>1, AdviceDomains DEF advice_tables
  <2>4. cost_and_target_advice \in advice_tables
    BY DEF advice_tables
  <2> QED BY <2>2, <2>3, <2>4 DEF AdviceFor
<1>7. /\ AdviceFor("target_group_misconfigured_health_check", "fix_health_check_configuration")
  <2>1. \A ft \in {"target_group_misconfigured_health_check"} :
          ft \notin DOMAIN TAG_GOVERNANCE_FINDING_TO_RECOMMENDATION
    BY TagTypes, TagDomain DEF HighFindings, MediumFindings, LowFindings
  <2>2. /\ utilisation_advice["target_group_misconfigured_health_check"].rec = "fix_health_check_configuration"
    BY AdviceIs DEF utilisation_advice
  <2>3. \A ft \in {"target_group_misconfigured_health_check"} :
          ft \in DOMAIN utilisation_advice /\ \A t \in advice_tables : t = utilisation_advice \/ ft \notin DOMAIN t
    BY <2>1, AdviceDomains DEF advice_tables
  <2>4. utilisation_advice \in advice_tables
    BY DEF advice_tables
  <2> QED BY <2>2, <2>3, <2>4 DEF AdviceFor
<1>8. /\ AdviceFor("target_group_stickiness_disabled", "target_group_enable_stickiness")
     /\ AdviceFor("target_group_slow_deregistration", "target_group_optimize_deregistration_delay")
  <2>1. \A ft \in {"target_group_stickiness_disabled", "target_group_slow_deregistration"} :
          ft \notin DOMAIN TAG_GOVERNANCE_FINDING_TO_RECOMMENDATION
    BY TagTypes, TagDomain DEF HighFindings, MediumFindings, LowFindings
  <2>2. /\ tuning_advice["target_group_stickiness_disabled"].rec = "target_group_enable_stickiness"
        /\ tuning_advice["target_group_slow_deregistration"].rec = "target_group_optimize_deregistration_delay"
    BY AdviceIs DEF tuning_advice
  <2>3. \A ft \in {"target_group_stickiness_disabled", "target_group_slow_deregistration"} :
          ft \in DOMAIN tuning_advice /\ \A t \in advice_tables : t = tuning_advice \/ ft \notin DOMAIN t
    BY <2>1, AdviceDomains DEF advice_tables
  <2>4. tuning_advice \in advice_tables
    BY DEF advice_tables
  <2> QED BY <2>2, <2>3, <2>4 DEF AdviceFor
<1> QED BY <1>1, <1>2, <1>3, <1>4, <1>5, <1>6, <1>7, <1>8

LEMMA TagAdvice ==
  ASSUME NEW rt \in EXTENDED_TAGGABLE_RESOURCE_TYPES
  PROVE  AdviceFor(TagFinding(rt), TagRecommendation(rt))
<1>1. /\ TagFinding(rt) \in DOMAIN TAG_GOVERNANCE_FINDING_TO_RECOMMENDATION
      /\ TAG_GOVERNANCE_FINDING_TO_RECOMMENDATION[TagFinding(rt)].rec = TagRecommendation(rt)
  <2> DEFINE owner == CHOOSE q \in EXTENDED_TAGGABLE_RESOURCE_TYPES \cup {"ec2"} : TagFinding(q) = TagFinding(rt)
  <2>1. owner = rt
    BY TagFindingAssumption
  <2>2. TagFinding(rt) \in DOMAIN TAG_GOVERNANCE_FINDING_TO_RECOMMENDATION
    BY TagDomain
  <2>3. TAG_GOVERNANCE_FINDING_TO_RECOMMENDATION[TagFinding(rt)] = Advice(TagRecommendation(owner), "medium", "high")
    BY <2>2, TagDomain DEF TAG_GOVERNANCE_FINDING_TO_RECOMMENDATION
  <2> HIDE DEF owner
  <2> QED BY <2>1, <2>2, <2>3, AdviceIs
<1>2. TagFinding(rt) \notin HighFindings \cup MediumFindings \cup LowFindings
  BY TagFindingAssumption
<1>3. \A t \in advice_tables : t = TAG_GOVERNANCE_FINDING_TO_RECOMMENDATION \/ TagFinding(rt) \notin DOMAIN t
  BY <1>2, AdviceDomains DEF advice_tables, HighFindings, MediumFindings, LowFindings
<1> QED BY <1>1, <1>3 DEF AdviceFor, advice_tables

\* What the engine needs of a rule: it agrees with the detectors on the severity of its
\* type and with the tables on the recommendation, and it claims nothing that a detector
\* without the compatibility filter reports.
RuleOk(r) ==
  /\ r.sev = Severity(r.ftype) /\ r.ftype # Aurora
  /\ AdviceFor(r.ftype, r.rec)
  /\ r.rtype \notin {"ec2_instance", "ebs_volume", "rds_instance", "aurora_cluster", "s3_bucket", "waf"}
  /\ r.rtype = "lambda_function" =>
       r.ftype \in {"lambda_outdated_runtime", "lambda_review_timeout_configuration"}
  /\ r.rtype = "nat_gateway" => r.ftype # "nat_gateway_cost_review_candidate"

\* The rules of all files.
RuleSet ==
  {security_group_rules[i] : i \in 1..2}
  \cup {load_balancer_rules[i] : i \in 1..4}
  \cup {route_table_rules[i] : i \in 1..2}
  \cup {target_group_rules[i] : i \in 1..6}
  \cup {apigateway_rules[i] : i \in 1..1}
  \cup {eventbridge_rules[i] : i \in 1..2}
  \cup {acm_rules[i] : i \in 1..3}
  \cup {cloudfront_rules[i] : i \in 1..3}
  \cup {lambda_rules[i] : i \in 1..2}
  \cup {tagging_rules[i] : i \in 1..16}

LEMMA AllRulesAre == \A i \in DOMAIN AllRules : AllRules[i] \in RuleSet
<1>1. security_group_rules \in Seq(RuleSet)
  <2>1. security_group_rules \in Seq({security_group_rules[i] : i \in 1..2})
    BY DEF security_group_rules
  <2> QED BY <2>1 DEF RuleSet
<1>2. load_balancer_rules \in Seq(RuleSet)
  <2>1. load_balancer_rules \in Seq({load_balancer_rules[i] : i \in 1..4})
    BY DEF load_balancer_rules
  <2> QED BY <2>1 DEF RuleSet
<1>3. route_table_rules \in Seq(RuleSet)
  <2>1. route_table_rules \in Seq({route_table_rules[i] : i \in 1..2})
    BY DEF route_table_rules
  <2> QED BY <2>1 DEF RuleSet
<1>4. target_group_rules \in Seq(RuleSet)
  <2>1. target_group_rules \in Seq({target_group_rules[i] : i \in 1..6})
    BY DEF target_group_rules
  <2> QED BY <2>1 DEF RuleSet
<1>5. apigateway_rules \in Seq(RuleSet)
  <2>1. apigateway_rules \in Seq({apigateway_rules[i] : i \in 1..1})
    BY DEF apigateway_rules
  <2> QED BY <2>1 DEF RuleSet
<1>6. eventbridge_rules \in Seq(RuleSet)
  <2>1. eventbridge_rules \in Seq({eventbridge_rules[i] : i \in 1..2})
    BY DEF eventbridge_rules
  <2> QED BY <2>1 DEF RuleSet
<1>7. acm_rules \in Seq(RuleSet)
  <2>1. acm_rules \in Seq({acm_rules[i] : i \in 1..3})
    BY DEF acm_rules
  <2> QED BY <2>1 DEF RuleSet
<1>8. cloudfront_rules \in Seq(RuleSet)
  <2>1. cloudfront_rules \in Seq({cloudfront_rules[i] : i \in 1..3})
    BY DEF cloudfront_rules
  <2> QED BY <2>1 DEF RuleSet
<1>9. lambda_rules \in Seq(RuleSet)
  <2>1. lambda_rules \in Seq({lambda_rules[i] : i \in 1..2})
    BY DEF lambda_rules
  <2> QED BY <2>1 DEF RuleSet
<1>10. tagging_rules \in Seq(RuleSet)
  <2>1. tagging_rules \in Seq({tagging_rules[i] : i \in 1..16})
    BY DEF tagging_rules, TagRuleTypes
  <2> QED BY <2>1 DEF RuleSet
<1>11. AllRules \in Seq(RuleSet)
  BY <1>1, <1>2, <1>3, <1>4, <1>5, <1>6, <1>7, <1>8, <1>9, <1>10 DEF AllRules
<1> QED BY <1>11

LEMMA SeverityOf ==
  ASSUME NEW ft
  PROVE  /\ ft \in HighFindings => Severity(ft) = "high"
         /\ ft \in LowFindings => Severity(ft) = "low"
         /\ ft \notin HighFindings \cup LowFindings => Severity(ft) = "medium"
<1>1. HighFindings \cap LowFindings = {}
  BY DEF HighFindings, LowFindings
<1> QED BY <1>1 DEF Severity

LEMMA RuleIs ==
  ASSUME NEW file, NEW rtype, NEW ftype, NEW rec, NEW cat, NEW sev, NEW conf, NEW conds
  PROVE  LET r == Rule(file, rtype, ftype, rec, cat, sev, conf, conds)
         IN  r.rtype = rtype /\ r.ftype = ftype /\ r.sev = sev /\ r.rec = rec
BY DEF Rule

\* The rule files agree with the detectors and the tables.
LEMMA AllRulesOk == \A r \in RuleSet : RuleOk(r)
<1>1. \A i \in 1..2 : RuleOk(security_group_rules[i])
  <2>1. \A ft \in {"security_group_world_open_sensitive_port"} :
          Severity(ft) = "high"
    BY SeverityOf DEF HighFindings
  <2>2. \A ft \in {"security_group_overly_permissive"} :
          Severity(ft) = "medium"
    BY SeverityOf DEF HighFindings, LowFindings
  <2> QED BY <2>1, <2>2, RuleIs, RuleAdvice DEF security_group_rules, RuleOk, Aurora
<1>2. \A i \in 1..4 : RuleOk(load_balancer_rules[i])
  <2>1. \A ft \in {"load_balancer_no_healthy_targets",
                    "load_balancer_no_healthy_traffic_path"} :
          Severity(ft) = "high"
    BY SeverityOf DEF HighFindings
  <2>2. \A ft \in {"load_balancer_deletion_protection_disabled",
                    "load_balancer_partial_failure"} :
          Severity(ft) = "medium"
    BY SeverityOf DEF HighFindings, LowFindings
  <2> QED BY <2>1, <2>2, RuleIs, RuleAdvice DEF load_balancer_rules, RuleOk, Aurora
<1>3. \A i \in 1..2 : RuleOk(route_table_rules[i])
  <2>1. \A ft \in {"route_table_public_default_route_review"} :
          Severity(ft) = "medium"
    BY SeverityOf DEF HighFindings, LowFindings
  <2>2. \A ft \in {"route_table_unassociated_review"} :
          Severity(ft) = "low"
    BY SeverityOf DEF LowFindings
  <2> QED BY <2>1, <2>2, RuleIs, RuleAdvice DEF route_table_rules, RuleOk, Aurora
<1>4. \A i \in 1..6 : RuleOk(target_group_rules[i])
  <2>1. \A ft \in {"target_group_unhealthy_targets",
                    "target_group_no_healthy_targets"} :
          Severity(ft) = "high"
    BY SeverityOf DEF HighFindings
  <2>2. \A ft \in {"target_group_no_targets",
                    "target_group_misconfigured_health_check"} :
          Severity(ft) = "medium"
    BY SeverityOf DEF HighFindings, LowFindings
  <2>3. \A ft \in {"target_group_stickiness_disabled",
                    "target_group_slow_deregistration"} :
          Severity(ft) = "low"
    BY SeverityOf DEF LowFindings
  <2> QED BY <2>1, <2>2, <2>3, RuleIs, RuleAdvice DEF target_group_rules, RuleOk, Aurora
<1>5. \A i \in 1..1 : RuleOk(apigateway_rules[i])
  <2>1. \A ft \in {"apigateway_public_exposure_review"} :
          Severity(ft) = "medium"
    BY SeverityOf DEF HighFindings, LowFindings
  <2> QED BY <2>1, RuleIs, RuleAdvice DEF apigateway_rules, RuleOk, Aurora
<1>6. \A i \in 1..2 : RuleOk(eventbridge_rules[i])
  <2>1. \A ft \in {"eventbridge_rule_without_targets"} :
          Severity(ft) = "medium"
    BY SeverityOf DEF HighFindings, LowFindings
  <2>2. \A ft \in {"eventbridge_rule_disabled_review"} :
          Severity(ft) = "low"
    BY SeverityOf DEF LowFindings
  <2> QED BY <2>1, <2>2, RuleIs, RuleAdvice DEF eventbridge_rules, RuleOk, Aurora
<1>7. \A i \in 1..3 : RuleOk(acm_rules[i])
  <2>1. \A ft \in {"acm_certificate_expiring_soon",
                    "acm_certificate_validation_issue"} :
          Severity(ft) = "high"
    BY SeverityOf DEF HighFindings
  <2>2. \A ft \in {"acm_certificate_pending_validation"} :
          Severity(ft) = "medium"
    BY SeverityOf DEF HighFindings, LowFindings
  <2> QED BY <2>1, <2>2, RuleIs, RuleAdvice DEF acm_rules, RuleOk, Aurora
<1>8. \A i \in 1..3 : RuleOk(cloudfront_rules[i])
  <2>1. \A ft \in {"cloudfront_insecure_viewer_protocol_policy"} :
          Severity(ft) = "high"
    BY SeverityOf DEF HighFindings
  <2>2. \A ft \in {"cloudfront_missing_https_redirect"} :
          Severity(ft) = "medium"
    BY SeverityOf DEF HighFindings, LowFindings
  <2>3. \A ft \in {"cloudfront_disabled_distribution_review"} :
          Severity(ft) = "low"
    BY SeverityOf DEF LowFindings
  <2> QED BY <2>1, <2>2, <2>3, RuleIs, RuleAdvice DEF cloudfront_rules, RuleOk, Aurora
<1>9. \A i \in 1..2 : RuleOk(lambda_rules[i])
  <2>1. \A ft \in {"lambda_outdated_runtime"} :
          Severity(ft) = "high"
    BY SeverityOf DEF HighFindings
  <2>2. \A ft \in {"lambda_review_timeout_configuration"} :
          Severity(ft) = "medium"
    BY SeverityOf DEF HighFindings, LowFindings
  <2> QED BY <2>1, <2>2, RuleIs, RuleAdvice DEF lambda_rules, RuleOk, Aurora
<1>10. \A i \in 1..16 : RuleOk(tagging_rules[i])
  <2>2. \A i \in 1..16 : TagRuleTypes[i] \in EXTENDED_TAGGABLE_RESOURCE_TYPES
    BY DEF TagRuleTypes, EXTENDED_TAGGABLE_RESOURCE_TYPES
  <2>3. \A i \in 1..16 : /\ tagging_rules[i].rtype = TagRuleTypes[i]
                          /\ tagging_rules[i].ftype = TagFinding(TagRuleTypes[i])
                          /\ tagging_rules[i].sev = "medium"
                          /\ tagging_rules[i].rec = TagRecommendation(TagRuleTypes[i])
    BY RuleIs DEF tagging_rules, TagRuleTypes
  <2>4. \A rt \in EXTENDED_TAGGABLE_RESOURCE_TYPES :
          /\ Severity(TagFinding(rt)) = "medium"
          /\ TagFinding(rt) \notin {Aurora, "nat_gateway_cost_review_candidate"}
    BY TagFindingAssumption, SeverityOf DEF Aurora, MediumFindings
  <2>5. EXTENDED_TAGGABLE_RESOURCE_TYPES \cap
          {"ec2_instance", "ebs_volume", "rds_instance", "aurora_cluster", "s3_bucket", "waf",
           "lambda_function"} = {}
    BY DEF EXTENDED_TAGGABLE_RESOURCE_TYPES
  <2> QED BY <2>2, <2>3, <2>4, <2>5, TagAdvice DEF RuleOk
<1> QED BY <1>1, <1>2, <1>3, <1>4, <1>5, <1>6, <1>7, <1>8, <1>9, <1>10 DEF RuleSet

\* A rule's finding is made up like a detector's, of what its rule says.
LEMMA RuleFindings ==
  ASSUME NEW S, NEW f \in run_rule_engine(S, rules)
  PROVE  /\ Made(f, "rule")
         /\ f.ftype \in migrated_finding_types(rules)
         /\ \E r : RuleOk(r) /\ r.rtype = f.rtype /\ r.ftype = f.ftype
<1>1. PICK i \in rules : \E s \in OfType(S, AllRules[i].rtype) : f = build_finding_from_rule(AllRules[i], s)
  BY DEF run_rule_engine
<1>2. PICK s \in OfType(S, AllRules[i].rtype) : f = build_finding_from_rule(AllRules[i], s)
  BY <1>1
<1>3. RuleOk(AllRules[i])
  <2>1. i \in DOMAIN AllRules
    BY DEF rules, load_all_rules
  <2> QED BY <2>1, AllRulesAre, AllRulesOk
<1> DEFINE r == AllRules[i]
<1> HIDE DEF r
<1>4. f = [rid |-> s.id, rtype |-> s.type, ftype |-> r.ftype, sev |-> r.sev, ev |-> NULL, by |-> "rule"]
  BY <1>2 DEF build_finding_from_rule, Find, r
<1>5. s.type = r.rtype
  BY <1>2 DEF OfType, r
<1>6. Made(f, "rule")
  BY <1>3, <1>4 DEF Made, RuleOk, r
<1>7. f.ftype \in migrated_finding_types(rules)
  BY <1>4 DEF migrated_finding_types, r
<1> QED BY <1>3, <1>4, <1>5, <1>6, <1>7 DEF r

\* A cost finding is made up, too.
LEMMA CostFindings ==
  /\ \A f \in NatCost : /\ Made(f, "detector") /\ f.rtype = "nat_gateway"
                        /\ f.ftype = "nat_gateway_cost_review_candidate"
  /\ \A f \in WafCost : Made(f, "detector") /\ f.rtype = "waf"
<1>1. /\ Severity("nat_gateway_cost_review_candidate") = "medium"
      /\ Severity("waf_cost_review_candidate") = "medium"
  BY SeverityOf DEF HighFindings, LowFindings
<1> QED BY <1>1 DEF NatCost, WafCost, CostFinding, Made, Aurora

\* What a detector reports no rule reports: the rules are about other resources or
\* other types, and the extended detectors leave out what a loaded rule claims.
LEMMA DetectedApart ==
  ASSUME NEW f \in ToRules
  PROVE  /\ \/ Made(f, "detector")
            \/ f.ftype = Aurora /\ f \in detect_rds_findings(snapshots)
         /\ \A g \in run_rule_engine(snapshots, rules) : Subject(f) # Subject(g)
<1>1. CASE f \in detect_ec2_findings(snapshots)
  BY <1>1, ConfigurationFindings, RuleFindings DEF RuleOk, Subject
<1>2. CASE f \in NatCost
  BY <1>2, CostFindings, RuleFindings DEF RuleOk, Subject
<1>3. CASE f \in WafCost
  BY <1>3, CostFindings, RuleFindings DEF RuleOk, Subject
<1>4. CASE f \in detect_ebs_findings(snapshots)
  BY <1>4, ConfigurationFindings, RuleFindings DEF RuleOk, Subject
<1>5. CASE f \in detect_rds_findings(snapshots)
  BY <1>5, DatabaseFindings, RuleFindings DEF RuleOk, Subject
<1>6. CASE f \in detect_lambda_findings(snapshots)
  BY <1>6, ConfigurationFindings, RuleFindings DEF RuleOk, Subject
<1>7. CASE f \in detect_s3_findings(snapshots)
  BY <1>7, ConfigurationFindings, RuleFindings DEF RuleOk, Subject
<1>8. CASE f \in detect_extended_findings(snapshots, migrated_finding_types(rules))
  <2>1. f \in legacy_extended_findings(snapshots) /\ f.ftype \notin migrated_finding_types(rules)
    BY <1>8 DEF detect_extended_findings
  <2> QED BY <2>1, ExtendedFindings, RuleFindings DEF Subject
<1> QED BY <1>1, <1>2, <1>3, <1>4, <1>5, <1>6, <1>7, <1>8
        DEF ToRules, ToExtended, ToS3, ToLambda, ToRds, ToEbs, ToWaf, ToNat

\* Among all findings of an analysis, the resource and the type tell a finding.
LEMMA SubjectsOnce ==
  ASSUME NEW f \in ToRecommend, NEW g \in ToRecommend, Subject(f) = Subject(g)
  PROVE  f = g
<1>1. f.rid = g.rid /\ f.rtype = g.rtype /\ f.ftype = g.ftype
  BY DEF Subject
<1>2. \A by : Made(f, by) /\ Made(g, by) => f = g
  BY <1>1 DEF Made
<1>3. CASE f \in ToRules /\ g \in ToRules
  <2>1. CASE f.ftype = Aurora
    <3>1. f \in detect_rds_findings(snapshots) /\ g \in detect_rds_findings(snapshots)
      BY <1>1, <1>3, <2>1, DetectedApart DEF Made
    <3> QED BY <1>1, <2>1, <3>1, OneReviewPerKey DEF detect_rds_findings
  <2>2. CASE f.ftype # Aurora
    BY <1>1, <1>2, <1>3, <2>2, DetectedApart
  <2> QED BY <2>1, <2>2
<1>4. CASE f \in run_rule_engine(snapshots, rules) /\ g \in run_rule_engine(snapshots, rules)
  BY <1>2, <1>4, RuleFindings
<1> QED BY <1>3, <1>4, DetectedApart DEF ToRecommend

\* One table of finding rows: findings of this analysis, all of one attempt.
OneAttempt(table) ==
  /\ \A r \in table : r = [finding |-> r.finding, attempt |-> r.attempt] /\ r.finding \in ToRecommend
  /\ \A r, q \in table : r.attempt = q.attempt

AfterClear == AnalyzerStages \ {"clear"}

\* Nothing is found before the inventory is over.  From then on the session and the
\* database each hold findings of one attempt, and past the deletion at its start the
\* session holds those of the attempt that is running.
OnceInv ==
  /\ stage \in InventoryStages => written = {} /\ db.rows = {}
  /\ OneAttempt(written) /\ OneAttempt(db.rows)
  /\ stage \in AfterClear => \A r \in written : r.attempt = crashes

LEMMA StageNames ==
  /\ InventoryStages \cap AnalyzerStages = {}
  /\ "clear" \notin InventoryStages \cup AfterClear
  /\ {"done", "failed"} \cap (InventoryStages \cup AfterClear) = {}
BY DEF InventoryStages, AnalyzerStages, AfterClear

LEMMA EmitOnce ==
  ASSUME OnceInv, NEW at \in AfterClear, NEW next \in AfterClear, NEW found \in SUBSET ToRecommend,
         Emit(at, next, found)
  PROVE  OnceInv'
<1> DEFINE new == {[finding |-> f, attempt |-> crashes] : f \in found}
<1>1. /\ stage = at /\ stage' = next /\ written' = written \cup new
      /\ db' = (IF found = {} THEN db ELSE [rows |-> written', recs |-> recs])
      /\ UNCHANGED <<snapshots, cost, broken, crashes>>
  BY DEF Emit, input
<1>2. ToRecommend' = ToRecommend
  BY <1>1, SameInputSameFindings
<1>3. \A r \in new : /\ r = [finding |-> r.finding, attempt |-> r.attempt]
                     /\ r.finding \in ToRecommend /\ r.attempt = crashes
  OBVIOUS
<1> HIDE DEF new
<1>4. \A r \in written : r.attempt = crashes
  BY <1>1 DEF OnceInv
<1>5. OneAttempt(written)' /\ \A r \in written' : r.attempt = crashes'
  BY <1>1, <1>2, <1>3, <1>4 DEF OnceInv, OneAttempt
<1>6. db'.rows = db.rows \/ db'.rows = written'
  BY <1>1
<1>7. OneAttempt(db.rows)'
  BY <1>2, <1>5, <1>6 DEF OnceInv, OneAttempt
<1>8. stage' \notin InventoryStages
  BY <1>1, StageNames DEF AfterClear
<1> QED BY <1>5, <1>7, <1>8 DEF OnceInv

\* A step that writes no finding row.
LEMMA KeepOnce ==
  ASSUME OnceInv, UNCHANGED <<snapshots, cost, broken>>,
         written' \in {written, {}, db.rows}, db'.rows \in {db.rows, written},
         stage' \in AfterClear => written' = {},
         stage' \in InventoryStages => stage \in InventoryStages
  PROVE  OnceInv'
<1>1. ToRecommend' = ToRecommend
  BY SameInputSameFindings
<1>2. OneAttempt(written)' /\ OneAttempt(db.rows)'
  BY <1>1 DEF OnceInv, OneAttempt
<1>3. stage' \in InventoryStages => written' = {} /\ db'.rows = {}
  BY DEF OnceInv
<1>4. stage' \in AfterClear => \A r \in written' : r.attempt = crashes'
  OBVIOUS
<1> QED BY <1>2, <1>3, <1>4 DEF OnceInv

LEMMA InventoryOnce ==
  ASSUME OnceInv,
         \/ ingest_ec2 \/ ingest_ebs \/ ingest_rds \/ ingest_lambda \/ ingest_s3
         \/ fetch_all_extended \/ ingest_extended_batch \/ InventoryDone
  PROVE  OnceInv'
<1>1. stage \in InventoryStages /\ UNCHANGED <<written, db>>
  BY DEF ingest_ec2, ingest_ebs, ingest_rds, ingest_lambda, ingest_s3, IngestOne, Ingest,
         fetch_all_extended, ingest_extended_batch, InventoryDone, InventoryStages
<1>2. written' = {} /\ db'.rows = {}
  BY <1>1 DEF OnceInv
<1> QED BY <1>2 DEF OnceInv, OneAttempt

LEMMA CostFindingFewer ==
  ASSUME NEW amount, NEW rtype, NEW ftype, NEW existing
  PROVE  CostFinding(snapshots, amount, rtype, ftype, existing)
           \subseteq CostFinding(snapshots, amount, rtype, ftype, {})
BY DEF CostFinding

LEMMA OnceNext == OnceInv /\ [AnalysisNext]_analysisVars => OnceInv'
<1> SUFFICES ASSUME OnceInv, [AnalysisNext]_analysisVars PROVE OnceInv'
  OBVIOUS
<1>1. {"detect_ec2", "nat", "waf", "detect_ebs", "detect_rds", "detect_lambda", "detect_s3",
       "detect_extended", "rules", "recommend"} \subseteq AfterClear
  BY DEF AfterClear, AnalyzerStages
<1>2. /\ ToNat \in SUBSET ToRecommend /\ NatCost \in SUBSET ToRecommend /\ WafCost \in SUBSET ToRecommend
      /\ detect_ebs_findings(snapshots) \in SUBSET ToRecommend
      /\ detect_rds_findings(snapshots) \in SUBSET ToRecommend
      /\ detect_lambda_findings(snapshots) \in SUBSET ToRecommend
      /\ detect_s3_findings(snapshots) \in SUBSET ToRecommend
      /\ detect_extended_findings(snapshots, migrated_finding_types(rules)) \in SUBSET ToRecommend
      /\ run_rule_engine(snapshots, rules) \in SUBSET ToRecommend
  BY DEF ToRecommend, ToRules, ToExtended, ToS3, ToLambda, ToRds, ToEbs, ToWaf
<1>3. CASE \/ ingest_ec2 \/ ingest_ebs \/ ingest_rds \/ ingest_lambda \/ ingest_s3
           \/ fetch_all_extended \/ ingest_extended_batch \/ InventoryDone
  BY <1>3, InventoryOnce
<1>4. CASE clear_run
  BY <1>4, <1>1, KeepOnce, StageNames DEF clear_run, input, AfterClear
<1>5. CASE detect_ec2
  BY <1>5, <1>1, <1>2, EmitOnce DEF detect_ec2, ToNat
<1>6. CASE detect_nat_cost
  BY <1>6, <1>1, <1>2, EmitOnce, CostFindingFewer DEF detect_nat_cost, NatCost
<1>7. CASE detect_waf_cost
  BY <1>7, <1>1, <1>2, EmitOnce, CostFindingFewer DEF detect_waf_cost, WafCost
<1>8. CASE detect_ebs
  BY <1>8, <1>1, <1>2, EmitOnce DEF detect_ebs
<1>9. CASE detect_rds
  BY <1>9, <1>1, <1>2, EmitOnce DEF detect_rds
<1>10. CASE detect_lambda
  BY <1>10, <1>1, <1>2, EmitOnce DEF detect_lambda
<1>11. CASE detect_s3
  BY <1>11, <1>1, <1>2, EmitOnce DEF detect_s3
<1>12. CASE detect_extended
  BY <1>12, <1>1, <1>2, EmitOnce DEF detect_extended
<1>13. CASE detect_extended_raises
  BY <1>13, KeepOnce, StageNames DEF detect_extended_raises, input
<1>14. CASE evaluate_rules
  BY <1>14, <1>1, <1>2, EmitOnce DEF evaluate_rules
<1>15. CASE generate_recommendations
  BY <1>15, KeepOnce, StageNames DEF generate_recommendations, input
<1>16. CASE Restart
  <2>1. stage' \notin AfterClear
    BY <1>16, StageNames DEF Restart, AfterClear, AnalyzerStages
  <2>2. stage' \in InventoryStages => stage \in InventoryStages
    BY <1>16, StageNames DEF Restart
  <2> QED BY <1>16, <2>1, <2>2, KeepOnce DEF Restart, input
<1>17. CASE UNCHANGED analysisVars
  <2>1. UNCHANGED <<stage, snapshots, cost, broken, written, db, crashes>>
    BY <1>17 DEF analysisVars, input
  <2>2. ToRecommend' = ToRecommend
    BY <2>1, SameInputSameFindings
  <2> QED BY <2>1, <2>2 DEF OnceInv, OneAttempt
<1>18. CASE NextSync
  <2>1. written' = {} /\ db'.rows = {} /\ stage' = "ec2"
    BY <1>18 DEF NextSync
  <2> QED BY <2>1, StageNames DEF OnceInv, OneAttempt, AfterClear, AnalyzerStages
<1> QED BY <1>3, <1>4, <1>5, <1>6, <1>7, <1>8, <1>9, <1>10, <1>11, <1>12, <1>13, <1>14, <1>15, <1>16, <1>17, <1>18
        DEF AnalysisNext

\* Whatever was detected twice, by a hard-coded detector and a rule or by two attempts
\* of the task, is one finding row: the detectors and the loaded rules never report the
\* same type of the same resource, and a committed table is of one attempt.
THEOREM NoDuplicateFindingHolds == AnalysisSpec => []NoDuplicateFinding
<1>1. AnalysisInit => OnceInv
  BY DEF AnalysisInit, OnceInv, OneAttempt
<1>2. OnceInv => NoDuplicateFinding
  <2> SUFFICES ASSUME OnceInv, NEW r \in db.rows, NEW q \in db.rows, Subject(r.finding) = Subject(q.finding)
               PROVE  r = q
    BY DEF NoDuplicateFinding
  <2>1. /\ r = [finding |-> r.finding, attempt |-> r.attempt] /\ r.finding \in ToRecommend
        /\ q = [finding |-> q.finding, attempt |-> q.attempt] /\ q.finding \in ToRecommend
        /\ r.attempt = q.attempt
    BY DEF OnceInv, OneAttempt
  <2>2. r.finding = q.finding
    BY <2>1, SubjectsOnce
  <2> QED BY <2>1, <2>2
<1> QED BY <1>1, <1>2, OnceNext, PTL DEF AnalysisSpec

------------------------------------------------------------------------------
(* One key for a recommendation *)

\* The table entry of a finding type is the advice every table has for it.
LEMMA AdviceFound ==
  ASSUME NEW ft, NEW rec, AdviceFor(ft, rec)
  PROVE  ft \in DOMAIN legacy_advice /\ legacy_advice[ft].rec = rec
<1>1. ft \in DOMAIN legacy_advice
  BY DEF AdviceFor, legacy_advice
<1> DEFINE t == CHOOSE t \in advice_tables : ft \in DOMAIN t
<1>2. t \in advice_tables /\ ft \in DOMAIN t
  BY DEF AdviceFor
<1>3. legacy_advice[ft] = t[ft]
  BY <1>1 DEF legacy_advice
<1> HIDE DEF t
<1> QED BY <1>1, <1>2, <1>3 DEF AdviceFor

\* Whichever rules are loaded, the recommendation on a finding has the key that the
\* tables give it.
LEMMA OneKey ==
  ASSUME NEW f, NEW loaded \in SUBSET DOMAIN AllRules,
         f.ftype \in RECOMMENDATION_SOURCE_FINDING_TYPES \ {Aurora}
  PROVE  {recommendation_key(c) : c \in build_recommendation_for_finding(f, loaded)}
           = {<<f.rid, f.ftype, legacy_advice[f.ftype].rec>>}
<1> DEFINE claimed == rules_for_finding(loaded, f.ftype)
           byRule(r) == Recommendation(f, Advice(r.rec, r.sev, r.conf), r.cat)
           byTable(a) == Recommendation(f, a, recommendation_category_for_type(a.rec))
<1>1. \A a, cat : recommendation_key(Recommendation(f, a, cat)) = <<f.rid, f.ftype, a.rec>>
  BY DEF recommendation_key, Recommendation
<1>2. \A i \in claimed : AllRules[i].rec = legacy_advice[f.ftype].rec
  <2>1. \A i \in claimed : i \in DOMAIN AllRules /\ AllRules[i].ftype = f.ftype
    BY DEF rules_for_finding
  <2>2. \A i \in DOMAIN AllRules : RuleOk(AllRules[i])
    BY AllRulesAre, AllRulesOk
  <2> QED BY <2>1, <2>2, AdviceFound DEF RuleOk
<1>3. f.ftype \in DOMAIN legacy_advice /\ f.ftype # Aurora
  BY DEF RECOMMENDATION_SOURCE_FINDING_TYPES, Aurora
<1>4. build_recommendation_for_finding(f, loaded)
        = IF claimed # {} THEN {byRule(AllRules[i]) : i \in claimed} ELSE {byTable(legacy_advice[f.ftype])}
  BY <1>3 DEF build_recommendation_for_finding, Aurora
<1>5. \A i \in claimed : recommendation_key(byRule(AllRules[i])) = <<f.rid, f.ftype, legacy_advice[f.ftype].rec>>
  BY <1>1, <1>2, AdviceIs
<1>6. recommendation_key(byTable(legacy_advice[f.ftype])) = <<f.rid, f.ftype, legacy_advice[f.ftype].rec>>
  BY <1>1
<1> HIDE DEF claimed, byRule, byTable
<1> QED BY <1>4, <1>5, <1>6

\* Every finding that recommendations are made of gets one, under a key that does not
\* depend on whether a rule or the table made it (_build_recommendation_for_finding,
\* _recommendation_key): the rule files and the tables agree on every type both have.
THEOREM StableIdentityHolds == AnalysisSpec => []StableIdentity
<1>1. AnalysisInit => StageInv
  BY DEF AnalysisInit, StageInv, InventoryStages
<1>2. StageInv => StableIdentity
  <2> SUFFICES ASSUME StageInv, stage = "done", NEW r \in db.rows,
                      r.finding.ftype \in RECOMMENDATION_SOURCE_FINDING_TYPES \ {Aurora}
               PROVE  LET keys(loaded) == {recommendation_key(c) :
                                             c \in build_recommendation_for_finding(r.finding, loaded)}
                      IN  /\ Cardinality(keys(rules)) = 1
                          /\ keys(rules) \subseteq {recommendation_key(c) : c \in db.recs}
                          /\ keys(rules) = keys(load_all_rules(NULL))
    BY DEF StableIdentity, Aurora
  <2> DEFINE f == r.finding
             keys(loaded) == {recommendation_key(c) : c \in build_recommendation_for_finding(f, loaded)}
             key == <<f.rid, f.ftype, legacy_advice[f.ftype].rec>>
  <2>1. rules \in SUBSET DOMAIN AllRules /\ load_all_rules(NULL) \in SUBSET DOMAIN AllRules
    BY DEF rules, load_all_rules
  <2>2. keys(rules) = {key} /\ keys(load_all_rules(NULL)) = {key}
    BY <2>1, OneKey
  <2>3. Cardinality({key}) = 1
    BY FS_Singleton
  <2>4. build_recommendation_for_finding(f, rules) \subseteq db.recs
    <3>1. f \in ToRecommend /\ db.recs = recommendation_candidates(ToRecommend, rules)
      BY DEF StageInv
    <3>2. f \in dedupe_aurora_serverless_review_findings(ToRecommend)
      BY <3>1, DedupeKeeps DEF Aurora
    <3> QED BY <3>1, <3>2 DEF recommendation_candidates
  <2>5. keys(rules) \subseteq {recommendation_key(c) : c \in db.recs}
    BY <2>4
  <2> HIDE DEF key, f
  <2> QED BY <2>2, <2>3, <2>5 DEF f
<1> QED BY <1>1, <1>2, StageNext, PTL DEF AnalysisSpec

------------------------------------------------------------------------------
(* A rule agrees with the detector it replaced *)

\* What the condition of one field asks.
LEMMA CondIs ==
  ASSUME NEW s, NEW field, NEW value
  PROVE  /\ eval_one(Cond("startswith_any", field, value), s) <=> (Get(s, field) \in value)
         /\ eval_one(Cond("in", field, value), s) <=> (Get(s, field) \in value)
         /\ eval_one(Cond("days_until_lte", field, value), s) <=> (Get(s, field) # NULL /\ Get(s, field) <= value)
         /\ eval_one(Cond("days_until_gt", field, value), s) <=> (Get(s, field) # NULL /\ Get(s, field) > value)
         /\ eval_one(Cond("exists", field, value), s) <=> (Get(s, field) # NULL)
         /\ eval_one(Cond("bool_true", field, value), s) <=> Truthy(s, field)
         /\ eval_one(Cond("bool_false", field, value), s) <=> ~Truthy(s, field)
         /\ eval_one(Cond("eq", field, value), s) <=> (Get(s, field) = value)
         /\ eval_one(Cond("eq_zero", field, value), s) <=> (Get(s, field) \in {NULL, 0})
         /\ eval_one(Cond("neq", field, value), s) <=> (Get(s, field) # value)
         /\ eval_one(Cond("gt", field, value), s) <=> (Get(s, field) # NULL /\ Get(s, field) > value)
         /\ eval_one(Cond("gte", field, value), s) <=> (Get(s, field) # NULL /\ Get(s, field) >= value)
<1> DEFINE chosen(c) == CHOOSE f \in c.fields : TRUE
<1>1. \A op : /\ Cond(op, field, value).op = op /\ Cond(op, field, value).value = value
              /\ Cond(op, field, value).fields = {field}
  BY DEF Cond
<1>2. \A c : c.fields = {field} => chosen(c) = field
  OBVIOUS
<1>3. \A c : /\ c.op = "startswith_any" => (eval_one(c, s) <=> (Get(s, chosen(c)) \in c.value))
             /\ c.op = "in" => (eval_one(c, s) <=> (Get(s, chosen(c)) \in c.value))
             /\ c.op = "days_until_lte" => (eval_one(c, s) <=> (Get(s, chosen(c)) # NULL /\ Get(s, chosen(c)) <= c.value))
             /\ c.op = "days_until_gt" => (eval_one(c, s) <=> (Get(s, chosen(c)) # NULL /\ Get(s, chosen(c)) > c.value))
             /\ c.op = "exists" => (eval_one(c, s) <=> (Get(s, chosen(c)) # NULL))
  BY DEF eval_one, eq, eq_zero
<1>4. \A c : /\ c.op = "bool_true" => (eval_one(c, s) <=> Truthy(s, chosen(c)))
             /\ c.op = "bool_false" => (eval_one(c, s) <=> ~Truthy(s, chosen(c)))
             /\ c.op = "eq" => (eval_one(c, s) <=> (Get(s, chosen(c)) = c.value))
             /\ c.op = "eq_zero" => (eval_one(c, s) <=> (Get(s, chosen(c)) \in {NULL, 0}))
             /\ c.op = "neq" => (eval_one(c, s) <=> (Get(s, chosen(c)) # c.value))
  BY DEF eval_one, eq, eq_zero
<1>5. \A c : /\ c.op = "gt" => (eval_one(c, s) <=> (Get(s, chosen(c)) # NULL /\ Get(s, chosen(c)) > c.value))
             /\ c.op = "gte" => (eval_one(c, s) <=> (Get(s, chosen(c)) # NULL /\ Get(s, chosen(c)) >= c.value))
  BY DEF eval_one, eq, eq_zero
<1> HIDE DEF chosen
<1> QED BY <1>1, <1>2, <1>3, <1>4, <1>5

LEMMA CondAllIs ==
  ASSUME NEW s, NEW fields
  PROVE  /\ eval_one(CondAll("any_tag_missing", fields), s) <=> (\E t \in fields : t \notin s.tags)
         /\ eval_one(CondAll("any_bool_true", fields), s) <=> (\E f \in fields : Truthy(s, f))
         /\ eval_one(CondAll("all_bool_false", fields), s) <=> (\A f \in fields : ~Truthy(s, f))
BY DEF eval_one, CondAll

\* A rule asks all of its conditions.
LEMMA CondsAre ==
  ASSUME NEW r, NEW s, NEW a, NEW b, NEW c, NEW d
  PROVE  /\ r.conds = <<a>> => (evaluate_conditions(r, s) <=> eval_one(a, s))
         /\ r.conds = <<a, b>> => (evaluate_conditions(r, s) <=> eval_one(a, s) /\ eval_one(b, s))
         /\ r.conds = <<a, b, c>> =>
              (evaluate_conditions(r, s) <=> eval_one(a, s) /\ eval_one(b, s) /\ eval_one(c, s))
         /\ r.conds = <<a, b, c, d>> =>
              (evaluate_conditions(r, s) <=>
                 eval_one(a, s) /\ eval_one(b, s) /\ eval_one(c, s) /\ eval_one(d, s))
BY DEF evaluate_conditions

\* The finding types of each extended detector.
LEMMA DetectorTypes ==
  ASSUME NEW S
  PROVE  /\ \A f \in tag_findings(S) : \E rt \in EXTENDED_TAGGABLE_RESOURCE_TYPES : f.ftype = TagFinding(rt)
         /\ \A f \in acm_expiry_findings(S) : f.ftype \in {"acm_certificate_expiring_soon"}
         /\ \A f \in cloudfront_findings(S) : f.ftype \in {"cloudfront_insecure_viewer_protocol_policy",
                                                     "cloudfront_missing_https_redirect",
                                                     "cloudfront_disabled_distribution_review"}
         /\ \A f \in security_group_findings(S) : f.ftype \in {"security_group_world_open_sensitive_port",
                                                         "security_group_overly_permissive"}
         /\ \A f \in load_balancer_findings(S) : f.ftype \in {"load_balancer_deletion_protection_disabled",
                                                        "load_balancer_no_healthy_targets",
                                                        "load_balancer_no_healthy_traffic_path",
                                                        "load_balancer_partial_failure"}
         /\ \A f \in load_balancer_unused_findings(S) : f.ftype \in {"load_balancer_unused"}
         /\ \A f \in route_table_findings(S) : f.ftype \in {"route_table_unassociated_review",
                                                      "route_table_public_default_route_review"}
         /\ \A f \in target_group_findings(S) : f.ftype \in {"target_group_no_targets",
                                                       "target_group_unhealthy_targets",
                                                       "target_group_misconfigured_health_check",
                                                       "target_group_no_healthy_targets"}
         /\ \A f \in target_group_tuning_findings(S) : f.ftype \in {"target_group_stickiness_disabled",
                                                              "target_group_slow_deregistration"}
         /\ \A f \in exposure_findings(S) : f.ftype \in {"public_subnet_with_open_sg",
                                                   "internet_exposed_resource_chain"}
         /\ \A f \in apigateway_findings(S) : f.ftype \in {"apigateway_public_exposure_review"}
         /\ \A f \in eventbridge_findings(S) : f.ftype \in {"eventbridge_rule_without_targets",
                                                      "eventbridge_rule_disabled_review"}
         /\ \A f \in ses_findings(S) : f.ftype \in {"ses_identity_unverified",
                                              "ses_sending_disabled_identity"}
         /\ \A f \in acm_status_findings(S) : f.ftype \in {"acm_certificate_pending_validation",
                                                     "acm_certificate_validation_issue"}
         /\ \A f \in lambda_runtime_findings(S) : f.ftype \in {"lambda_outdated_runtime",
                                                         "lambda_review_timeout_configuration"}
         /\ \A f \in slow_query_findings(S) : f.ftype \in {"rds_parameter_group_slow_query_disabled"}
         /\ \A f \in kms_findings(S) : f.ftype \in {"kms_key_rotation_disabled"}
         /\ \A f \in log_group_findings(S) : f.ftype \in {"cloudwatch_log_group_no_retention_policy",
                                                    "rds_parameter_group_general_log_enabled"}
<1>1. \A f \in tag_findings(S) : \E rt \in EXTENDED_TAGGABLE_RESOURCE_TYPES : f.ftype = TagFinding(rt)
  BY DEF tag_findings, Each, Find
<1>2. \A f \in acm_expiry_findings(S) : f.ftype \in {"acm_certificate_expiring_soon"}
  BY DEF acm_expiry_findings, Each, Find
<1>3. \A f \in cloudfront_findings(S) : f.ftype \in {"cloudfront_insecure_viewer_protocol_policy",
                                               "cloudfront_missing_https_redirect",
                                               "cloudfront_disabled_distribution_review"}
  BY DEF cloudfront_findings, Each, Find
<1>4. \A f \in security_group_findings(S) : f.ftype \in {"security_group_world_open_sensitive_port",
                                                   "security_group_overly_permissive"}
  BY DEF security_group_findings, Each, Find
<1>5. \A f \in load_balancer_findings(S) : f.ftype \in {"load_balancer_deletion_protection_disabled",
                                                  "load_balancer_no_healthy_targets",
                                                  "load_balancer_no_healthy_traffic_path",
                                                  "load_balancer_partial_failure"}
  BY DEF load_balancer_findings, Each, Find
<1>6. \A f \in load_balancer_unused_findings(S) : f.ftype \in {"load_balancer_unused"}
  BY DEF load_balancer_unused_findings, Each, Find
<1>7. \A f \in route_table_findings(S) : f.ftype \in {"route_table_unassociated_review",
                                                "route_table_public_default_route_review"}
  BY DEF route_table_findings, Each, Find
<1>8. \A f \in target_group_findings(S) : f.ftype \in {"target_group_no_targets",
                                                 "target_group_unhealthy_targets",
                                                 "target_group_misconfigured_health_check",
                                                 "target_group_no_healthy_targets"}
  BY DEF target_group_findings, Each, Find
<1>9. \A f \in target_group_tuning_findings(S) : f.ftype \in {"target_group_stickiness_disabled",
                                                        "target_group_slow_deregistration"}
  BY DEF target_group_tuning_findings, Each, Find
<1>10. \A f \in exposure_findings(S) : f.ftype \in {"public_subnet_with_open_sg",
                                             "internet_exposed_resource_chain"}
  BY DEF exposure_findings, Each, Find
<1>11. \A f \in apigateway_findings(S) : f.ftype \in {"apigateway_public_exposure_review"}
  BY DEF apigateway_findings, Each, Find
<1>12. \A f \in eventbridge_findings(S) : f.ftype \in {"eventbridge_rule_without_targets",
                                                "eventbridge_rule_disabled_review"}
  BY DEF eventbridge_findings, Each, Find
<1>13. \A f \in ses_findings(S) : f.ftype \in {"ses_identity_unverified", "ses_sending_disabled_identity"}
  BY DEF ses_findings, Each, Find
<1>14. \A f \in acm_status_findings(S) : f.ftype \in {"acm_certificate_pending_validation",
                                               "acm_certificate_validation_issue"}
  BY DEF acm_status_findings, Each, Find
<1>15. \A f \in lambda_runtime_findings(S) : f.ftype \in {"lambda_outdated_runtime",
                                                   "lambda_review_timeout_configuration"}
  BY DEF lambda_runtime_findings, Each, Find
<1>16. \A f \in slow_query_findings(S) : f.ftype \in {"rds_parameter_group_slow_query_disabled"}
  BY DEF slow_query_findings, Each, Find
<1>17. \A f \in kms_findings(S) : f.ftype \in {"kms_key_rotation_disabled"}
  BY DEF kms_findings, Each, Find
<1>18. \A f \in log_group_findings(S) : f.ftype \in {"cloudwatch_log_group_no_retention_policy",
                                              "rds_parameter_group_general_log_enabled"}
  BY DEF log_group_findings, Each, Find
<1> QED BY <1>1, <1>2, <1>3, <1>4, <1>5, <1>6, <1>7, <1>8, <1>9, <1>10, <1>11, <1>12, <1>13, <1>14, <1>15, <1>16, <1>17, <1>18

\* The findings of a type, and what a rule finds.
LegacyOf(S, ft) == {f \in legacy_extended_findings(S) : f.ftype = ft}
RuleFinds(r, S) == {Find(s, r.ftype, r.sev) : s \in {q \in OfType(S, r.rtype) : evaluate_conditions(r, q)}}

\* A type with a name of its own has one detector.
LEMMA OneDetector ==
  ASSUME NEW S
  PROVE  /\ \A ft \in {"security_group_world_open_sensitive_port",
                     "security_group_overly_permissive"} :
           LegacyOf(S, ft) = {f \in security_group_findings(S) : f.ftype = ft}
         /\ \A ft \in {"load_balancer_deletion_protection_disabled",
                     "load_balancer_no_healthy_targets", "load_balancer_no_healthy_traffic_path",
                     "load_balancer_partial_failure"} :
           LegacyOf(S, ft) = {f \in load_balancer_findings(S) : f.ftype = ft}
         /\ \A ft \in {"route_table_unassociated_review", "route_table_public_default_route_review"} :
           LegacyOf(S, ft) = {f \in route_table_findings(S) : f.ftype = ft}
         /\ \A ft \in {"target_group_no_targets", "target_group_unhealthy_targets",
                     "target_group_misconfigured_health_check", "target_group_no_healthy_targets"} :
           LegacyOf(S, ft) = {f \in target_group_findings(S) : f.ftype = ft}
         /\ \A ft \in {"target_group_stickiness_disabled", "target_group_slow_deregistration"} :
           LegacyOf(S, ft) = {f \in target_group_tuning_findings(S) : f.ftype = ft}
         /\ \A ft \in {"eventbridge_rule_without_targets", "eventbridge_rule_disabled_review"} :
           LegacyOf(S, ft) = {f \in eventbridge_findings(S) : f.ftype = ft}
         /\ \A ft \in {"acm_certificate_expiring_soon"} :
           LegacyOf(S, ft) = {f \in acm_expiry_findings(S) : f.ftype = ft}
         /\ \A ft \in {"acm_certificate_pending_validation", "acm_certificate_validation_issue"} :
           LegacyOf(S, ft) = {f \in acm_status_findings(S) : f.ftype = ft}
         /\ \A ft \in {"cloudfront_insecure_viewer_protocol_policy",
                     "cloudfront_missing_https_redirect",
                     "cloudfront_disabled_distribution_review"} :
           LegacyOf(S, ft) = {f \in cloudfront_findings(S) : f.ftype = ft}
         /\ \A ft \in {"lambda_outdated_runtime", "lambda_review_timeout_configuration"} :
           LegacyOf(S, ft) = {f \in lambda_runtime_findings(S) : f.ftype = ft}
<1>1. \A ft \in {"security_group_world_open_sensitive_port", "security_group_overly_permissive"} :
        LegacyOf(S, ft) = {f \in security_group_findings(S) : f.ftype = ft}
  <2>1. \A ft \in {"security_group_world_open_sensitive_port", "security_group_overly_permissive"} :
          \A rt \in EXTENDED_TAGGABLE_RESOURCE_TYPES : ft # TagFinding(rt)
    BY TagFindingAssumption DEF HighFindings, MediumFindings, LowFindings
  <2> QED BY <2>1, DetectorTypes DEF LegacyOf, legacy_extended_findings
<1>2. \A ft \in {"load_balancer_deletion_protection_disabled",
                    "load_balancer_no_healthy_targets", "load_balancer_no_healthy_traffic_path",
                    "load_balancer_partial_failure"} :
        LegacyOf(S, ft) = {f \in load_balancer_findings(S) : f.ftype = ft}
  <2>1. \A ft \in {"load_balancer_deletion_protection_disabled",
                    "load_balancer_no_healthy_targets", "load_balancer_no_healthy_traffic_path",
                    "load_balancer_partial_failure"} :
          \A rt \in EXTENDED_TAGGABLE_RESOURCE_TYPES : ft # TagFinding(rt)
    BY TagFindingAssumption DEF HighFindings, MediumFindings, LowFindings
  <2> QED BY <2>1, DetectorTypes DEF LegacyOf, legacy_extended_findings
<1>3. \A ft \in {"route_table_unassociated_review", "route_table_public_default_route_review"} :
        LegacyOf(S, ft) = {f \in route_table_findings(S) : f.ftype = ft}
  <2>1. \A ft \in {"route_table_unassociated_review", "route_table_public_default_route_review"} :
          \A rt \in EXTENDED_TAGGABLE_RESOURCE_TYPES : ft # TagFinding(rt)
    BY TagFindingAssumption DEF HighFindings, MediumFindings, LowFindings
  <2> QED BY <2>1, DetectorTypes DEF LegacyOf, legacy_extended_findings
<1>4. \A ft \in {"target_group_no_targets", "target_group_unhealthy_targets",
                    "target_group_misconfigured_health_check", "target_group_no_healthy_targets"} :
        LegacyOf(S, ft) = {f \in target_group_findings(S) : f.ftype = ft}
  <2>1. \A ft \in {"target_group_no_targets", "target_group_unhealthy_targets",
                    "target_group_misconfigured_health_check", "target_group_no_healthy_targets"} :
          \A rt \in EXTENDED_TAGGABLE_RESOURCE_TYPES : ft # TagFinding(rt)
    BY TagFindingAssumption DEF HighFindings, MediumFindings, LowFindings
  <2> QED BY <2>1, DetectorTypes DEF LegacyOf, legacy_extended_findings
<1>5. \A ft \in {"target_group_stickiness_disabled", "target_group_slow_deregistration"} :
        LegacyOf(S, ft) = {f \in target_group_tuning_findings(S) : f.ftype = ft}
  <2>1. \A ft \in {"target_group_stickiness_disabled", "target_group_slow_deregistration"} :
          \A rt \in EXTENDED_TAGGABLE_RESOURCE_TYPES : ft # TagFinding(rt)
    BY TagFindingAssumption DEF HighFindings, MediumFindings, LowFindings
  <2> QED BY <2>1, DetectorTypes DEF LegacyOf, legacy_extended_findings
<1>6. \A ft \in {"eventbridge_rule_without_targets", "eventbridge_rule_disabled_review"} :
        LegacyOf(S, ft) = {f \in eventbridge_findings(S) : f.ftype = ft}
  <2>1. \A ft \in {"eventbridge_rule_without_targets", "eventbridge_rule_disabled_review"} :
          \A rt \in EXTENDED_TAGGABLE_RESOURCE_TYPES : ft # TagFinding(rt)
    BY TagFindingAssumption DEF HighFindings, MediumFindings, LowFindings
  <2> QED BY <2>1, DetectorTypes DEF LegacyOf, legacy_extended_findings
<1>7. \A ft \in {"acm_certificate_expiring_soon"} :
        LegacyOf(S, ft) = {f \in acm_expiry_findings(S) : f.ftype = ft}
  <2>1. \A ft \in {"acm_certificate_expiring_soon"} :
          \A rt \in EXTENDED_TAGGABLE_RESOURCE_TYPES : ft # TagFinding(rt)
    BY TagFindingAssumption DEF HighFindings, MediumFindings, LowFindings
  <2> QED BY <2>1, DetectorTypes DEF LegacyOf, legacy_extended_findings
<1>8. \A ft \in {"acm_certificate_pending_validation", "acm_certificate_validation_issue"} :
        LegacyOf(S, ft) = {f \in acm_status_findings(S) : f.ftype = ft}
  <2>1. \A ft \in {"acm_certificate_pending_validation", "acm_certificate_validation_issue"} :
          \A rt \in EXTENDED_TAGGABLE_RESOURCE_TYPES : ft # TagFinding(rt)
    BY TagFindingAssumption DEF HighFindings, MediumFindings, LowFindings
  <2> QED BY <2>1, DetectorTypes DEF LegacyOf, legacy_extended_findings
<1>9. \A ft \in {"cloudfront_insecure_viewer_protocol_policy",
                    "cloudfront_missing_https_redirect", "cloudfront_disabled_distribution_review"} :
        LegacyOf(S, ft) = {f \in cloudfront_findings(S) : f.ftype = ft}
  <2>1. \A ft \in {"cloudfront_insecure_viewer_protocol_policy",
                    "cloudfront_missing_https_redirect", "cloudfront_disabled_distribution_review"} :
          \A rt \in EXTENDED_TAGGABLE_RESOURCE_TYPES : ft # TagFinding(rt)
    BY TagFindingAssumption DEF HighFindings, MediumFindings, LowFindings
  <2> QED BY <2>1, DetectorTypes DEF LegacyOf, legacy_extended_findings
<1>10. \A ft \in {"lambda_outdated_runtime", "lambda_review_timeout_configuration"} :
        LegacyOf(S, ft) = {f \in lambda_runtime_findings(S) : f.ftype = ft}
  <2>1. \A ft \in {"lambda_outdated_runtime", "lambda_review_timeout_configuration"} :
          \A rt \in EXTENDED_TAGGABLE_RESOURCE_TYPES : ft # TagFinding(rt)
    BY TagFindingAssumption DEF HighFindings, MediumFindings, LowFindings
  <2> QED BY <2>1, DetectorTypes DEF LegacyOf, legacy_extended_findings
<1> QED BY <1>1, <1>2, <1>3, <1>4, <1>5, <1>6, <1>7, <1>8, <1>9, <1>10

\* On the snapshots S a rule finds what the detector of its finding type finds.
Agrees(r, S) == RuleFinds(r, S) = LegacyOf(S, r.ftype)

\* The collector of CloudFront always writes whether a distribution is enabled.
EnabledKnown(S) == \A s \in OfType(S, "cloudfront_distribution") : Get(s, "enabled") \in BOOLEAN

LEMMA SecurityGroupRulesAgree ==
  ASSUME NEW S
  PROVE  \A i \in 1..2 : Agrees(security_group_rules[i], S)
<1>1. Agrees(security_group_rules[1], S)
  <2> DEFINE r == security_group_rules[1]
  <2>1. r.rtype = "security_group" /\ r.ftype = "security_group_world_open_sensitive_port" /\ r.sev = "high"
    BY DEF security_group_rules, Rule
  <2>2. r.conds = <<CondAll("any_bool_true", WorldOpenFields)>>
    BY DEF security_group_rules, Rule
  <2> HIDE DEF r
  <2>3. \A s : evaluate_conditions(r, s) <=>
          (\E f \in WorldOpenFields : Truthy(s, f))
    BY <2>2, CondsAre, CondIs, CondAllIs
  <2>4. \A s \in OfType(S, "security_group") : evaluate_conditions(r, s) <=>
          WorldOpen(s)
    BY <2>3 DEF WorldOpen, WorldOpenFields
  <2>5. RuleFinds(r, S) = {f \in security_group_findings(S) : f.ftype = r.ftype}
    BY <2>1, <2>4 DEF RuleFinds, security_group_findings, Each, Find
  <2>6. LegacyOf(S, r.ftype) = {f \in security_group_findings(S) : f.ftype = r.ftype}
    BY <2>1, OneDetector
  <2> QED BY <2>5, <2>6 DEF Agrees, r
<1>2. Agrees(security_group_rules[2], S)
  <2> DEFINE r == security_group_rules[2]
  <2>1. r.rtype = "security_group" /\ r.ftype = "security_group_overly_permissive" /\ r.sev = "medium"
    BY DEF security_group_rules, Rule
  <2>2. r.conds = <<Cond("gte", "ingress_rule_count", 8),
                   CondAll("all_bool_false", WorldOpenFields)>>
    BY DEF security_group_rules, Rule
  <2> HIDE DEF r
  <2>3. \A s : evaluate_conditions(r, s) <=>
          /\ Get(s, "ingress_rule_count") # NULL /\ Get(s, "ingress_rule_count") >= 8
          /\ (\A f \in WorldOpenFields : ~Truthy(s, f))
    BY <2>2, CondsAre, CondIs, CondAllIs
  <2>4. \A s \in OfType(S, "security_group") : evaluate_conditions(r, s) <=>
          ~WorldOpen(s) /\ IntOr(s, "ingress_rule_count", 0) >= 8
    BY <2>3 DEF IntOr, WorldOpen, WorldOpenFields
  <2>5. RuleFinds(r, S) = {f \in security_group_findings(S) : f.ftype = r.ftype}
    BY <2>1, <2>4 DEF RuleFinds, security_group_findings, Each, Find
  <2>6. LegacyOf(S, r.ftype) = {f \in security_group_findings(S) : f.ftype = r.ftype}
    BY <2>1, OneDetector
  <2> QED BY <2>5, <2>6 DEF Agrees, r
<1> QED BY <1>1, <1>2

LEMMA LoadBalancerRulesAgree ==
  ASSUME NEW S
  PROVE  \A i \in 1..4 : Agrees(load_balancer_rules[i], S)
<1>1. Agrees(load_balancer_rules[1], S)
  <2> DEFINE r == load_balancer_rules[1]
  <2>1. r.rtype = "load_balancer" /\ r.ftype = "load_balancer_deletion_protection_disabled" /\ r.sev = "medium"
    BY DEF load_balancer_rules, Rule
  <2>2. r.conds = <<Cond("bool_false", "deletion_protection_enabled", NULL)>>
    BY DEF load_balancer_rules, Rule
  <2> HIDE DEF r
  <2>3. \A s : evaluate_conditions(r, s) <=>
          ~Truthy(s, "deletion_protection_enabled")
    BY <2>2, CondsAre, CondIs, CondAllIs
  <2>4. \A s \in OfType(S, "load_balancer") : evaluate_conditions(r, s) <=>
          ~Truthy(s, "deletion_protection_enabled")
    BY <2>3
  <2>5. RuleFinds(r, S) = {f \in load_balancer_findings(S) : f.ftype = r.ftype}
    BY <2>1, <2>4 DEF RuleFinds, load_balancer_findings, Each, Find
  <2>6. LegacyOf(S, r.ftype) = {f \in load_balancer_findings(S) : f.ftype = r.ftype}
    BY <2>1, OneDetector
  <2> QED BY <2>5, <2>6 DEF Agrees, r
<1>2. Agrees(load_balancer_rules[2], S)
  <2> DEFINE r == load_balancer_rules[2]
  <2>1. r.rtype = "load_balancer" /\ r.ftype = "load_balancer_no_healthy_targets" /\ r.sev = "high"
    BY DEF load_balancer_rules, Rule
  <2>2. r.conds = <<Cond("gt", "target_group_count", 0),
                   Cond("eq_zero", "healthy_target_count", NULL)>>
    BY DEF load_balancer_rules, Rule
  <2> HIDE DEF r
  <2>3. \A s : evaluate_conditions(r, s) <=>
          /\ Get(s, "target_group_count") # NULL /\ Get(s, "target_group_count") > 0
          /\ Get(s, "healthy_target_count") \in {NULL, 0}
    BY <2>2, CondsAre, CondIs, CondAllIs
  <2>4. \A s \in OfType(S, "load_balancer") : evaluate_conditions(r, s) <=>
          IntOr(s, "target_group_count", 0) > 0 /\ IntOr(s, "healthy_target_count", 0) = 0
    BY <2>3 DEF IntOr
  <2>5. RuleFinds(r, S) = {f \in load_balancer_findings(S) : f.ftype = r.ftype}
    BY <2>1, <2>4 DEF RuleFinds, load_balancer_findings, Each, Find
  <2>6. LegacyOf(S, r.ftype) = {f \in load_balancer_findings(S) : f.ftype = r.ftype}
    BY <2>1, OneDetector
  <2> QED BY <2>5, <2>6 DEF Agrees, r
<1>3. Agrees(load_balancer_rules[3], S)
  <2> DEFINE r == load_balancer_rules[3]
  <2>1. r.rtype = "load_balancer" /\ r.ftype = "load_balancer_no_healthy_traffic_path" /\ r.sev = "high"
    BY DEF load_balancer_rules, Rule
  <2>2. r.conds = <<Cond("gt", "listener_count", 0),
                   Cond("gt", "target_group_count", 0),
                   Cond("gt", "listener_forward_action_count", 0),
                   Cond("eq_zero", "healthy_target_count", NULL)>>
    BY DEF load_balancer_rules, Rule
  <2> HIDE DEF r
  <2>3. \A s : evaluate_conditions(r, s) <=>
          /\ Get(s, "listener_count") # NULL /\ Get(s, "listener_count") > 0
          /\ Get(s, "target_group_count") # NULL /\ Get(s, "target_group_count") > 0
          /\ Get(s, "listener_forward_action_count") # NULL /\ Get(s, "listener_forward_action_count") > 0
          /\ Get(s, "healthy_target_count") \in {NULL, 0}
    BY <2>2, CondsAre, CondIs, CondAllIs
  <2>4. \A s \in OfType(S, "load_balancer") : evaluate_conditions(r, s) <=>
          /\ IntOr(s, "target_group_count", 0) > 0 /\ IntOr(s, "healthy_target_count", 0) = 0
          /\ IntOr(s, "listener_count", 0) > 0 /\ IntOr(s, "listener_forward_action_count", 0) > 0
    BY <2>3 DEF IntOr
  <2>5. RuleFinds(r, S) = {f \in load_balancer_findings(S) : f.ftype = r.ftype}
    BY <2>1, <2>4 DEF RuleFinds, load_balancer_findings, Each, Find
  <2>6. LegacyOf(S, r.ftype) = {f \in load_balancer_findings(S) : f.ftype = r.ftype}
    BY <2>1, OneDetector
  <2> QED BY <2>5, <2>6 DEF Agrees, r
<1>4. Agrees(load_balancer_rules[4], S)
  <2> DEFINE r == load_balancer_rules[4]
  <2>1. r.rtype = "load_balancer" /\ r.ftype = "load_balancer_partial_failure" /\ r.sev = "medium"
    BY DEF load_balancer_rules, Rule
  <2>2. r.conds = <<Cond("gt", "healthy_target_count", 0),
                   Cond("gt", "unhealthy_target_count", 0)>>
    BY DEF load_balancer_rules, Rule
  <2> HIDE DEF r
  <2>3. \A s : evaluate_conditions(r, s) <=>
          /\ Get(s, "healthy_target_count") # NULL /\ Get(s, "healthy_target_count") > 0
          /\ Get(s, "unhealthy_target_count") # NULL /\ Get(s, "unhealthy_target_count") > 0
    BY <2>2, CondsAre, CondIs, CondAllIs
  <2>4. \A s \in OfType(S, "load_balancer") : evaluate_conditions(r, s) <=>
          IntOr(s, "healthy_target_count", 0) > 0 /\ IntOr(s, "unhealthy_target_count", 0) > 0
    BY <2>3 DEF IntOr
  <2>5. RuleFinds(r, S) = {f \in load_balancer_findings(S) : f.ftype = r.ftype}
    BY <2>1, <2>4 DEF RuleFinds, load_balancer_findings, Each, Find
  <2>6. LegacyOf(S, r.ftype) = {f \in load_balancer_findings(S) : f.ftype = r.ftype}
    BY <2>1, OneDetector
  <2> QED BY <2>5, <2>6 DEF Agrees, r
<1> QED BY <1>1, <1>2, <1>3, <1>4

LEMMA RouteTableRulesAgree ==
  ASSUME NEW S
  PROVE  \A i \in 1..2 : Agrees(route_table_rules[i], S)
<1>1. Agrees(route_table_rules[1], S)
  <2> DEFINE r == route_table_rules[1]
  <2>1. r.rtype = "route_table" /\ r.ftype = "route_table_unassociated_review" /\ r.sev = "low"
    BY DEF route_table_rules, Rule
  <2>2. r.conds = <<Cond("eq_zero", "association_count", NULL)>>
    BY DEF route_table_rules, Rule
  <2> HIDE DEF r
  <2>3. \A s : evaluate_conditions(r, s) <=>
          Get(s, "association_count") \in {NULL, 0}
    BY <2>2, CondsAre, CondIs, CondAllIs
  <2>4. \A s \in OfType(S, "route_table") : evaluate_conditions(r, s) <=>
          IntOr(s, "association_count", 0) = 0
    BY <2>3 DEF IntOr
  <2>5. RuleFinds(r, S) = {f \in route_table_findings(S) : f.ftype = r.ftype}
    BY <2>1, <2>4 DEF RuleFinds, route_table_findings, Each, Find
  <2>6. LegacyOf(S, r.ftype) = {f \in route_table_findings(S) : f.ftype = r.ftype}
    BY <2>1, OneDetector
  <2> QED BY <2>5, <2>6 DEF Agrees, r
<1>2. Agrees(route_table_rules[2], S)
  <2> DEFINE r == route_table_rules[2]
  <2>1. r.rtype = "route_table" /\ r.ftype = "route_table_public_default_route_review" /\ r.sev = "medium"
    BY DEF route_table_rules, Rule
  <2>2. r.conds = <<Cond("bool_true", "has_igw_default_route", NULL),
                   Cond("bool_false", "has_nat_default_route", NULL)>>
    BY DEF route_table_rules, Rule
  <2> HIDE DEF r
  <2>3. \A s : evaluate_conditions(r, s) <=>
          /\ Truthy(s, "has_igw_default_route")
          /\ ~Truthy(s, "has_nat_default_route")
    BY <2>2, CondsAre, CondIs, CondAllIs
  <2>4. \A s \in OfType(S, "route_table") : evaluate_conditions(r, s) <=>
          Truthy(s, "has_igw_default_route") /\ ~Truthy(s, "has_nat_default_route")
    BY <2>3
  <2>5. RuleFinds(r, S) = {f \in route_table_findings(S) : f.ftype = r.ftype}
    BY <2>1, <2>4 DEF RuleFinds, route_table_findings, Each, Find
  <2>6. LegacyOf(S, r.ftype) = {f \in route_table_findings(S) : f.ftype = r.ftype}
    BY <2>1, OneDetector
  <2> QED BY <2>5, <2>6 DEF Agrees, r
<1> QED BY <1>1, <1>2

LEMMA TargetGroupRulesAgree ==
  ASSUME NEW S
  PROVE  \A i \in {1, 2, 3, 5, 6} : Agrees(target_group_rules[i], S)
<1>1. Agrees(target_group_rules[1], S)
  <2> DEFINE r == target_group_rules[1]
  <2>1. r.rtype = "target_group" /\ r.ftype = "target_group_no_targets" /\ r.sev = "medium"
    BY DEF target_group_rules, Rule
  <2>2. r.conds = <<Cond("eq_zero", "total_targets", NULL)>>
    BY DEF target_group_rules, Rule
  <2> HIDE DEF r
  <2>3. \A s : evaluate_conditions(r, s) <=>
          Get(s, "total_targets") \in {NULL, 0}
    BY <2>2, CondsAre, CondIs, CondAllIs
  <2>4. \A s \in OfType(S, "target_group") : evaluate_conditions(r, s) <=>
          IntOr(s, "total_targets", 0) = 0
    BY <2>3 DEF IntOr
  <2>5. RuleFinds(r, S) = {f \in target_group_findings(S) : f.ftype = r.ftype}
    BY <2>1, <2>4 DEF RuleFinds, target_group_findings, Each, Find
  <2>6. LegacyOf(S, r.ftype) = {f \in target_group_findings(S) : f.ftype = r.ftype}
    BY <2>1, OneDetector
  <2> QED BY <2>5, <2>6 DEF Agrees, r
<1>2. Agrees(target_group_rules[2], S)
  <2> DEFINE r == target_group_rules[2]
  <2>1. r.rtype = "target_group" /\ r.ftype = "target_group_unhealthy_targets" /\ r.sev = "high"
    BY DEF target_group_rules, Rule
  <2>2. r.conds = <<Cond("gt", "unhealthy_count", 0)>>
    BY DEF target_group_rules, Rule
  <2> HIDE DEF r
  <2>3. \A s : evaluate_conditions(r, s) <=>
          Get(s, "unhealthy_count") # NULL /\ Get(s, "unhealthy_count") > 0
    BY <2>2, CondsAre, CondIs, CondAllIs
  <2>4. \A s \in OfType(S, "target_group") : evaluate_conditions(r, s) <=>
          IntOr(s, "unhealthy_count", 0) > 0
    BY <2>3 DEF IntOr
  <2>5. RuleFinds(r, S) = {f \in target_group_findings(S) : f.ftype = r.ftype}
    BY <2>1, <2>4 DEF RuleFinds, target_group_findings, Each, Find
  <2>6. LegacyOf(S, r.ftype) = {f \in target_group_findings(S) : f.ftype = r.ftype}
    BY <2>1, OneDetector
  <2> QED BY <2>5, <2>6 DEF Agrees, r
<1>3. Agrees(target_group_rules[3], S)
  <2> DEFINE r == target_group_rules[3]
  <2>1. r.rtype = "target_group" /\ r.ftype = "target_group_no_healthy_targets" /\ r.sev = "high"
    BY DEF target_group_rules, Rule
  <2>2. r.conds = <<Cond("gt", "total_targets", 0),
                   Cond("eq_zero", "healthy_count", NULL)>>
    BY DEF target_group_rules, Rule
  <2> HIDE DEF r
  <2>3. \A s : evaluate_conditions(r, s) <=>
          /\ Get(s, "total_targets") # NULL /\ Get(s, "total_targets") > 0
          /\ Get(s, "healthy_count") \in {NULL, 0}
    BY <2>2, CondsAre, CondIs, CondAllIs
  <2>4. \A s \in OfType(S, "target_group") : evaluate_conditions(r, s) <=>
          IntOr(s, "total_targets", 0) > 0 /\ IntOr(s, "healthy_count", 0) = 0
    BY <2>3 DEF IntOr
  <2>5. RuleFinds(r, S) = {f \in target_group_findings(S) : f.ftype = r.ftype}
    BY <2>1, <2>4 DEF RuleFinds, target_group_findings, Each, Find
  <2>6. LegacyOf(S, r.ftype) = {f \in target_group_findings(S) : f.ftype = r.ftype}
    BY <2>1, OneDetector
  <2> QED BY <2>5, <2>6 DEF Agrees, r
<1>5. Agrees(target_group_rules[5], S)
  <2> DEFINE r == target_group_rules[5]
  <2>1. r.rtype = "target_group" /\ r.ftype = "target_group_stickiness_disabled" /\ r.sev = "low"
    BY DEF target_group_rules, Rule
  <2>2. r.conds = <<Cond("bool_false", "stickiness_enabled", NULL)>>
    BY DEF target_group_rules, Rule
  <2> HIDE DEF r
  <2>3. \A s : evaluate_conditions(r, s) <=>
          ~Truthy(s, "stickiness_enabled")
    BY <2>2, CondsAre, CondIs, CondAllIs
  <2>4. \A s \in OfType(S, "target_group") : evaluate_conditions(r, s) <=>
          ~Truthy(s, "stickiness_enabled")
    BY <2>3
  <2>5. RuleFinds(r, S) = {f \in target_group_tuning_findings(S) : f.ftype = r.ftype}
    BY <2>1, <2>4 DEF RuleFinds, target_group_tuning_findings, Each, Find
  <2>6. LegacyOf(S, r.ftype) = {f \in target_group_tuning_findings(S) : f.ftype = r.ftype}
    BY <2>1, OneDetector
  <2> QED BY <2>5, <2>6 DEF Agrees, r
<1>6. Agrees(target_group_rules[6], S)
  <2> DEFINE r == target_group_rules[6]
  <2>1. r.rtype = "target_group" /\ r.ftype = "target_group_slow_deregistration" /\ r.sev = "low"
    BY DEF target_group_rules, Rule
  <2>2. r.conds = <<Cond("gt", "deregistration_delay_seconds", 60)>>
    BY DEF target_group_rules, Rule
  <2> HIDE DEF r
  <2>3. \A s : evaluate_conditions(r, s) <=>
          Get(s, "deregistration_delay_seconds") # NULL /\ Get(s, "deregistration_delay_seconds") > 60
    BY <2>2, CondsAre, CondIs, CondAllIs
  <2>4. \A s \in OfType(S, "target_group") : evaluate_conditions(r, s) <=>
          IntOr(s, "deregistration_delay_seconds", 30) > 60
    BY <2>3 DEF IntOr
  <2>5. RuleFinds(r, S) = {f \in target_group_tuning_findings(S) : f.ftype = r.ftype}
    BY <2>1, <2>4 DEF RuleFinds, target_group_tuning_findings, Each, Find
  <2>6. LegacyOf(S, r.ftype) = {f \in target_group_tuning_findings(S) : f.ftype = r.ftype}
    BY <2>1, OneDetector
  <2> QED BY <2>5, <2>6 DEF Agrees, r
<1> QED BY <1>1, <1>2, <1>3, <1>5, <1>6

LEMMA EventBridgeRulesAgree ==
  ASSUME NEW S
  PROVE  \A i \in 1..2 : Agrees(eventbridge_rules[i], S)
<1>1. Agrees(eventbridge_rules[1], S)
  <2> DEFINE r == eventbridge_rules[1]
  <2>1. r.rtype = "eventbridge_rule" /\ r.ftype = "eventbridge_rule_without_targets" /\ r.sev = "medium"
    BY DEF eventbridge_rules, Rule
  <2>2. r.conds = <<Cond("eq_zero", "target_count", NULL)>>
    BY DEF eventbridge_rules, Rule
  <2> HIDE DEF r
  <2>3. \A s : evaluate_conditions(r, s) <=>
          Get(s, "target_count") \in {NULL, 0}
    BY <2>2, CondsAre, CondIs, CondAllIs
  <2>4. \A s \in OfType(S, "eventbridge_rule") : evaluate_conditions(r, s) <=>
          IntOr(s, "target_count", 0) = 0
    BY <2>3 DEF IntOr
  <2>5. RuleFinds(r, S) = {f \in eventbridge_findings(S) : f.ftype = r.ftype}
    BY <2>1, <2>4 DEF RuleFinds, eventbridge_findings, Each, Find
  <2>6. LegacyOf(S, r.ftype) = {f \in eventbridge_findings(S) : f.ftype = r.ftype}
    BY <2>1, OneDetector
  <2> QED BY <2>5, <2>6 DEF Agrees, r
<1>2. Agrees(eventbridge_rules[2], S)
  <2> DEFINE r == eventbridge_rules[2]
  <2>1. r.rtype = "eventbridge_rule" /\ r.ftype = "eventbridge_rule_disabled_review" /\ r.sev = "low"
    BY DEF eventbridge_rules, Rule
  <2>2. r.conds = <<Cond("eq", "state", "DISABLED")>>
    BY DEF eventbridge_rules, Rule
  <2> HIDE DEF r
  <2>3. \A s : evaluate_conditions(r, s) <=>
          Get(s, "state") = "DISABLED"
    BY <2>2, CondsAre, CondIs, CondAllIs
  <2>4. \A s \in OfType(S, "eventbridge_rule") : evaluate_conditions(r, s) <=>
          Get(s, "state") = "DISABLED"
    BY <2>3
  <2>5. RuleFinds(r, S) = {f \in eventbridge_findings(S) : f.ftype = r.ftype}
    BY <2>1, <2>4 DEF RuleFinds, eventbridge_findings, Each, Find
  <2>6. LegacyOf(S, r.ftype) = {f \in eventbridge_findings(S) : f.ftype = r.ftype}
    BY <2>1, OneDetector
  <2> QED BY <2>5, <2>6 DEF Agrees, r
<1> QED BY <1>1, <1>2

LEMMA CertificateRulesAgree ==
  ASSUME NEW S
  PROVE  \A i \in 1..3 : Agrees(acm_rules[i], S)
<1>1. Agrees(acm_rules[1], S)
  <2> DEFINE r == acm_rules[1]
  <2>1. r.rtype = "acm_certificate" /\ r.ftype = "acm_certificate_expiring_soon" /\ r.sev = "high"
    BY DEF acm_rules, Rule
  <2>2. r.conds = <<Cond("exists", "not_after", NULL),
                   Cond("days_until_lte", "not_after", 30),
                   Cond("days_until_gt", "not_after", 0)>>
    BY DEF acm_rules, Rule
  <2> HIDE DEF r
  <2>3. \A s : evaluate_conditions(r, s) <=>
          /\ Get(s, "not_after") # NULL
          /\ Get(s, "not_after") # NULL /\ Get(s, "not_after") <= 30
          /\ Get(s, "not_after") # NULL /\ Get(s, "not_after") > 0
    BY <2>2, CondsAre, CondIs, CondAllIs
  <2>4. \A s \in OfType(S, "acm_certificate") : evaluate_conditions(r, s) <=>
          Get(s, "not_after") # NULL /\ 0 < Get(s, "not_after") /\ Get(s, "not_after") <= 30
    BY <2>3
  <2>5. RuleFinds(r, S) = {f \in acm_expiry_findings(S) : f.ftype = r.ftype}
    BY <2>1, <2>4 DEF RuleFinds, acm_expiry_findings, Each, Find
  <2>6. LegacyOf(S, r.ftype) = {f \in acm_expiry_findings(S) : f.ftype = r.ftype}
    BY <2>1, OneDetector
  <2> QED BY <2>5, <2>6 DEF Agrees, r
<1>2. Agrees(acm_rules[2], S)
  <2> DEFINE r == acm_rules[2]
  <2>1. r.rtype = "acm_certificate" /\ r.ftype = "acm_certificate_pending_validation" /\ r.sev = "medium"
    BY DEF acm_rules, Rule
  <2>2. r.conds = <<Cond("eq", "status", "PENDING_VALIDATION")>>
    BY DEF acm_rules, Rule
  <2> HIDE DEF r
  <2>3. \A s : evaluate_conditions(r, s) <=>
          Get(s, "status") = "PENDING_VALIDATION"
    BY <2>2, CondsAre, CondIs, CondAllIs
  <2>4. \A s \in OfType(S, "acm_certificate") : evaluate_conditions(r, s) <=>
          Get(s, "status") = "PENDING_VALIDATION"
    BY <2>3
  <2>5. RuleFinds(r, S) = {f \in acm_status_findings(S) : f.ftype = r.ftype}
    BY <2>1, <2>4 DEF RuleFinds, acm_status_findings, Each, Find
  <2>6. LegacyOf(S, r.ftype) = {f \in acm_status_findings(S) : f.ftype = r.ftype}
    BY <2>1, OneDetector
  <2> QED BY <2>5, <2>6 DEF Agrees, r
<1>3. Agrees(acm_rules[3], S)
  <2> DEFINE r == acm_rules[3]
  <2>1. r.rtype = "acm_certificate" /\ r.ftype = "acm_certificate_validation_issue" /\ r.sev = "high"
    BY DEF acm_rules, Rule
  <2>2. r.conds = <<Cond("in", "status", {"FAILED", "VALIDATION_TIMED_OUT", "REVOKED"})>>
    BY DEF acm_rules, Rule
  <2> HIDE DEF r
  <2>3. \A s : evaluate_conditions(r, s) <=>
          Get(s, "status") \in {"FAILED", "VALIDATION_TIMED_OUT", "REVOKED"}
    BY <2>2, CondsAre, CondIs, CondAllIs
  <2>4. \A s \in OfType(S, "acm_certificate") : evaluate_conditions(r, s) <=>
          Get(s, "status") \in {"FAILED", "VALIDATION_TIMED_OUT", "REVOKED"}
    BY <2>3
  <2>5. RuleFinds(r, S) = {f \in acm_status_findings(S) : f.ftype = r.ftype}
    BY <2>1, <2>4 DEF RuleFinds, acm_status_findings, Each, Find
  <2>6. LegacyOf(S, r.ftype) = {f \in acm_status_findings(S) : f.ftype = r.ftype}
    BY <2>1, OneDetector
  <2> QED BY <2>5, <2>6 DEF Agrees, r
<1> QED BY <1>1, <1>2, <1>3

LEMMA DistributionRulesAgree ==
  ASSUME NEW S, EnabledKnown(S)
  PROVE  \A i \in 1..3 : Agrees(cloudfront_rules[i], S)
<1>1. Agrees(cloudfront_rules[1], S)
  <2> DEFINE r == cloudfront_rules[1]
  <2>1. r.rtype = "cloudfront_distribution" /\ r.ftype = "cloudfront_insecure_viewer_protocol_policy" /\ r.sev = "high"
    BY DEF cloudfront_rules, Rule
  <2>2. r.conds = <<Cond("eq", "viewer_protocol_policy", "allow-all")>>
    BY DEF cloudfront_rules, Rule
  <2> HIDE DEF r
  <2>3. \A s : evaluate_conditions(r, s) <=>
          Get(s, "viewer_protocol_policy") = "allow-all"
    BY <2>2, CondsAre, CondIs, CondAllIs
  <2>4. \A s \in OfType(S, "cloudfront_distribution") : evaluate_conditions(r, s) <=>
          Get(s, "viewer_protocol_policy") = "allow-all"
    BY <2>3
  <2>5. RuleFinds(r, S) = {f \in cloudfront_findings(S) : f.ftype = r.ftype}
    BY <2>1, <2>4 DEF RuleFinds, cloudfront_findings, Each, Find
  <2>6. LegacyOf(S, r.ftype) = {f \in cloudfront_findings(S) : f.ftype = r.ftype}
    BY <2>1, OneDetector
  <2> QED BY <2>5, <2>6 DEF Agrees, r
<1>2. Agrees(cloudfront_rules[2], S)
  <2> DEFINE r == cloudfront_rules[2]
  <2>1. r.rtype = "cloudfront_distribution" /\ r.ftype = "cloudfront_missing_https_redirect" /\ r.sev = "medium"
    BY DEF cloudfront_rules, Rule
  <2>2. r.conds = <<Cond("exists", "viewer_protocol_policy", NULL),
                   Cond("neq", "viewer_protocol_policy", "redirect-to-https")>>
    BY DEF cloudfront_rules, Rule
  <2> HIDE DEF r
  <2>3. \A s : evaluate_conditions(r, s) <=>
          /\ Get(s, "viewer_protocol_policy") # NULL
          /\ Get(s, "viewer_protocol_policy") # "redirect-to-https"
    BY <2>2, CondsAre, CondIs, CondAllIs
  <2>4. \A s \in OfType(S, "cloudfront_distribution") : evaluate_conditions(r, s) <=>
          Get(s, "viewer_protocol_policy") \notin {NULL, "redirect-to-https"}
    BY <2>3
  <2>5. RuleFinds(r, S) = {f \in cloudfront_findings(S) : f.ftype = r.ftype}
    BY <2>1, <2>4 DEF RuleFinds, cloudfront_findings, Each, Find
  <2>6. LegacyOf(S, r.ftype) = {f \in cloudfront_findings(S) : f.ftype = r.ftype}
    BY <2>1, OneDetector
  <2> QED BY <2>5, <2>6 DEF Agrees, r
<1>3. Agrees(cloudfront_rules[3], S)
  <2> DEFINE r == cloudfront_rules[3]
  <2>1. r.rtype = "cloudfront_distribution" /\ r.ftype = "cloudfront_disabled_distribution_review" /\ r.sev = "low"
    BY DEF cloudfront_rules, Rule
  <2>2. r.conds = <<Cond("bool_false", "enabled", NULL)>>
    BY DEF cloudfront_rules, Rule
  <2> HIDE DEF r
  <2>3. \A s : evaluate_conditions(r, s) <=>
          ~Truthy(s, "enabled")
    BY <2>2, CondsAre, CondIs, CondAllIs
  <2>4. \A s \in OfType(S, "cloudfront_distribution") : evaluate_conditions(r, s) <=>
          Get(s, "enabled") = FALSE
    BY <2>3, InventoryAssumption DEF Truthy, EnabledKnown
  <2>5. RuleFinds(r, S) = {f \in cloudfront_findings(S) : f.ftype = r.ftype}
    BY <2>1, <2>4 DEF RuleFinds, cloudfront_findings, Each, Find
  <2>6. LegacyOf(S, r.ftype) = {f \in cloudfront_findings(S) : f.ftype = r.ftype}
    BY <2>1, OneDetector
  <2> QED BY <2>5, <2>6 DEF Agrees, r
<1> QED BY <1>1, <1>2, <1>3

LEMMA FunctionRulesAgree ==
  ASSUME NEW S
  PROVE  \A i \in 1..2 : Agrees(lambda_rules[i], S)
<1>1. Agrees(lambda_rules[1], S)
  <2> DEFINE r == lambda_rules[1]
  <2>1. r.rtype = "lambda_function" /\ r.ftype = "lambda_outdated_runtime" /\ r.sev = "high"
    BY DEF lambda_rules, Rule
  <2>2. r.conds = <<Cond("startswith_any", "runtime", OutdatedRuntimes)>>
    BY DEF lambda_rules, Rule
  <2> HIDE DEF r
  <2>3. \A s : evaluate_conditions(r, s) <=>
          Get(s, "runtime") \in OutdatedRuntimes
    BY <2>2, CondsAre, CondIs, CondAllIs
  <2>4. \A s \in OfType(S, "lambda_function") : evaluate_conditions(r, s) <=>
          Get(s, "runtime") \in OutdatedRuntimes
    BY <2>3
  <2>5. RuleFinds(r, S) = {f \in lambda_runtime_findings(S) : f.ftype = r.ftype}
    BY <2>1, <2>4 DEF RuleFinds, lambda_runtime_findings, Each, Find
  <2>6. LegacyOf(S, r.ftype) = {f \in lambda_runtime_findings(S) : f.ftype = r.ftype}
    BY <2>1, OneDetector
  <2> QED BY <2>5, <2>6 DEF Agrees, r
<1>2. Agrees(lambda_rules[2], S)
  <2> DEFINE r == lambda_rules[2]
  <2>1. r.rtype = "lambda_function" /\ r.ftype = "lambda_review_timeout_configuration" /\ r.sev = "medium"
    BY DEF lambda_rules, Rule
  <2>2. r.conds = <<Cond("gte", "timeout", 120)>>
    BY DEF lambda_rules, Rule
  <2> HIDE DEF r
  <2>3. \A s : evaluate_conditions(r, s) <=>
          Get(s, "timeout") # NULL /\ Get(s, "timeout") >= 120
    BY <2>2, CondsAre, CondIs, CondAllIs
  <2>4. \A s \in OfType(S, "lambda_function") : evaluate_conditions(r, s) <=>
          AtLeast(s, "timeout", 120)
    BY <2>3 DEF AtLeast
  <2>5. RuleFinds(r, S) = {f \in lambda_runtime_findings(S) : f.ftype = r.ftype}
    BY <2>1, <2>4 DEF RuleFinds, lambda_runtime_findings, Each, Find
  <2>6. LegacyOf(S, r.ftype) = {f \in lambda_runtime_findings(S) : f.ftype = r.ftype}
    BY <2>1, OneDetector
  <2> QED BY <2>5, <2>6 DEF Agrees, r
<1> QED BY <1>1, <1>2

LEMMA TagRulesAgree ==
  ASSUME NEW S
  PROVE  \A i \in 1..16 : Agrees(tagging_rules[i], S)
<1> SUFFICES ASSUME NEW i \in 1..16 PROVE Agrees(tagging_rules[i], S)
  OBVIOUS
<1> DEFINE rt == TagRuleTypes[i]
           r == tagging_rules[i]
<1>1. rt \in EXTENDED_TAGGABLE_RESOURCE_TYPES
  BY DEF TagRuleTypes, EXTENDED_TAGGABLE_RESOURCE_TYPES
<1>2. r.rtype = rt /\ r.ftype = TagFinding(rt) /\ r.sev = "medium"
  BY RuleIs DEF tagging_rules, TagRuleTypes
<1>3. r.conds = <<CondAll("any_tag_missing", {"Name", "Environment"})>>
  BY DEF tagging_rules, TagRuleTypes, Rule
<1> HIDE DEF r, rt
<1>4. \A s : evaluate_conditions(r, s) <=> Untagged(s)
  <2>1. \A s : evaluate_conditions(r, s) <=> \E t \in {"Name", "Environment"} : t \notin s.tags
    BY <1>3, CondsAre, CondAllIs
  <2> QED BY <2>1 DEF Untagged, missing_required_tags
<1>5. \A f \in legacy_extended_findings(S) : f.ftype = r.ftype => f \in tag_findings(S)
  <2>1. TagFinding(rt) \notin HighFindings \cup MediumFindings \cup LowFindings
    BY <1>1, TagFindingAssumption
  <2>2. \A f \in legacy_extended_findings(S) :
          f \in tag_findings(S) \/ f.ftype \in HighFindings \cup MediumFindings \cup LowFindings
    BY DetectorTypes DEF legacy_extended_findings, HighFindings, MediumFindings, LowFindings
  <2> QED BY <1>2, <2>1, <2>2
<1>6. LegacyOf(S, r.ftype) = {f \in tag_findings(S) : f.ftype = r.ftype}
  BY <1>5 DEF LegacyOf, legacy_extended_findings
<1>7. {f \in tag_findings(S) : f.ftype = r.ftype} = Each(OfType(S, rt), Untagged, TagFinding(rt), "medium")
  <2> DEFINE E(t) == Each(OfType(S, t), Untagged, TagFinding(t), "medium")
  <2>1. tag_findings(S) = UNION {E(t) : t \in EXTENDED_TAGGABLE_RESOURCE_TYPES}
    BY DEF tag_findings
  <2>2. \A t : \A f \in E(t) : f.ftype = TagFinding(t)
    BY DEF Each, Find
  <2>3. \A t \in EXTENDED_TAGGABLE_RESOURCE_TYPES : TagFinding(t) = TagFinding(rt) => t = rt
    BY <1>1, TagFindingAssumption
  <2> HIDE DEF E
  <2>4. {f \in tag_findings(S) : f.ftype = r.ftype} = E(rt)
    BY <1>1, <1>2, <2>1, <2>2, <2>3
  <2> QED BY <2>4 DEF E
<1>8. RuleFinds(r, S) = Each(OfType(S, rt), Untagged, TagFinding(rt), "medium")
  BY <1>2, <1>4 DEF RuleFinds, Each
<1> QED BY <1>6, <1>7, <1>8 DEF Agrees, r

\* Every rule but the two that ask for less agrees with its detector.
LEMMA RulesAgree ==
  ASSUME NEW S, EnabledKnown(S), NEW r \in RuleSet, r.ftype \notin NotCarriedOver
  PROVE  Agrees(r, S)
<1>1. CASE \E i \in 1..6 : r = target_group_rules[i]
  <2>1. PICK i \in 1..6 : r = target_group_rules[i]
    BY <1>1
  <2>2. target_group_rules[4].ftype = "target_group_misconfigured_health_check"
    BY DEF target_group_rules, Rule
  <2>3. i # 4
    BY <2>1, <2>2 DEF NotCarriedOver
  <2> QED BY <2>1, <2>3, TargetGroupRulesAgree
<1>2. CASE \E i \in 1..1 : r = apigateway_rules[i]
  <2>1. apigateway_rules[1].ftype = "apigateway_public_exposure_review"
    BY DEF apigateway_rules, Rule
  <2> QED BY <1>2, <2>1 DEF NotCarriedOver
<1>3. \/ \E i \in 1..6 : r = target_group_rules[i]
      \/ \E i \in 1..1 : r = apigateway_rules[i]
      \/ Agrees(r, S)
  BY SecurityGroupRulesAgree, LoadBalancerRulesAgree, RouteTableRulesAgree, EventBridgeRulesAgree,
     CertificateRulesAgree, DistributionRulesAgree, FunctionRulesAgree, TagRulesAgree DEF RuleSet
<1> QED BY <1>1, <1>2, <1>3

\* A rule and the detector it replaced give the same verdicts on all snapshots.
LEMMA VerdictsAgree ==
  ASSUME EnabledKnown(snapshots)
  PROVE  MigrationAgrees
<1> DEFINE S == snapshots
           all == load_all_rules(NULL)
           mark(f) == <<Subject(f), f.sev>>
           verdict(fs) == {mark(f) : f \in {g \in fs : g.ftype \notin NotCarriedOver}}
           byRule == run_rule_engine(S, all)
           byCode == {f \in legacy_extended_findings(S) : f.ftype \in migrated_finding_types(all)}
<1>1. \A i \in all : AllRules[i] \in RuleSet
  BY AllRulesAre DEF load_all_rules
<1>2. ASSUME NEW r, NEW s
      PROVE  /\ mark(build_finding_from_rule(r, s)) = mark(Find(s, r.ftype, r.sev))
             /\ build_finding_from_rule(r, s).ftype = r.ftype /\ Find(s, r.ftype, r.sev).ftype = r.ftype
  BY DEF build_finding_from_rule, Find, Subject
<1>3. \A f \in byRule : \E i \in all : \E g \in RuleFinds(AllRules[i], S) :
         mark(f) = mark(g) /\ f.ftype = g.ftype /\ g.ftype = AllRules[i].ftype
  <2> HIDE DEF mark
  <2> QED BY <1>2 DEF run_rule_engine, RuleFinds
<1>4. \A i \in all : \A g \in RuleFinds(AllRules[i], S) : \E f \in byRule :
         mark(f) = mark(g) /\ f.ftype = g.ftype
  <2> SUFFICES ASSUME NEW i \in all, NEW g \in RuleFinds(AllRules[i], S)
               PROVE  \E f \in byRule : mark(f) = mark(g) /\ f.ftype = g.ftype
    OBVIOUS
  <2> HIDE DEF mark
  <2>1. PICK s \in OfType(S, AllRules[i].rtype) :
          evaluate_conditions(AllRules[i], s) /\ g = Find(s, AllRules[i].ftype, AllRules[i].sev)
    BY DEF RuleFinds
  <2>2. build_finding_from_rule(AllRules[i], s) \in byRule
    BY <2>1 DEF run_rule_engine
  <2> QED BY <1>2, <2>1, <2>2
<1>5. \A i \in all : AllRules[i].ftype \notin NotCarriedOver =>
         RuleFinds(AllRules[i], S) = LegacyOf(S, AllRules[i].ftype)
  BY <1>1, RulesAgree DEF Agrees
<1>6. \A f \in byCode : \E i \in all : f \in LegacyOf(S, AllRules[i].ftype) /\ f.ftype = AllRules[i].ftype
  BY DEF migrated_finding_types, LegacyOf
<1>7. \A i \in all : \A f \in LegacyOf(S, AllRules[i].ftype) : f \in byCode
  BY DEF migrated_finding_types, LegacyOf
<1> HIDE DEF mark, all, byRule, byCode
<1>8. verdict(byRule) \subseteq verdict(byCode)
  BY <1>3, <1>5, <1>7
<1>9. verdict(byCode) \subseteq verdict(byRule)
  BY <1>4, <1>5, <1>6
<1>10. verdict(byRule) = verdict(byCode)
  BY <1>8, <1>9
<1> QED BY <1>10 DEF MigrationAgrees, all, byRule, byCode, mark

------------------------------------------------------------------------------
(* Every row is what a collector made of a resource *)

\* How a call ends.
CallOutcomes == {"ok", "denied", "client", "network"}

\* A row is what its collector makes of a resource of the account, some calls failing.
FromAccount(s) == \E r \in account : \E o \in [Calls -> CallOutcomes] : About(Item(r, o), r) /\ s = Item(r, o).row

\* The rows of this sync but those of the clusters, to which a flag is added.  Of the
\* rows that earlier syncs left it is enough to know what the rule on distributions
\* needs.
CollectedInv ==
  /\ \A s \in snapshots : s.type \in captured /\ s.type # "aurora_cluster" => FromAccount(s)
  /\ \A b \in batches : b.type # "aurora_cluster" => FromAccount(b)
  /\ EnabledKnown(snapshots)

LEMMA CollectedFromAccount ==
  ASSUME Inputs, NEW type \in ResourceTypes, NEW s \in Collect(type).rows
  PROVE  FromAccount(s)
<1>1. PICK reg \in AllRegions : \E r \in Resources(type, reg) :
         About(Item(r, Outcomes(type)[reg]), r) /\ s = Item(r, Outcomes(type)[reg]).row
  BY CollectRows
<1>2. PICK r \in Resources(type, reg) :
         About(Item(r, Outcomes(type)[reg]), r) /\ s = Item(r, Outcomes(type)[reg]).row
  BY <1>1
<1>3. r \in account
  BY DEF Resources
<1>4. Outcomes(type)[reg] \in [Calls -> CallOutcomes]
  <2> DEFINE end(c) == IF fault # NULL /\ fault.type = type /\ fault.region = reg /\ fault.call = c
                       THEN fault.kind ELSE "ok"
  <2>1. Outcomes(type)[reg] = [c \in Calls |-> end(c)]
    BY DEF Outcomes, AllRegions
  <2>2. \A c : end(c) \in CallOutcomes
    BY DEF Inputs, WellFormed, CallOutcomes
  <2> HIDE DEF end
  <2> QED BY <2>1, <2>2
<1> QED BY <1>2, <1>3, <1>4 DEF FromAccount

LEMMA EnabledCollected ==
  ASSUME Inputs, NEW s, FromAccount(s), s.type = "cloudfront_distribution"
  PROVE  Get(s, "enabled") \in BOOLEAN
<1>1. PICK r \in account : \E o \in [Calls -> CallOutcomes] : About(Item(r, o), r) /\ s = Item(r, o).row
  BY DEF FromAccount
<1>2. PICK o \in [Calls -> CallOutcomes] : About(Item(r, o), r) /\ s = Item(r, o).row
  BY <1>1
<1>3. r.type = "cloudfront_distribution" /\ r.x.enabled \in BOOLEAN
  BY <1>2 DEF About, Inputs, WellFormed
<1>4. Item(r, o) = cloudfront_item(r, o)
  BY <1>3 DEF Item
<1> QED BY <1>2, <1>3, <1>4 DEF cloudfront_item, SnapshotRow, Get

LEMMA RowsStored ==
  ASSUME Inputs, CollectedInv, account' = account, NEW new, create_snapshots(new), batches' \subseteq batches,
         \A s \in new : s.type # "aurora_cluster" => FromAccount(s)
  PROVE  CollectedInv'
<1>1. \A s : FromAccount(s)' = FromAccount(s)
  BY DEF FromAccount
<1>2. \A s \in snapshots' : s.type \in captured' /\ s.type # "aurora_cluster" => FromAccount(s)
  BY DEF CollectedInv, create_snapshots
<1>3. \A s \in snapshots' : s \in new \/ s \in snapshots
  BY DEF create_snapshots
<1>4. EnabledKnown(snapshots)'
  BY <1>3, EnabledCollected DEF CollectedInv, EnabledKnown, OfType
<1> QED BY <1>1, <1>2, <1>4 DEF CollectedInv

LEMMA RowsKept ==
  ASSUME CollectedInv, account' = account, UNCHANGED <<snapshots, captured>>, batches' \subseteq batches
  PROVE  CollectedInv'
<1>1. \A s : FromAccount(s)' = FromAccount(s)
  BY DEF FromAccount
<1> QED BY <1>1 DEF CollectedInv, EnabledKnown, OfType

LEMMA CollectedNext == Inputs /\ CollectedInv /\ [AnalysisNext]_analysisVars => CollectedInv'
<1> SUFFICES ASSUME Inputs, CollectedInv, [AnalysisNext]_analysisVars PROVE CollectedInv'
  OBVIOUS
<1>1. ASSUME NEW at, NEW next, NEW fetched, NEW resources, Ingest(at, next, fetched, resources),
             \A s \in resources : s.type # "aurora_cluster" => FromAccount(s)
      PROVE  CollectedInv'
  <2>1. /\ account' = account /\ batches' = batches
        /\ create_snapshots(resources) \/ UNCHANGED <<snapshots, captured>>
    BY <1>1 DEF Ingest, InventoryFails, input
  <2> QED BY <1>1, <2>1, RowsStored, RowsKept
<1>2. CASE ingest_ec2 \/ ingest_ebs \/ ingest_lambda \/ ingest_s3
  <2>1. {"ec2_instance", "ebs_volume", "lambda_function", "s3_bucket"} \subseteq ResourceTypes
    BY DEF ResourceTypes
  <2>2. \A type \in ResourceTypes : \A s \in Collect(type).rows : FromAccount(s)
    BY CollectedFromAccount
  <2> QED BY <1>1, <1>2, <2>1, <2>2 DEF ingest_ec2, ingest_ebs, ingest_lambda, ingest_s3, IngestOne
<1>3. CASE ingest_rds
  <2> DEFINE i == Collect("rds_instance")
             c == Collect("aurora_cluster")
             e == enrich_aurora_clusters(i.rows, c.rows)
  <2>1. "rds_instance" \in ResourceTypes /\ "aurora_cluster" \in ResourceTypes
    BY DEF ResourceTypes
  <2>2. \A s \in i.rows : FromAccount(s)
    BY <2>1, CollectedFromAccount
  <2>3. \A s \in e : \E q \in c.rows : s.id = q.id /\ s.type = q.type
    BY <2>1, RowForm, EnrichKeeps
  <2>4. \A s \in e : s.type = "aurora_cluster"
    BY <2>1, <2>3, CollectTypes
  <2>5. Ingest("rds", "lambda", {i, c}, i.rows \cup e)
    BY <1>3 DEF ingest_rds
  <2> HIDE DEF i, c, e
  <2> QED BY <1>1, <2>2, <2>4, <2>5
<1>4. CASE fetch_all_extended
  <2> DEFINE f == [t \in ExtendedTypes |-> Collect(t)]
  <2>1. /\ account' = account /\ UNCHANGED <<snapshots, captured>>
        /\ batches' = batches \/ batches' = UNION {f[t].rows : t \in ExtendedTypes}
    BY <1>4 DEF fetch_all_extended, input
  <2>2. \A t \in ExtendedTypes : f[t] = Collect(t) /\ t \in ResourceTypes
    BY DEF ExtendedTypes, ResourceTypes
  <2> HIDE DEF f
  <2>3. \A t \in ExtendedTypes : \A s \in f[t].rows : FromAccount(s)
    BY <2>2, CollectedFromAccount
  <2>4. \A s : FromAccount(s)' = FromAccount(s)
    BY <2>1 DEF FromAccount
  <2> QED BY <2>1, <2>3, <2>4 DEF CollectedInv, EnabledKnown, OfType
<1>5. CASE ingest_extended_batch
  <2>1. account' = account /\ batches' \subseteq batches
    BY <1>5 DEF ingest_extended_batch, input
  <2>2. PICK u \in {b.type : b \in batches} : create_snapshots({b \in batches : b.type = u})
    BY <1>5 DEF ingest_extended_batch
  <2>3. \A s \in {b \in batches : b.type = u} : s.type # "aurora_cluster" => FromAccount(s)
    BY DEF CollectedInv
  <2> QED BY <2>1, <2>2, <2>3, RowsStored
<1>6. CASE InventoryDone \/ Restart \/ UNCHANGED analysisVars
  <2>1. account' = account /\ UNCHANGED <<snapshots, captured>> /\ batches' \subseteq batches
    BY <1>6 DEF InventoryDone, Restart, analysisVars, input
  <2> QED BY <2>1, RowsKept
<1>7. CASE Analyses
  BY <1>7, AnalysesKeep, RowsKept
<1>8. CASE NextSync
  <2>1. snapshots' = snapshots /\ captured' = {} /\ batches' = {}
    BY <1>8 DEF NextSync
  <2> QED BY <2>1 DEF CollectedInv, EnabledKnown, OfType
<1> QED BY <1>2, <1>3, <1>4, <1>5, <1>6, <1>7, <1>8 DEF AnalysisNext, Analyses

LEMMA CollectedInit == AnalysisInit => CollectedInv
BY DEF AnalysisInit, CollectedInv, EnabledKnown, OfType

\* A rule and the hard-coded detector it replaced agree on every snapshot that the
\* collectors can store, also on missing values and at the thresholds.
THEOREM MigrationAgreesHolds == AnalysisSpec => []MigrationAgrees
<1> DEFINE IInv == Inputs /\ Futures /\ CollectedInv
<1>1. AnalysisInit => IInv
  BY InputsInit, CollectedInit
<1>2. IInv /\ [AnalysisNext]_analysisVars => IInv'
  BY InputsNext, CollectedNext
<1>3. IInv => MigrationAgrees
  BY VerdictsAgree DEF CollectedInv
<1> HIDE DEF IInv
<1> QED BY <1>1, <1>2, <1>3, PTL DEF AnalysisSpec

------------------------------------------------------------------------------
(* A failed call is not held against a resource *)

\* every call succeeds
Answers == [c \in Calls |-> "ok"]

\* the collectors whose configuration depends on which calls succeed
Partial == {"rds_instance", "lambda_function", "s3_bucket", "eventbridge_rule", "ses_email_identity",
            "load_balancer", "target_group", "rds_parameter_group", "kms_key"}

\* what they always know, and what they leave None
KnownKeys == {"db_instance_class", "memory_size", "runtime", "timeout", "state"}
NoneKeys == {"cpu_utilization_avg_7d", "db_connections_avg_7d", "storage_free_ratio_7d",
             "invocations_sum_7d", "duration_avg_ms_7d", "encryption_enabled", "bucket_size_gb",
             "verification_status", "sending_enabled", "rotation_enabled"}

\* The row a shows with every call answered what the row s shows of it, or s has None,
\* the count zero or the default in its place.
Tells(s, a) ==
  /\ a.id = s.id /\ a.type = s.type
  /\ s.type \in {"ec2_instance", "ebs_volume"} => a.tags = s.tags
  /\ s.type \notin Partial => a.cfg = s.cfg
  /\ s.type \in Partial \ {"load_balancer", "target_group", "rds_parameter_group"} =>
       /\ \A k \in KnownKeys : Get(s, k) = Get(a, k)
       /\ \A k \in NoneKeys : Get(s, k) \in {NULL, Get(a, k)}
  /\ s.type = "load_balancer" =>
       \A k \in {"healthy_target_count", "unhealthy_target_count"} : Get(s, k) \in {0, Get(a, k)}
  /\ s.type = "target_group" =>
       /\ \A k \in {"health_check_enabled", "health_check_interval_seconds", "health_check_timeout_seconds",
                    "unhealthy_threshold_count"} : Get(s, k) = Get(a, k)
       /\ Get(s, "deregistration_delay_seconds") \in {30, Get(a, "deregistration_delay_seconds")}
       /\ \/ \A k \in {"healthy_count", "unhealthy_count", "total_targets"} : Get(s, k) = Get(a, k)
          \/ \A k \in {"healthy_count", "unhealthy_count", "total_targets"} : Get(s, k) = 0

LEMMA RowGet ==
  ASSUME NEW r, NEW cfg, NEW tags
  PROVE  LET s == SnapshotRow(r, cfg, tags).row
         IN  s.id = r.id /\ s.type = r.type /\ s.cfg = cfg /\ s.tags = tags
BY DEF SnapshotRow

LEMMA AnswersOk == \A c \in Calls : Answers[c] = "ok"
BY DEF Answers

LEMMA CallsUsed ==
  \A c \in {"tags", "attributes", "groups", "health", "metrics", "encryption", "describe", "concurrency",
           "rotation"} : Answers[c] = "ok"
BY AnswersOk DEF Calls

\* A row that does not depend on the calls, or is not made when one fails.
LEMMA PlainTells ==
  ASSUME NEW r, NEW o \in [Calls -> CallOutcomes], About(Item(r, o), r),
         r.type \in ResourceTypes \ Partial, r.type # "aurora_cluster"
  PROVE  Tells(Item(r, o).row, Item(r, Answers).row)
<1> DEFINE Same(i, j) == /\ i.row.id = r.id /\ j.row.id = r.id /\ i.row.type = r.type /\ j.row.type = r.type
                         /\ i.row.cfg = j.row.cfg
                         /\ r.type \in {"ec2_instance", "ebs_volume"} => i.row.tags = j.row.tags
<1>1. ASSUME NEW cfg, NEW t, NEW u, r.type \in {"ec2_instance", "ebs_volume"} => t = u
      PROVE  Same(SnapshotRow(r, cfg, t), SnapshotRow(r, cfg, u))
  BY <1>1, RowGet
<1>2. Item(r, o).out = "row" /\ Drop.out # "row"
  BY DropIs DEF About
<1> HIDE DEF Same
<1>3. ASSUME r.type \in {"ec2_instance", "ebs_volume"}
      PROVE  Same(Item(r, o), Item(r, Answers))
  BY <1>1, <1>3 DEF Item, normalize_instance, normalize_ebs_volume
<1>4. ASSUME r.type \in {"cloudfront_distribution", "acm_certificate", "apigateway_rest_api",
                       "apigateway_http_api", "iot_thing", "route_table", "vpc", "subnet"}
      PROVE  Same(Item(r, o), Item(r, Answers))
  BY <1>1, <1>4 DEF Item, cloudfront_item, acm_one_region, apigw_rest_one_region, apigw_http_one_region,
     iot_things_one_region, route_tables_one_region, ec2_vpcs_one_region, ec2_subnets_one_region
<1>5. ASSUME r.type \in {"nat_gateway", "internet_gateway", "security_group", "ecs_cluster", "ecs_service",
                       "elasticache_cluster", "redshift_cluster", "cloudwatch_log_group", "iam_role", "iam_user"}
      PROVE  Same(Item(r, o), Item(r, Answers))
  BY <1>1, <1>5 DEF Item, nat_one_region, igw_one_region, sg_one_region, ecs_clusters_one_region,
     ecs_services_one_region, elasticache_clusters_one_region, redshift_clusters_one_region,
     cloudwatch_log_groups_one_region, iam_roles_item, iam_users_item
<1>6. ASSUME r.type \in {"eks_cluster", "opensearch_domain", "kinesis_stream", "dynamodb_table"}
      PROVE  Same(Item(r, o), Item(r, Answers))
  BY <1>1, <1>2, <1>6, CallsUsed, ZenonT(60) DEF Item, eks_clusters_one_region, opensearch_domains_one_region,
     kinesis_streams_one_region, dynamodb_tables_one_region
<1>7. ASSUME r.type \in {"sqs_queue", "sns_topic"}
      PROVE  Same(Item(r, o), Item(r, Answers))
  <2>1. \A c \in Calls : Raise(o[c]).out # "row"
    BY RaiseIs DEF CallOutcomes
  <2>2. Item(r, o) = SnapshotRow(r, NoConfig, r.x.tags)
    BY <1>2, <1>7, <2>1 DEF Calls, Item, sqs_queues_one_region, sns_topics_one_region
  <2>3. Item(r, Answers) = SnapshotRow(r, NoConfig, r.x.tags)
    BY <1>7, CallsUsed DEF Item, sqs_queues_one_region, sns_topics_one_region
  <2> QED BY <1>1, <2>2, <2>3
<1>8. Same(Item(r, o), Item(r, Answers))
  <2>1. r.type \in {"ec2_instance", "ebs_volume", "rds_instance", "aurora_cluster", "lambda_function", "s3_bucket"}
        \/ r.type \in EXTENDED_TAGGABLE_RESOURCE_TYPES
    BY DEF ResourceTypes
  <2> QED BY <1>3, <1>4, <1>5, <1>6, <1>7, <2>1 DEF Partial, EXTENDED_TAGGABLE_RESOURCE_TYPES, Same
<1> QED BY <1>8 DEF Tells, Same, Partial

\* A row that does.
LEMMA PartialTells ==
  ASSUME NEW r, NEW o \in [Calls -> CallOutcomes], r.type \in Partial, About(Item(r, o), r)
  PROVE  Tells(Item(r, o).row, Item(r, Answers).row)
<1> DEFINE s == Item(r, o).row
           a == Item(r, Answers).row
<1>1. Item(r, o).out = "row" /\ Drop.out # "row"
  BY DropIs DEF About
<1>2. CASE r.type \in {"rds_instance", "lambda_function"}
  <2>1. /\ Item(r, o) = IF r.type = "rds_instance" THEN normalize_rds_instance(r, o)
                        ELSE normalize_lambda_function(r, o)
        /\ Item(r, Answers) = IF r.type = "rds_instance" THEN normalize_rds_instance(r, Answers)
                              ELSE normalize_lambda_function(r, Answers)
    BY <1>2 DEF Item
  <2>2. s.id = r.id /\ a.id = r.id /\ s.type = r.type /\ a.type = r.type
    BY <2>1, RowGet DEF normalize_rds_instance, normalize_lambda_function
  <2>3. /\ \A k \in KnownKeys : Get(s, k) = Get(a, k)
        /\ \A k \in NoneKeys : Get(s, k) \in {NULL, Get(a, k)}
    <3>1. CASE r.type = "rds_instance"
      <4>1. /\ s.cfg = [db_instance_class      |-> r.x.db_instance_class,
                        publicly_accessible    |-> r.x.publicly_accessible,
                        db_cluster_identifier  |-> r.x.db_cluster_identifier,
                        cpu_utilization_avg_7d |-> cw_7d(o, r.x.cpu),
                        db_connections_avg_7d  |-> cw_7d(o, r.x.connections),
                        storage_free_ratio_7d  |-> storage_free_ratio(r.x, cw_7d(o, r.x.free))]
            /\ a.cfg = [db_instance_class      |-> r.x.db_instance_class,
                        publicly_accessible    |-> r.x.publicly_accessible,
                        db_cluster_identifier  |-> r.x.db_cluster_identifier,
                        cpu_utilization_avg_7d |-> cw_7d(Answers, r.x.cpu),
                        db_connections_avg_7d  |-> cw_7d(Answers, r.x.connections),
                        storage_free_ratio_7d  |-> storage_free_ratio(r.x, cw_7d(Answers, r.x.free))]
        BY <2>1, <3>1, RowGet DEF normalize_rds_instance
      <4>2. \A v : cw_7d(Answers, v) = v /\ cw_7d(o, v) \in {NULL, v}
        BY CallsUsed DEF cw_7d, Known
      <4>3. storage_free_ratio(r.x, NULL) = NULL
        BY DEF storage_free_ratio
      <4>4. storage_free_ratio(r.x, cw_7d(o, r.x.free)) \in {NULL, storage_free_ratio(r.x, r.x.free)}
        BY <4>2, <4>3
      <4> HIDE DEF s, a
      <4> QED BY <4>1, <4>2, <4>4 DEF Get, KnownKeys, NoneKeys
    <3>2. CASE r.type = "lambda_function"
      <4>1. /\ s.cfg = [runtime |-> r.x.runtime, memory_size |-> r.x.memory_size, timeout |-> r.x.timeout,
                        invocations_sum_7d           |-> cw_7d(o, r.x.invocations),
                        duration_avg_ms_7d           |-> cw_7d(o, r.x.duration),
                        concurrent_executions_max_7d |-> cw_7d(o, r.x.concurrency),
                        reserved_concurrency         |-> Known(o, "concurrency", r.x.reserved)]
            /\ a.cfg = [runtime |-> r.x.runtime, memory_size |-> r.x.memory_size, timeout |-> r.x.timeout,
                        invocations_sum_7d           |-> cw_7d(Answers, r.x.invocations),
                        duration_avg_ms_7d           |-> cw_7d(Answers, r.x.duration),
                        concurrent_executions_max_7d |-> cw_7d(Answers, r.x.concurrency),
                        reserved_concurrency         |-> Known(Answers, "concurrency", r.x.reserved)]
        BY <2>1, <3>2, RowGet DEF normalize_lambda_function
      <4>2. \A v : cw_7d(Answers, v) = v /\ cw_7d(o, v) \in {NULL, v}
        BY CallsUsed DEF cw_7d, Known
      <4> HIDE DEF s, a
      <4> QED BY <4>1, <4>2 DEF Get, KnownKeys, NoneKeys
    <3> QED BY <1>2, <3>1, <3>2
  <2> HIDE DEF s, a
  <2>4. Tells(s, a)
    BY <1>2, <2>2, <2>3 DEF Tells, Partial
  <2> QED BY <2>4 DEF s, a
<1>3. CASE r.type = "s3_bucket"
  <2>1. Item(r, o) = normalize_s3_bucket(r, o) /\ Item(r, Answers) = normalize_s3_bucket(r, Answers)
    BY <1>3 DEF Item
  <2>2. Raise(o["tags"]).out # "row"
    BY RaiseIs DEF CallOutcomes, Calls
  <2>3. fetch_s3_bucket_tags(r, o).ok
    BY <1>1, <2>1, <2>2 DEF normalize_s3_bucket
  <2>4. fetch_s3_bucket_tags(r, Answers).ok
    BY CallsUsed DEF fetch_s3_bucket_tags
  <2>5. s.id = r.id /\ a.id = r.id /\ s.type = r.type /\ a.type = r.type
    BY <2>1, <2>3, <2>4, RowGet DEF normalize_s3_bucket
  <2> DEFINE cfg(p) == [versioning_status     |-> IF p["versioning"] = "ok" THEN r.x.versioning ELSE "unknown",
                        encryption_enabled    |-> Known(p, "encryption", r.x.encryption),
                        public_access_block   |-> Known(p, "public_access", r.x.public_access_block),
                        lifecycle_rules_count |-> IF p["lifecycle"] = "ok" THEN r.x.lifecycle ELSE 0,
                        bucket_size_gb        |-> cw_7d(p, r.x.size_gb)]
  <2>6. s.cfg = cfg(o) /\ a.cfg = cfg(Answers)
    BY <2>1, <2>3, <2>4, RowGet DEF normalize_s3_bucket
  <2>7. \A v : /\ cw_7d(Answers, v) = v /\ cw_7d(o, v) \in {NULL, v}
               /\ Known(Answers, "encryption", v) = v /\ Known(o, "encryption", v) \in {NULL, v}
    BY CallsUsed DEF cw_7d, Known
  <2> HIDE DEF s, a
  <2>8. /\ \A k \in KnownKeys : Get(s, k) = Get(a, k)
        /\ \A k \in NoneKeys : Get(s, k) \in {NULL, Get(a, k)}
    BY <2>6, <2>7 DEF Get, KnownKeys, NoneKeys
  <2>9. Tells(s, a)
    BY <1>3, <2>5, <2>8 DEF Tells, Partial
  <2> QED BY <2>9 DEF s, a
<1>4. CASE r.type = "eventbridge_rule"
  <2> DEFINE cfg(p) == [state |-> r.x.state,
                        target_count |-> IF p["targets"] = "ok" THEN r.x.target_count ELSE 0]
  <2>1. /\ s.id = r.id /\ a.id = r.id /\ s.type = r.type /\ a.type = r.type
        /\ s.cfg = cfg(o) /\ a.cfg = cfg(Answers)
    BY <1>4, RowGet DEF Item, events_rules_one_region
  <2> HIDE DEF s, a
  <2>2. /\ \A k \in KnownKeys : Get(s, k) = Get(a, k)
        /\ \A k \in NoneKeys : Get(s, k) \in {NULL, Get(a, k)}
    BY <2>1 DEF Get, KnownKeys, NoneKeys
  <2>3. Tells(s, a)
    BY <1>4, <2>1, <2>2 DEF Tells, Partial
  <2> QED BY <2>3 DEF s, a
<1>5. CASE r.type = "ses_email_identity"
  <2> DEFINE full == [verification_status |-> r.x.verification_status, sending_enabled |-> r.x.sending_enabled]
  <2>1. /\ s.id = r.id /\ a.id = r.id /\ s.type = r.type /\ a.type = r.type
        /\ s.cfg \in {full, NoConfig} /\ a.cfg = full
    BY <1>5, RowGet, CallsUsed DEF Item, ses_identities_one_region
  <2> HIDE DEF s, a
  <2>2. /\ \A k \in KnownKeys : Get(s, k) = Get(a, k)
        /\ \A k \in NoneKeys : Get(s, k) \in {NULL, Get(a, k)}
    BY <2>1 DEF Get, KnownKeys, NoneKeys, NoConfig
  <2>3. Tells(s, a)
    BY <1>5, <2>1, <2>2 DEF Tells, Partial
  <2> QED BY <2>3 DEF s, a
<1>6. CASE r.type = "kms_key"
  <2> DEFINE cfg(p) == [rotation_enabled |-> Known(p, "rotation", r.x.rotation)]
  <2>1. Item(r, o) = SnapshotRow(r, cfg(o), TagsOrNone(r, o))
    BY <1>1, <1>6 DEF Item, kms_keys_one_region
  <2>2. Item(r, Answers) = SnapshotRow(r, cfg(Answers), TagsOrNone(r, Answers))
    BY <1>6, CallsUsed DEF Item, kms_keys_one_region
  <2>3. /\ s.id = r.id /\ a.id = r.id /\ s.type = r.type /\ a.type = r.type
        /\ s.cfg = cfg(o) /\ a.cfg = cfg(Answers)
    BY <2>1, <2>2, RowGet
  <2>4. /\ Known(Answers, "rotation", r.x.rotation) = r.x.rotation
        /\ Known(o, "rotation", r.x.rotation) \in {NULL, r.x.rotation}
    BY CallsUsed DEF Known
  <2> HIDE DEF s, a
  <2>5. /\ \A k \in KnownKeys : Get(s, k) = Get(a, k)
        /\ \A k \in NoneKeys : Get(s, k) \in {NULL, Get(a, k)}
    BY <2>3, <2>4 DEF Get, KnownKeys, NoneKeys
  <2>6. Tells(s, a)
    BY <1>6, <2>3, <2>5 DEF Tells, Partial
  <2> QED BY <2>6 DEF s, a
<1>7. CASE r.type = "rds_parameter_group"
  <2>1. s.id = r.id /\ a.id = r.id /\ s.type = r.type /\ a.type = r.type
    BY <1>7, RowGet DEF Item, rds_parameter_groups_one_region
  <2> HIDE DEF s, a
  <2>2. Tells(s, a)
    BY <1>7, <2>1 DEF Tells, Partial
  <2> QED BY <2>2 DEF s, a
<1>8. CASE r.type = "load_balancer"
  <2> DEFINE seen(p, call, n) == IF p[call] = "ok" THEN n ELSE 0
             cfg(p) == [deletion_protection_enabled   |-> p["attributes"] = "ok" /\ r.x.deletion_protection,
                        target_group_count            |-> seen(p, "groups", r.x.target_groups),
                        healthy_target_count          |-> seen(p, "groups", seen(p, "health", r.x.healthy)),
                        unhealthy_target_count        |-> seen(p, "groups", seen(p, "health", r.x.unhealthy)),
                        listener_count                |-> seen(p, "listeners", r.x.listeners),
                        listener_forward_action_count |-> seen(p, "listeners", r.x.forwards)]
  <2>1. /\ s.id = r.id /\ a.id = r.id /\ s.type = r.type /\ a.type = r.type
        /\ s.cfg = cfg(o) /\ a.cfg = cfg(Answers)
    BY <1>8, RowGet DEF Item, elbv2_one_region
  <2>2. \A n : /\ seen(o, "groups", seen(o, "health", n)) \in {0, n}
               /\ seen(Answers, "groups", seen(Answers, "health", n)) = n
    BY CallsUsed
  <2> HIDE DEF s, a, seen
  <2>3. \A k \in {"healthy_target_count", "unhealthy_target_count"} : Get(s, k) \in {0, Get(a, k)}
    BY <2>1, <2>2 DEF Get
  <2>4. Tells(s, a)
    BY <1>8, <2>1, <2>3 DEF Tells, Partial
  <2> QED BY <2>4 DEF s, a
<1>9. CASE r.type = "target_group"
  <2> DEFINE seen(p, n) == IF p["health"] = "ok" THEN n ELSE 0
             cfg(p) == [healthy_count                 |-> seen(p, r.x.healthy),
                        unhealthy_count               |-> seen(p, r.x.unhealthy),
                        total_targets                 |-> seen(p, r.x.total),
                        health_check_enabled          |-> r.x.health_check_enabled,
                        health_check_interval_seconds |-> r.x.interval,
                        health_check_timeout_seconds  |-> r.x.timeout,
                        unhealthy_threshold_count     |-> r.x.threshold,
                        stickiness_enabled            |-> p["attributes"] = "ok" /\ r.x.sticky,
                        deregistration_delay_seconds  |-> IF p["attributes"] = "ok" THEN r.x.delay ELSE 30]
  <2>1. /\ s.id = r.id /\ a.id = r.id /\ s.type = r.type /\ a.type = r.type
        /\ s.cfg = cfg(o) /\ a.cfg = cfg(Answers)
    BY <1>9, RowGet DEF Item, target_groups_one_region
  <2> HIDE DEF s, a
  <2>2. \A k \in {"health_check_enabled", "health_check_interval_seconds", "health_check_timeout_seconds",
                  "unhealthy_threshold_count"} : Get(s, k) = Get(a, k)
    BY <2>1 DEF Get
  <2>3. Get(s, "deregistration_delay_seconds") \in {30, Get(a, "deregistration_delay_seconds")}
    BY <2>1, CallsUsed DEF Get
  <2>4. \/ \A k \in {"healthy_count", "unhealthy_count", "total_targets"} : Get(s, k) = Get(a, k)
        \/ \A k \in {"healthy_count", "unhealthy_count", "total_targets"} : Get(s, k) = 0
    BY <2>1, CallsUsed DEF Get
  <2>5. Tells(s, a)
    BY <1>9, <2>1, <2>2, <2>3, <2>4 DEF Tells, Partial
  <2> QED BY <2>5 DEF s, a
<1> QED BY <1>2, <1>3, <1>4, <1>5, <1>6, <1>7, <1>8, <1>9 DEF Partial

\* Each row of S but those of clusters is told by one of T.
Told(S, T) == \A s \in S : s.type # "aurora_cluster" => \E a \in T : Tells(s, a)

\* A finding that failed calls may produce, or one with the same subject among G.
Backed(f, G) == f.ftype \in FailureReadsAsProblem \/ \E g \in G : Subject(g) = Subject(f)

\* the findings of one detector block
Finds(A, ft, sev) == {Find(s, ft, sev) : s \in A}

\* A block whose rows are told by rows it picks, too, is backed; so is one whose type a
\* failure can produce.
LEMMA FindsBacked ==
  ASSUME NEW A, NEW B, NEW ft, NEW sev, NEW G,
         ft \in FailureReadsAsProblem \/ \A s \in A : \E a \in B : Tells(s, a),
         Finds(B, ft, sev) \subseteq G
  PROVE  \A f \in Finds(A, ft, sev) : Backed(f, G)
<1> SUFFICES ASSUME NEW s \in A PROVE Backed(Find(s, ft, sev), G)
  BY DEF Finds
<1>1. CASE ft \in FailureReadsAsProblem
  BY <1>1 DEF Find, Backed
<1>2. CASE \A q \in A : \E a \in B : Tells(q, a)
  <2>1. PICK a \in B : Tells(s, a)
    BY <1>2
  <2>2. Find(a, ft, sev) \in G
    BY DEF Finds
  <2>3. Subject(Find(a, ft, sev)) = Subject(Find(s, ft, sev))
    BY <2>1 DEF Tells, Subject, Find
  <2> QED BY <2>2, <2>3 DEF Backed
<1> QED BY <1>1, <1>2

\* None is not a flag.
LEMMA NoneIsNot == NULL # FALSE
BY InventoryAssumption

\* What the row that tells another has in common with it.
LEMMA PlainTold ==
  ASSUME NEW S, NEW T, Told(S, T), NEW t, t \notin Partial \cup {"aurora_cluster"}
  PROVE  \A s \in OfType(S, t) : \E a \in OfType(T, t) : Tells(s, a) /\ \A k : Get(a, k) = Get(s, k)
BY DEF Told, Tells, OfType, Get

LEMMA PartialTold ==
  ASSUME NEW S, NEW T, Told(S, T),
         NEW t \in Partial \ {"load_balancer", "target_group", "rds_parameter_group"}
  PROVE  \A s \in OfType(S, t) : \E a \in OfType(T, t) :
           /\ Tells(s, a)
           /\ \A k \in KnownKeys : Get(s, k) = Get(a, k)
           /\ \A k \in NoneKeys : Get(s, k) \in {NULL, Get(a, k)}
BY DEF Told, Tells, OfType, Partial

\* The detectors of rows that do not depend on the calls, or leave None what was not read.
LEMMA CloudFrontBacked ==
  ASSUME NEW S, NEW T, Told(S, T)
  PROVE  \A f \in cloudfront_findings(S) : Backed(f, cloudfront_findings(T))
<1> DEFINE A(X) == {s \in OfType(X, "cloudfront_distribution") :
                        Get(s, "viewer_protocol_policy") = "allow-all"}
           B(X) == {s \in OfType(X, "cloudfront_distribution") :
                        Get(s, "viewer_protocol_policy") \notin {NULL, "redirect-to-https"}}
           C(X) == {s \in OfType(X, "cloudfront_distribution") : Get(s, "enabled") = FALSE}
<1>1. \A X : cloudfront_findings(X) = Finds(A(X), "cloudfront_insecure_viewer_protocol_policy", "high")
                       \cup Finds(B(X), "cloudfront_missing_https_redirect", "medium")
                       \cup Finds(C(X), "cloudfront_disabled_distribution_review", "low")
  BY DEF cloudfront_findings, Each, Finds
<1>2. \A s \in A(S) : \E a \in A(T) : Tells(s, a)
  <2>1. "cloudfront_distribution" \notin Partial \cup {"aurora_cluster"}
    BY DEF Partial
  <2> QED BY <2>1, PlainTold
<1>3. \A s \in B(S) : \E a \in B(T) : Tells(s, a)
  <2>1. "cloudfront_distribution" \notin Partial \cup {"aurora_cluster"}
    BY DEF Partial
  <2> QED BY <2>1, PlainTold
<1>4. \A s \in C(S) : \E a \in C(T) : Tells(s, a)
  <2>1. "cloudfront_distribution" \notin Partial \cup {"aurora_cluster"}
    BY DEF Partial
  <2> QED BY <2>1, PlainTold
<1> HIDE DEF A, B, C
<1> QED BY <1>1, <1>2, <1>3, <1>4, FindsBacked

LEMMA ExpiryBacked ==
  ASSUME NEW S, NEW T, Told(S, T)
  PROVE  \A f \in acm_expiry_findings(S) : Backed(f, acm_expiry_findings(T))
<1> DEFINE A(X) == {s \in OfType(X, "acm_certificate") :
                        /\ Get(s, "not_after") # NULL /\ 0 < Get(s, "not_after")
                        /\ Get(s, "not_after") <= 30}
<1>1. \A X : acm_expiry_findings(X) = Finds(A(X), "acm_certificate_expiring_soon", "high")
  BY DEF acm_expiry_findings, Each, Finds
<1>2. \A s \in A(S) : \E a \in A(T) : Tells(s, a)
  <2>1. "acm_certificate" \notin Partial \cup {"aurora_cluster"}
    BY DEF Partial
  <2> QED BY <2>1, PlainTold
<1> HIDE DEF A
<1> QED BY <1>1, <1>2, FindsBacked

LEMMA StatusBacked ==
  ASSUME NEW S, NEW T, Told(S, T)
  PROVE  \A f \in acm_status_findings(S) : Backed(f, acm_status_findings(T))
<1> DEFINE A(X) == {s \in OfType(X, "acm_certificate") : Get(s, "status") = "PENDING_VALIDATION"}
           B(X) == {s \in OfType(X, "acm_certificate") :
                        Get(s, "status") \in {"FAILED", "VALIDATION_TIMED_OUT", "REVOKED"}}
<1>1. \A X : acm_status_findings(X) = Finds(A(X), "acm_certificate_pending_validation", "medium")
                       \cup Finds(B(X), "acm_certificate_validation_issue", "high")
  BY DEF acm_status_findings, Each, Finds
<1>2. \A s \in A(S) : \E a \in A(T) : Tells(s, a)
  <2>1. "acm_certificate" \notin Partial \cup {"aurora_cluster"}
    BY DEF Partial
  <2> QED BY <2>1, PlainTold
<1>3. \A s \in B(S) : \E a \in B(T) : Tells(s, a)
  <2>1. "acm_certificate" \notin Partial \cup {"aurora_cluster"}
    BY DEF Partial
  <2> QED BY <2>1, PlainTold
<1> HIDE DEF A, B
<1> QED BY <1>1, <1>2, <1>3, FindsBacked

LEMMA GroupBacked ==
  ASSUME NEW S, NEW T, Told(S, T)
  PROVE  \A f \in security_group_findings(S) : Backed(f, security_group_findings(T))
<1> DEFINE A(X) == {s \in OfType(X, "security_group") : WorldOpen(s)}
           B(X) == {s \in OfType(X, "security_group") :
                        ~WorldOpen(s) /\ IntOr(s, "ingress_rule_count", 0) >= 8}
<1>1. \A X : security_group_findings(X) = Finds(A(X), "security_group_world_open_sensitive_port", "high")
                       \cup Finds(B(X), "security_group_overly_permissive", "medium")
  BY DEF security_group_findings, Each, Finds
<1>2. \A s \in A(S) : \E a \in A(T) : Tells(s, a)
  <2>1. "security_group" \notin Partial \cup {"aurora_cluster"}
    BY DEF Partial
  <2> QED BY <2>1, PlainTold, ZenonT(60) DEF WorldOpen, Truthy
<1>3. \A s \in B(S) : \E a \in B(T) : Tells(s, a)
  <2>1. "security_group" \notin Partial \cup {"aurora_cluster"}
    BY DEF Partial
  <2>2. \A s, a : (\A k : Get(a, k) = Get(s, k)) =>
          /\ (WorldOpen(a) <=> WorldOpen(s))
          /\ IntOr(a, "ingress_rule_count", 0) = IntOr(s, "ingress_rule_count", 0)
    BY DEF IntOr, WorldOpen, Truthy
  <2> QED BY <2>1, <2>2, PlainTold
<1> HIDE DEF A, B
<1> QED BY <1>1, <1>2, <1>3, FindsBacked

LEMMA RouteBacked ==
  ASSUME NEW S, NEW T, Told(S, T)
  PROVE  \A f \in route_table_findings(S) : Backed(f, route_table_findings(T))
<1> DEFINE A(X) == {s \in OfType(X, "route_table") : IntOr(s, "association_count", 0) = 0}
           B(X) == {s \in OfType(X, "route_table") :
                        Truthy(s, "has_igw_default_route") /\ ~Truthy(s, "has_nat_default_route")}
<1>1. \A X : route_table_findings(X) = Finds(A(X), "route_table_unassociated_review", "low")
                       \cup Finds(B(X), "route_table_public_default_route_review", "medium")
  BY DEF route_table_findings, Each, Finds
<1>2. \A s \in A(S) : \E a \in A(T) : Tells(s, a)
  <2>1. "route_table" \notin Partial \cup {"aurora_cluster"}
    BY DEF Partial
  <2> QED BY <2>1, PlainTold DEF IntOr
<1>3. \A s \in B(S) : \E a \in B(T) : Tells(s, a)
  <2>1. "route_table" \notin Partial \cup {"aurora_cluster"}
    BY DEF Partial
  <2> QED BY <2>1, PlainTold, ZenonT(60) DEF Truthy
<1> HIDE DEF A, B
<1> QED BY <1>1, <1>2, <1>3, FindsBacked

LEMMA GatewayBacked ==
  ASSUME NEW S, NEW T, Told(S, T)
  PROVE  \A f \in apigateway_findings(S) : Backed(f, apigateway_findings(T))
<1> DEFINE A(X) == {s \in OfType(X, "apigateway_http_api") : Get(s, "api_endpoint") # NULL}
           B(X) == {s \in OfType(X, "apigateway_rest_api") : ~Truthy(s, "disable_execute_api_endpoint")}
<1>1. \A X : apigateway_findings(X) = Finds(A(X), "apigateway_public_exposure_review", "medium")
                       \cup Finds(B(X), "apigateway_public_exposure_review", "medium")
  BY DEF apigateway_findings, Each, Finds
<1>2. \A s \in A(S) : \E a \in A(T) : Tells(s, a)
  <2>1. "apigateway_http_api" \notin Partial \cup {"aurora_cluster"}
    BY DEF Partial
  <2> QED BY <2>1, PlainTold
<1>3. \A s \in B(S) : \E a \in B(T) : Tells(s, a)
  <2>1. "apigateway_rest_api" \notin Partial \cup {"aurora_cluster"}
    BY DEF Partial
  <2> QED BY <2>1, PlainTold DEF Truthy
<1> HIDE DEF A, B
<1> QED BY <1>1, <1>2, <1>3, FindsBacked

LEMMA EventBacked ==
  ASSUME NEW S, NEW T, Told(S, T)
  PROVE  \A f \in eventbridge_findings(S) : Backed(f, eventbridge_findings(T))
<1> DEFINE A(X) == {s \in OfType(X, "eventbridge_rule") : IntOr(s, "target_count", 0) = 0}
           B(X) == {s \in OfType(X, "eventbridge_rule") : Get(s, "state") = "DISABLED"}
<1>1. \A X : eventbridge_findings(X) = Finds(A(X), "eventbridge_rule_without_targets", "medium")
                       \cup Finds(B(X), "eventbridge_rule_disabled_review", "low")
  BY DEF eventbridge_findings, Each, Finds
<1>2. "eventbridge_rule_without_targets" \in FailureReadsAsProblem
  BY DEF FailureReadsAsProblem
<1>3. \A s \in B(S) : \E a \in B(T) : Tells(s, a)
  <2>1. "eventbridge_rule" \in Partial \ {"load_balancer", "target_group", "rds_parameter_group"}
    BY DEF Partial
  <2>2. \A s \in OfType(S, "eventbridge_rule") : \E a \in OfType(T, "eventbridge_rule") :
          /\ Tells(s, a)
          /\ Get(s, "state") = Get(a, "state")
    BY <2>1, PartialTold DEF KnownKeys, NoneKeys
  <2> QED BY <2>2, NoneIsNot
<1> HIDE DEF A, B
<1> QED BY <1>1, <1>2, <1>3, FindsBacked

LEMMA MailBacked ==
  ASSUME NEW S, NEW T, Told(S, T)
  PROVE  \A f \in ses_findings(S) : Backed(f, ses_findings(T))
<1> DEFINE A(X) == {s \in OfType(X, "ses_email_identity") :
                        Get(s, "verification_status") \notin {NULL, "SUCCESS"}}
           B(X) == {s \in OfType(X, "ses_email_identity") : Get(s, "sending_enabled") = FALSE}
<1>1. \A X : ses_findings(X) = Finds(A(X), "ses_identity_unverified", "medium")
                       \cup Finds(B(X), "ses_sending_disabled_identity", "medium")
  BY DEF ses_findings, Each, Finds
<1>2. \A s \in A(S) : \E a \in A(T) : Tells(s, a)
  <2>1. "ses_email_identity" \in Partial \ {"load_balancer", "target_group", "rds_parameter_group"}
    BY DEF Partial
  <2>2. \A s \in OfType(S, "ses_email_identity") : \E a \in OfType(T, "ses_email_identity") :
          /\ Tells(s, a)
          /\ Get(s, "verification_status") \in {NULL, Get(a, "verification_status")}
    BY <2>1, PartialTold DEF KnownKeys, NoneKeys
  <2> QED BY <2>2, NoneIsNot
<1>3. \A s \in B(S) : \E a \in B(T) : Tells(s, a)
  <2>1. "ses_email_identity" \in Partial \ {"load_balancer", "target_group", "rds_parameter_group"}
    BY DEF Partial
  <2>2. \A s \in OfType(S, "ses_email_identity") : \E a \in OfType(T, "ses_email_identity") :
          /\ Tells(s, a)
          /\ Get(s, "sending_enabled") \in {NULL, Get(a, "sending_enabled")}
    BY <2>1, PartialTold DEF KnownKeys, NoneKeys
  <2> QED BY <2>2, NoneIsNot
<1> HIDE DEF A, B
<1> QED BY <1>1, <1>2, <1>3, FindsBacked

LEMMA RuntimeBacked ==
  ASSUME NEW S, NEW T, Told(S, T)
  PROVE  \A f \in lambda_runtime_findings(S) : Backed(f, lambda_runtime_findings(T))
<1> DEFINE A(X) == {s \in OfType(X, "lambda_function") : Get(s, "runtime") \in OutdatedRuntimes}
           B(X) == {s \in OfType(X, "lambda_function") : AtLeast(s, "timeout", 120)}
<1>1. \A X : lambda_runtime_findings(X) = Finds(A(X), "lambda_outdated_runtime", "high")
                       \cup Finds(B(X), "lambda_review_timeout_configuration", "medium")
  BY DEF lambda_runtime_findings, Each, Finds
<1>2. \A s \in A(S) : \E a \in A(T) : Tells(s, a)
  <2>1. "lambda_function" \in Partial \ {"load_balancer", "target_group", "rds_parameter_group"}
    BY DEF Partial
  <2>2. \A s \in OfType(S, "lambda_function") : \E a \in OfType(T, "lambda_function") :
          /\ Tells(s, a)
          /\ Get(s, "runtime") = Get(a, "runtime")
    BY <2>1, PartialTold DEF KnownKeys, NoneKeys
  <2> QED BY <2>2, NoneIsNot DEF OutdatedRuntimes
<1>3. \A s \in B(S) : \E a \in B(T) : Tells(s, a)
  <2>1. "lambda_function" \in Partial \ {"load_balancer", "target_group", "rds_parameter_group"}
    BY DEF Partial
  <2>2. \A s \in OfType(S, "lambda_function") : \E a \in OfType(T, "lambda_function") :
          /\ Tells(s, a)
          /\ Get(s, "timeout") = Get(a, "timeout")
    BY <2>1, PartialTold DEF KnownKeys, NoneKeys
  <2> QED BY <2>2, NoneIsNot DEF AtLeast
<1> HIDE DEF A, B
<1> QED BY <1>1, <1>2, <1>3, FindsBacked

LEMMA KeyBacked ==
  ASSUME NEW S, NEW T, Told(S, T)
  PROVE  \A f \in kms_findings(S) : Backed(f, kms_findings(T))
<1> DEFINE A(X) == {s \in OfType(X, "kms_key") : Get(s, "rotation_enabled") = FALSE}
<1>1. \A X : kms_findings(X) = Finds(A(X), "kms_key_rotation_disabled", "medium")
  BY DEF kms_findings, Each, Finds
<1>2. \A s \in A(S) : \E a \in A(T) : Tells(s, a)
  <2>1. "kms_key" \in Partial \ {"load_balancer", "target_group", "rds_parameter_group"}
    BY DEF Partial
  <2>2. \A s \in OfType(S, "kms_key") : \E a \in OfType(T, "kms_key") :
          /\ Tells(s, a)
          /\ Get(s, "rotation_enabled") \in {NULL, Get(a, "rotation_enabled")}
    BY <2>1, PartialTold DEF KnownKeys, NoneKeys
  <2> QED BY <2>2, NoneIsNot
<1> HIDE DEF A
<1> QED BY <1>1, <1>2, FindsBacked

\* Functions and buckets.
LEMMA FunctionBacked ==
  ASSUME NEW S, NEW T, Told(S, T)
  PROVE  \A f \in detect_lambda_findings(S) : Backed(f, detect_lambda_findings(T))
<1> DEFINE A(X) == {s \in OfType(X, "lambda_function") : Untagged(s)}
           B(X) == {s \in OfType(X, "lambda_function") : HighMemory(s)}
           C(X) == {s \in OfType(X, "lambda_function") : Below(s, "invocations_sum_7d", 100)}
           D(X) == {s \in OfType(X, "lambda_function") :
                        HighMemory(s) /\ Below(s, "duration_avg_ms_7d", 500)}
           E(X) == {s \in OfType(X, "lambda_function") :
                        /\ AtLeast(s, "concurrent_executions_max_7d", 50) /\ Get(s, "reserved_concurrency") = NULL}
<1>1. \A X : detect_lambda_findings(X) = Finds(A(X), "lambda_missing_required_tags", "medium")
                       \cup Finds(B(X), "lambda_high_memory_configuration_candidate", "medium")
                       \cup Finds(C(X), "lambda_low_utilization", "low")
                       \cup Finds(D(X), "lambda_excessive_memory_allocation", "medium")
                       \cup Finds(E(X), "lambda_concurrency_risk", "medium")
  BY DEF detect_lambda_findings, Each, Finds, lambda_configuration_findings, lambda_utilization_findings
<1>2. "lambda_missing_required_tags" \in FailureReadsAsProblem
  BY DEF FailureReadsAsProblem
<1>3. \A s \in B(S) : \E a \in B(T) : Tells(s, a)
  <2>1. "lambda_function" \in Partial \ {"load_balancer", "target_group", "rds_parameter_group"}
    BY DEF Partial
  <2>2. \A s \in OfType(S, "lambda_function") : \E a \in OfType(T, "lambda_function") :
          /\ Tells(s, a)
          /\ Get(s, "memory_size") = Get(a, "memory_size")
    BY <2>1, PartialTold DEF KnownKeys, NoneKeys
  <2> QED BY <2>2, NoneIsNot DEF HighMemory, AtLeast
<1>4. \A s \in C(S) : \E a \in C(T) : Tells(s, a)
  <2>1. "lambda_function" \in Partial \ {"load_balancer", "target_group", "rds_parameter_group"}
    BY DEF Partial
  <2>2. \A s \in OfType(S, "lambda_function") : \E a \in OfType(T, "lambda_function") :
          /\ Tells(s, a)
          /\ Get(s, "invocations_sum_7d") \in {NULL, Get(a, "invocations_sum_7d")}
    BY <2>1, PartialTold DEF KnownKeys, NoneKeys
  <2> QED BY <2>2, NoneIsNot DEF Below
<1>5. \A s \in D(S) : \E a \in D(T) : Tells(s, a)
  <2>1. "lambda_function" \in Partial \ {"load_balancer", "target_group", "rds_parameter_group"}
    BY DEF Partial
  <2>2. \A s \in OfType(S, "lambda_function") : \E a \in OfType(T, "lambda_function") :
          /\ Tells(s, a)
          /\ Get(s, "duration_avg_ms_7d") \in {NULL, Get(a, "duration_avg_ms_7d")}
          /\ Get(s, "memory_size") = Get(a, "memory_size")
    BY <2>1, PartialTold DEF KnownKeys, NoneKeys
  <2> QED BY <2>2, NoneIsNot DEF Below, HighMemory, AtLeast
<1>6. "lambda_concurrency_risk" \in FailureReadsAsProblem
  BY DEF FailureReadsAsProblem
<1> HIDE DEF A, B, C, D, E
<1> QED BY <1>1, <1>2, <1>3, <1>4, <1>5, <1>6, FindsBacked

LEMMA BucketBacked ==
  ASSUME NEW S, NEW T, Told(S, T)
  PROVE  \A f \in detect_s3_findings(S) : Backed(f, detect_s3_findings(T))
<1> DEFINE A(X) == {s \in OfType(X, "s3_bucket") : Untagged(s)}
           B(X) == {s \in OfType(X, "s3_bucket") : ~Truthy(s, "public_access_block")}
           C(X) == {s \in OfType(X, "s3_bucket") : Get(s, "versioning_status") # "Enabled"}
           D(X) == {s \in OfType(X, "s3_bucket") : NoLifecycle(s)}
           E(X) == {s \in OfType(X, "s3_bucket") : Get(s, "encryption_enabled") = FALSE}
           F(X) == {s \in OfType(X, "s3_bucket") : NoLifecycle(s) /\ AtLeast(s, "bucket_size_gb", 50)}
           H(X) == {s \in OfType(X, "s3_bucket") : AtLeast(s, "bucket_size_gb", 100)}
<1>1. \A X : detect_s3_findings(X) = Finds(A(X), "s3_missing_required_tags", "medium")
                       \cup Finds(B(X), "s3_public_access_candidate", "high")
                       \cup Finds(C(X), "s3_versioning_disabled_candidate", "medium")
                       \cup Finds(D(X), "s3_lifecycle_policy_missing", "medium")
                       \cup Finds(E(X), "s3_missing_encryption", "high")
                       \cup Finds(F(X), "s3_no_lifecycle_large_bucket", "medium")
                       \cup Finds(H(X), "s3_infrequent_access_candidate", "low")
  BY DEF detect_s3_findings, Each, Finds, s3_configuration_findings, s3_storage_findings
<1>2. "s3_missing_required_tags" \in FailureReadsAsProblem
  BY DEF FailureReadsAsProblem
<1>3. "s3_public_access_candidate" \in FailureReadsAsProblem
  BY DEF FailureReadsAsProblem
<1>4. "s3_versioning_disabled_candidate" \in FailureReadsAsProblem
  BY DEF FailureReadsAsProblem
<1>5. "s3_lifecycle_policy_missing" \in FailureReadsAsProblem
  BY DEF FailureReadsAsProblem
<1>6. \A s \in E(S) : \E a \in E(T) : Tells(s, a)
  <2>1. "s3_bucket" \in Partial \ {"load_balancer", "target_group", "rds_parameter_group"}
    BY DEF Partial
  <2>2. \A s \in OfType(S, "s3_bucket") : \E a \in OfType(T, "s3_bucket") :
          /\ Tells(s, a)
          /\ Get(s, "encryption_enabled") \in {NULL, Get(a, "encryption_enabled")}
    BY <2>1, PartialTold DEF KnownKeys, NoneKeys
  <2> QED BY <2>2, NoneIsNot
<1>7. "s3_no_lifecycle_large_bucket" \in FailureReadsAsProblem
  BY DEF FailureReadsAsProblem
<1>8. \A s \in H(S) : \E a \in H(T) : Tells(s, a)
  <2>1. "s3_bucket" \in Partial \ {"load_balancer", "target_group", "rds_parameter_group"}
    BY DEF Partial
  <2>2. \A s \in OfType(S, "s3_bucket") : \E a \in OfType(T, "s3_bucket") :
          /\ Tells(s, a)
          /\ Get(s, "bucket_size_gb") \in {NULL, Get(a, "bucket_size_gb")}
    BY <2>1, PartialTold DEF KnownKeys, NoneKeys
  <2> QED BY <2>2, NoneIsNot DEF AtLeast
<1> HIDE DEF A, B, C, D, E, F, H
<1> QED BY <1>1, <1>2, <1>3, <1>4, <1>5, <1>6, <1>7, <1>8, FindsBacked

\* Balancers and target groups, whose counts are zero when a call fails.
LEMMA BalancerBacked ==
  ASSUME NEW S, NEW T, Told(S, T)
  PROVE  \A f \in load_balancer_findings(S) : Backed(f, load_balancer_findings(T))
<1> DEFINE A(X) == {s \in OfType(X, "load_balancer") : ~Truthy(s, "deletion_protection_enabled")}
           B(X) == {s \in OfType(X, "load_balancer") :
                        IntOr(s, "target_group_count", 0) > 0 /\ IntOr(s, "healthy_target_count", 0) = 0}
           C(X) == {s \in OfType(X, "load_balancer") :
                        /\ IntOr(s, "target_group_count", 0) > 0 /\ IntOr(s, "healthy_target_count", 0) = 0
                        /\ IntOr(s, "listener_count", 0) > 0 /\ IntOr(s, "listener_forward_action_count", 0) > 0}
           D(X) == {s \in OfType(X, "load_balancer") :
                        /\ IntOr(s, "healthy_target_count", 0) > 0 /\ IntOr(s, "unhealthy_target_count", 0) > 0}
<1>1. \A X : load_balancer_findings(X) = Finds(A(X), "load_balancer_deletion_protection_disabled", "medium")
                       \cup Finds(B(X), "load_balancer_no_healthy_targets", "high")
                       \cup Finds(C(X), "load_balancer_no_healthy_traffic_path", "high")
                       \cup Finds(D(X), "load_balancer_partial_failure", "medium")
  BY DEF load_balancer_findings, Each, Finds
<1>2. "load_balancer_deletion_protection_disabled" \in FailureReadsAsProblem
  BY DEF FailureReadsAsProblem
<1>3. "load_balancer_no_healthy_targets" \in FailureReadsAsProblem
  BY DEF FailureReadsAsProblem
<1>4. "load_balancer_no_healthy_traffic_path" \in FailureReadsAsProblem
  BY DEF FailureReadsAsProblem
<1>5. \A s \in D(S) : \E a \in D(T) : Tells(s, a)
  <2>1. \A s \in OfType(S, "load_balancer") : \E a \in OfType(T, "load_balancer") : Tells(s, a)
    BY DEF Told, OfType, Tells
  <2>2. ASSUME NEW s \in D(S), NEW a \in OfType(T, "load_balancer"), Tells(s, a)
        PROVE  a \in D(T)
    BY <2>2 DEF Tells, OfType, IntOr
  <2> QED BY <2>1, <2>2
<1> HIDE DEF A, B, C, D
<1> QED BY <1>1, <1>2, <1>3, <1>4, <1>5, FindsBacked

LEMMA UnusedBacked ==
  ASSUME NEW S, NEW T, Told(S, T)
  PROVE  \A f \in load_balancer_unused_findings(S) : Backed(f, load_balancer_unused_findings(T))
<1> DEFINE A(X) == {s \in OfType(X, "load_balancer") :
                        IntOr(s, "listener_count", 0) = 0 \/ IntOr(s, "target_group_count", 0) = 0}
<1>1. \A X : load_balancer_unused_findings(X) = Finds(A(X), "load_balancer_unused", "low")
  BY DEF load_balancer_unused_findings, Each, Finds
<1>2. "load_balancer_unused" \in FailureReadsAsProblem
  BY DEF FailureReadsAsProblem
<1> HIDE DEF A
<1> QED BY <1>1, <1>2, FindsBacked

LEMMA TargetBacked ==
  ASSUME NEW S, NEW T, Told(S, T)
  PROVE  \A f \in target_group_findings(S) : Backed(f, target_group_findings(T))
<1> DEFINE A(X) == {s \in OfType(X, "target_group") : IntOr(s, "total_targets", 0) = 0}
           B(X) == {s \in OfType(X, "target_group") : IntOr(s, "unhealthy_count", 0) > 0}
           C(X) == {s \in OfType(X, "target_group") :
                        \/ ~Truthy(s, "health_check_enabled")
                        \/ \E k \in {"health_check_interval_seconds", "health_check_timeout_seconds",
                                    "unhealthy_threshold_count"} : IntOr(s, k, 0) <= 0}
           D(X) == {s \in OfType(X, "target_group") :
                        IntOr(s, "total_targets", 0) > 0 /\ IntOr(s, "healthy_count", 0) = 0}
<1>1. \A X : target_group_findings(X) = Finds(A(X), "target_group_no_targets", "medium")
                       \cup Finds(B(X), "target_group_unhealthy_targets", "high")
                       \cup Finds(C(X), "target_group_misconfigured_health_check", "medium")
                       \cup Finds(D(X), "target_group_no_healthy_targets", "high")
  BY DEF target_group_findings, Each, Finds
<1>2. "target_group_no_targets" \in FailureReadsAsProblem
  BY DEF FailureReadsAsProblem
<1>3. \A s \in B(S) : \E a \in B(T) : Tells(s, a)
  <2>1. \A s \in OfType(S, "target_group") : \E a \in OfType(T, "target_group") : Tells(s, a)
    BY DEF Told, OfType, Tells
  <2>2. ASSUME NEW s \in B(S), NEW a \in OfType(T, "target_group"), Tells(s, a)
        PROVE  a \in B(T)
    BY <2>2 DEF Tells, OfType, IntOr
  <2> QED BY <2>1, <2>2
<1>4. \A s \in C(S) : \E a \in C(T) : Tells(s, a)
  <2>1. \A s \in OfType(S, "target_group") : \E a \in OfType(T, "target_group") : Tells(s, a)
    BY DEF Told, OfType, Tells
  <2>2. ASSUME NEW s \in C(S), NEW a \in OfType(T, "target_group"), Tells(s, a)
        PROVE  a \in C(T)
    BY <2>2 DEF Tells, OfType, Truthy, IntOr
  <2> QED BY <2>1, <2>2
<1>5. \A s \in D(S) : \E a \in D(T) : Tells(s, a)
  <2>1. \A s \in OfType(S, "target_group") : \E a \in OfType(T, "target_group") : Tells(s, a)
    BY DEF Told, OfType, Tells
  <2>2. ASSUME NEW s \in D(S), NEW a \in OfType(T, "target_group"), Tells(s, a)
        PROVE  a \in D(T)
    BY <2>2 DEF Tells, OfType, IntOr
  <2> QED BY <2>1, <2>2
<1> HIDE DEF A, B, C, D
<1> QED BY <1>1, <1>2, <1>3, <1>4, <1>5, FindsBacked

LEMMA TuningBacked ==
  ASSUME NEW S, NEW T, Told(S, T)
  PROVE  \A f \in target_group_tuning_findings(S) : Backed(f, target_group_tuning_findings(T))
<1> DEFINE A(X) == {s \in OfType(X, "target_group") : ~Truthy(s, "stickiness_enabled")}
           B(X) == {s \in OfType(X, "target_group") : IntOr(s, "deregistration_delay_seconds", 30) > 60}
<1>1. \A X : target_group_tuning_findings(X) = Finds(A(X), "target_group_stickiness_disabled", "low")
                       \cup Finds(B(X), "target_group_slow_deregistration", "low")
  BY DEF target_group_tuning_findings, Each, Finds
<1>2. "target_group_stickiness_disabled" \in FailureReadsAsProblem
  BY DEF FailureReadsAsProblem
<1>3. \A s \in B(S) : \E a \in B(T) : Tells(s, a)
  <2>1. \A s \in OfType(S, "target_group") : \E a \in OfType(T, "target_group") : Tells(s, a)
    BY DEF Told, OfType, Tells
  <2>2. ASSUME NEW s \in B(S), NEW a \in OfType(T, "target_group"), Tells(s, a)
        PROVE  a \in B(T)
    BY <2>2 DEF Tells, OfType, IntOr
  <2> QED BY <2>1, <2>2
<1> HIDE DEF A, B
<1> QED BY <1>1, <1>2, <1>3, FindsBacked

LEMMA QueryLogBacked ==
  ASSUME NEW S, NEW T, Told(S, T)
  PROVE  \A f \in slow_query_findings(S) : Backed(f, slow_query_findings(T))
<1> DEFINE A(X) == {s \in OfType(X, "rds_parameter_group") : ~Truthy(s, "slow_query_log_enabled")}
<1>1. \A X : slow_query_findings(X) = Finds(A(X), "rds_parameter_group_slow_query_disabled", "low")
  BY DEF slow_query_findings, Each, Finds
<1>2. "rds_parameter_group_slow_query_disabled" \in FailureReadsAsProblem
  BY DEF FailureReadsAsProblem
<1> HIDE DEF A
<1> QED BY <1>1, <1>2, FindsBacked

\* Instances and volumes, whose tags come with the listing.
LEMMA ComputeBacked ==
  ASSUME NEW S, NEW T, Told(S, T)
  PROVE  /\ \A f \in detect_ec2_findings(S) : Backed(f, detect_ec2_findings(T))
         /\ \A f \in detect_ebs_findings(S) : Backed(f, detect_ebs_findings(T))
<1> DEFINE U(X, t) == {s \in OfType(X, t) : Untagged(s)}
           V(X, t, state) == {s \in OfType(X, t) : Get(s, "state") = state}
<1>1. \A X : /\ detect_ec2_findings(X) = Finds(U(X, "ec2_instance"), "ec2_missing_required_tags", "medium")
                   \cup Finds(V(X, "ec2_instance", "stopped"), "ec2_stopped_instance", "medium")
             /\ detect_ebs_findings(X) = Finds(U(X, "ebs_volume"), "ebs_missing_required_tags", "medium")
                   \cup Finds(V(X, "ebs_volume", "available"), "ebs_unattached_volume", "medium")
  BY DEF detect_ec2_findings, detect_ebs_findings, Each, Finds
<1>2. ASSUME NEW t \in {"ec2_instance", "ebs_volume"}
      PROVE  /\ \A s \in U(S, t) : \E a \in U(T, t) : Tells(s, a)
             /\ \A state : \A s \in V(S, t, state) : \E a \in V(T, t, state) : Tells(s, a)
  <2>1. \A s \in OfType(S, t) : \E a \in OfType(T, t) : Tells(s, a) /\ a.tags = s.tags /\ a.cfg = s.cfg
    BY DEF Told, Tells, OfType, Partial
  <2> QED BY <2>1 DEF Untagged, Get
<1> HIDE DEF U, V
<1>3. \A f \in detect_ec2_findings(S) : Backed(f, detect_ec2_findings(T))
  BY <1>1, <1>2, FindsBacked
<1>4. \A f \in detect_ebs_findings(S) : Backed(f, detect_ebs_findings(T))
  BY <1>1, <1>2, FindsBacked
<1> QED BY <1>3, <1>4

\* Databases: what is found of a cluster a failed call may produce.
LEMMA DatabaseBacked ==
  ASSUME NEW S, NEW T, Told(S, T)
  PROVE  \A f \in detect_rds_findings(S) : Backed(f, detect_rds_findings(T))
<1> DEFINE I(X) == OfType(X, "rds_instance")
           C(X) == OfType(X, "aurora_cluster")
           all(X) == rds_configuration_findings(I(X), C(X)) \cup rds_utilization_findings(I(X))
                     \cup aurora_review_findings(I(X), C(X))
           O(X) == {s \in I(X) : Get(s, "db_instance_class") \in OVERPROVISIONED_RDS_INSTANCE_TYPES}
           L(X) == {s \in I(X) : Below(s, "cpu_utilization_avg_7d", 8)}
           H(X) == {s \in I(X) : AtLeast(s, "storage_free_ratio_7d", 70)}
           N(X) == {s \in I(X) : Below(s, "cpu_utilization_avg_7d", 3) /\ Below(s, "db_connections_avg_7d", 2)}
           some(X) == Finds(O(X), "rds_instance_overprovisioned", "medium")
                      \cup Finds(L(X), "rds_low_cpu_underutilized", "medium")
                      \cup Finds(H(X), "rds_high_storage_unused", "low")
                      \cup Finds(N(X), "rds_idle_instance_candidate", "low")
<1>1. \A X : detect_rds_findings(X) = dedupe_aurora_serverless_review_findings(all(X))
  BY DEF detect_rds_findings
<1>2. ASSUME NEW X
      PROVE  /\ \A f \in all(X) : f \in some(X) \/ f.ftype \in FailureReadsAsProblem
             /\ some(X) \subseteq all(X)
             /\ \A f \in some(X) : f.ftype # "aurora_serverless_review_candidate"
  <2>1. /\ \A f \in rds_configuration_findings(I(X), C(X)) :
             \/ f \in Finds(O(X), "rds_instance_overprovisioned", "medium")
             \/ f.ftype \in {"rds_missing_required_tags", "rds_publicly_accessible"}
        /\ Finds(O(X), "rds_instance_overprovisioned", "medium") \subseteq rds_configuration_findings(I(X), C(X))
    BY DEF rds_configuration_findings, Each, Find, Finds
  <2>2. rds_utilization_findings(I(X)) = Finds(L(X), "rds_low_cpu_underutilized", "medium")
                      \cup Finds(H(X), "rds_high_storage_unused", "low")
                      \cup Finds(N(X), "rds_idle_instance_candidate", "low")
    BY DEF rds_utilization_findings, Each, Finds
  <2>3. \A f \in aurora_review_findings(I(X), C(X)) : f.ftype = "aurora_serverless_review_candidate"
    BY DEF aurora_review_findings, AuroraReview, Find
  <2>4. {"rds_missing_required_tags", "rds_publicly_accessible", "aurora_serverless_review_candidate"}
          \subseteq FailureReadsAsProblem
    BY DEF FailureReadsAsProblem
  <2>5. \A f \in some(X) : f.ftype # "aurora_serverless_review_candidate"
    BY DEF Finds, Find
  <2> HIDE DEF I, C, O, L, H, N
  <2> QED BY <2>1, <2>2, <2>3, <2>4, <2>5
<1>3. \A s \in I(S) : \E a \in I(T) : /\ Tells(s, a)
                                      /\ Get(s, "db_instance_class") = Get(a, "db_instance_class")
                                      /\ Get(s, "cpu_utilization_avg_7d") \in {NULL, Get(a, "cpu_utilization_avg_7d")}
                                      /\ Get(s, "db_connections_avg_7d") \in {NULL, Get(a, "db_connections_avg_7d")}
                                      /\ Get(s, "storage_free_ratio_7d") \in {NULL, Get(a, "storage_free_ratio_7d")}
  <2>1. "rds_instance" \in Partial \ {"load_balancer", "target_group", "rds_parameter_group"}
    BY DEF Partial
  <2> QED BY <2>1, PartialTold DEF KnownKeys, NoneKeys
<1> HIDE DEF I
<1>4. \A s \in O(S) : \E a \in O(T) : Tells(s, a)
  BY <1>3
<1>5. \A s \in L(S) : \E a \in L(T) : Tells(s, a)
  BY <1>3 DEF Below
<1>6. \A s \in H(S) : \E a \in H(T) : Tells(s, a)
  BY <1>3 DEF AtLeast
<1>7. \A s \in N(S) : \E a \in N(T) : Tells(s, a)
  BY <1>3 DEF Below
<1> HIDE DEF O, L, H, N
<1>8. some(T) \subseteq detect_rds_findings(T)
  <2> HIDE DEF all, some
  <2> QED BY <1>1, <1>2, DedupeKeeps
<1>9. \A f \in some(S) : Backed(f, detect_rds_findings(T))
  BY <1>4, <1>5, <1>6, <1>7, <1>8, FindsBacked
<1>10. detect_rds_findings(S) \subseteq all(S)
  BY <1>1, DedupeWithin
<1> HIDE DEF all, some
<1> QED BY <1>2, <1>9, <1>10 DEF Backed

LEMMA TagBacked ==
  ASSUME NEW S, NEW G
  PROVE  \A f \in tag_findings(S) : Backed(f, G)
BY DetectorTypes DEF Backed, FailureReadsAsProblem

LEMMA LogBacked ==
  ASSUME NEW S, NEW T, Told(S, T)
  PROVE  \A f \in log_group_findings(S) : Backed(f, log_group_findings(T))
<1> DEFINE A(X) == {s \in OfType(X, "cloudwatch_log_group") : Get(s, "retention_in_days") = NULL}
<1>1. \A X : Finds(A(X), "cloudwatch_log_group_no_retention_policy", "low") \subseteq log_group_findings(X)
  BY DEF log_group_findings, Each, Finds
<1>2. \A f \in log_group_findings(S) : \/ f \in Finds(A(S), "cloudwatch_log_group_no_retention_policy", "low")
                                       \/ f.ftype = "rds_parameter_group_general_log_enabled"
  BY DEF log_group_findings, Each, Finds, Find
<1>3. \A s \in A(S) : \E a \in A(T) : Tells(s, a)
  <2>1. "cloudwatch_log_group" \notin Partial \cup {"aurora_cluster"}
    BY DEF Partial
  <2> QED BY <2>1, PlainTold
<1>4. "rds_parameter_group_general_log_enabled" \in FailureReadsAsProblem
  BY DEF FailureReadsAsProblem
<1> HIDE DEF A
<1>5. \A f \in Finds(A(S), "cloudwatch_log_group_no_retention_policy", "low") : Backed(f, log_group_findings(T))
  BY <1>1, <1>3, FindsBacked
<1> QED BY <1>2, <1>4, <1>5 DEF Backed

LEMMA ExposureBacked ==
  ASSUME NEW S, NEW T, Told(S, T)
  PROVE  \A f \in exposure_findings(S) : Backed(f, exposure_findings(T))
<1> DEFINE open(X) == {s \in OfType(X, "security_group") : WorldOpen(s)}
           routed(X) == {s \in {q \in OfType(X, "route_table") : Truthy(q, "has_igw_default_route")} :
                           Get(s, "linked_subnets") # {}}
           A(X) == IF routed(X) # {} THEN open(X) ELSE {}
           B(X) == IF open(X) # {} THEN routed(X) ELSE {}
<1>1. \A X : exposure_findings(X) =
         (IF routed(X) # {} THEN {Find(s, "public_subnet_with_open_sg", "high") : s \in open(X)} ELSE {})
         \cup (IF open(X) # {} THEN {Find(s, "internet_exposed_resource_chain", "high") : s \in routed(X)} ELSE {})
  BY DEF exposure_findings
<1>2. \A s \in open(S) : \E a \in open(T) : Tells(s, a)
  <2>1. "security_group" \notin Partial \cup {"aurora_cluster"}
    BY DEF Partial
  <2> QED BY <2>1, PlainTold, ZenonT(60) DEF WorldOpen, Truthy
<1>3. \A s \in routed(S) : \E a \in routed(T) : Tells(s, a)
  <2>1. "route_table" \notin Partial \cup {"aurora_cluster"}
    BY DEF Partial
  <2> QED BY <2>1, PlainTold, ZenonT(60) DEF Truthy
<1> HIDE DEF open, routed
<1>4. \A X : exposure_findings(X) = Finds(A(X), "public_subnet_with_open_sg", "high")
                                    \cup Finds(B(X), "internet_exposed_resource_chain", "high")
  BY <1>1 DEF Finds
<1>5. \A s \in A(S) : \E a \in A(T) : Tells(s, a)
  BY <1>2, <1>3
<1>6. \A s \in B(S) : \E a \in B(T) : Tells(s, a)
  BY <1>2, <1>3
<1> HIDE DEF A, B
<1> QED BY <1>4, <1>5, <1>6, FindsBacked

\* All of the extended detectors.
LEMMA ExtendedBacked ==
  ASSUME NEW S, NEW T, Told(S, T), NEW f \in legacy_extended_findings(S)
  PROVE  Backed(f, legacy_extended_findings(T))
<1> DEFINE G == legacy_extended_findings(T)
<1>1. \A H : Backed(f, H) /\ H \subseteq G => Backed(f, G)
  BY DEF Backed
<1>2. /\ acm_expiry_findings(T) \subseteq G /\ cloudfront_findings(T) \subseteq G
      /\ security_group_findings(T) \subseteq G /\ load_balancer_findings(T) \subseteq G
      /\ load_balancer_unused_findings(T) \subseteq G /\ route_table_findings(T) \subseteq G
      /\ target_group_findings(T) \subseteq G /\ target_group_tuning_findings(T) \subseteq G
      /\ exposure_findings(T) \subseteq G /\ apigateway_findings(T) \subseteq G /\ eventbridge_findings(T) \subseteq G
      /\ ses_findings(T) \subseteq G /\ acm_status_findings(T) \subseteq G /\ lambda_runtime_findings(T) \subseteq G
      /\ slow_query_findings(T) \subseteq G /\ kms_findings(T) \subseteq G /\ log_group_findings(T) \subseteq G
  BY DEF legacy_extended_findings
<1> HIDE DEF G
<1>3. CASE f \in tag_findings(S) \cup acm_expiry_findings(S) \cup cloudfront_findings(S)
                 \cup security_group_findings(S) \cup load_balancer_findings(S)
                 \cup load_balancer_unused_findings(S)
  <2>1. \/ Backed(f, G) \/ Backed(f, acm_expiry_findings(T)) \/ Backed(f, cloudfront_findings(T))
        \/ Backed(f, security_group_findings(T)) \/ Backed(f, load_balancer_findings(T))
        \/ Backed(f, load_balancer_unused_findings(T))
    BY <1>3, TagBacked, ExpiryBacked, CloudFrontBacked, GroupBacked, BalancerBacked, UnusedBacked
  <2> QED BY <1>1, <1>2, <2>1 DEF G
<1>4. CASE f \in route_table_findings(S) \cup target_group_findings(S) \cup target_group_tuning_findings(S)
                 \cup exposure_findings(S) \cup apigateway_findings(S) \cup eventbridge_findings(S)
  <2>1. \/ Backed(f, route_table_findings(T)) \/ Backed(f, target_group_findings(T))
        \/ Backed(f, target_group_tuning_findings(T)) \/ Backed(f, exposure_findings(T))
        \/ Backed(f, apigateway_findings(T)) \/ Backed(f, eventbridge_findings(T))
    BY <1>4, RouteBacked, TargetBacked, TuningBacked, ExposureBacked, GatewayBacked, EventBacked
  <2> QED BY <1>1, <1>2, <2>1 DEF G
<1>5. CASE f \in ses_findings(S) \cup acm_status_findings(S) \cup lambda_runtime_findings(S)
                 \cup slow_query_findings(S) \cup kms_findings(S) \cup log_group_findings(S)
  <2>1. \/ Backed(f, ses_findings(T)) \/ Backed(f, acm_status_findings(T)) \/ Backed(f, lambda_runtime_findings(T))
        \/ Backed(f, slow_query_findings(T)) \/ Backed(f, kms_findings(T)) \/ Backed(f, log_group_findings(T))
    BY <1>5, MailBacked, StatusBacked, RuntimeBacked, QueryLogBacked, KeyBacked, LogBacked
  <2> QED BY <1>1, <1>2, <2>1 DEF G
<1> QED BY <1>3, <1>4, <1>5 DEF legacy_extended_findings

\* The collector of REST APIs does not write the endpoint type that a rule asks for.
NoEndpointType(S) == \A s \in OfType(S, "apigateway_rest_api") : Get(s, "endpoint_type") = NULL

\* A loaded rule finds nothing that its detector would not.
LEMMA RuleBacked ==
  ASSUME NEW S, EnabledKnown(S), NoEndpointType(S), NEW f \in run_rule_engine(S, rules)
  PROVE  \E g \in legacy_extended_findings(S) : Subject(g) = Subject(f) /\ g.ftype = f.ftype
<1>1. PICK i \in rules : \E s \in {q \in OfType(S, AllRules[i].rtype) : evaluate_conditions(AllRules[i], q)} :
         f = build_finding_from_rule(AllRules[i], s)
  BY DEF run_rule_engine
<1> DEFINE r == AllRules[i]
<1>2. PICK s \in OfType(S, r.rtype) : evaluate_conditions(r, s) /\ f = build_finding_from_rule(r, s)
  BY <1>1
<1>3. r \in RuleSet
  <2>1. i \in DOMAIN AllRules
    BY DEF rules, load_all_rules
  <2> QED BY <2>1, AllRulesAre
<1> HIDE DEF r
<1> DEFINE g == Find(s, r.ftype, r.sev)
<1>4. Subject(g) = Subject(f) /\ g.ftype = f.ftype
  BY <1>2 DEF build_finding_from_rule, Find, Subject
<1>5. g \in RuleFinds(r, S)
  BY <1>2 DEF RuleFinds
<1>6. g \in legacy_extended_findings(S)
  <2>1. CASE Agrees(r, S)
    BY <1>5, <2>1 DEF Agrees, LegacyOf
  <2>2. CASE r = target_group_rules[4]
    <3>1. r.rtype = "target_group" /\ r.ftype = "target_group_misconfigured_health_check" /\ r.sev = "medium"
      BY <2>2 DEF target_group_rules, Rule
    <3>2. r.conds = <<Cond("bool_false", "health_check_enabled", NULL)>>
      BY <2>2 DEF target_group_rules, Rule
    <3>3. ~Truthy(s, "health_check_enabled")
      BY <1>2, <3>2, CondsAre, CondIs
    <3>4. Find(s, "target_group_misconfigured_health_check", "medium") \in target_group_findings(S)
      BY <1>2, <3>1, <3>3 DEF target_group_findings, Each
    <3> QED BY <3>1, <3>4 DEF legacy_extended_findings
  <2>3. CASE r = apigateway_rules[1]
    <3>1. r.rtype = "apigateway_rest_api" /\ r.conds = <<Cond("eq", "endpoint_type", "PUBLIC")>>
      BY <2>3 DEF apigateway_rules, Rule
    <3>2. Get(s, "endpoint_type") = "PUBLIC"
      BY <1>2, <3>1, CondsAre, CondIs
    <3>3. NULL # "PUBLIC"
      BY InventoryAssumption
    <3> QED BY <1>2, <3>1, <3>2, <3>3 DEF NoEndpointType
  <2>4. \/ \E j \in 1..6 : r = target_group_rules[j]
        \/ \E j \in 1..1 : r = apigateway_rules[j]
        \/ Agrees(r, S)
    BY <1>3, SecurityGroupRulesAgree, LoadBalancerRulesAgree, RouteTableRulesAgree, EventBridgeRulesAgree,
       CertificateRulesAgree, DistributionRulesAgree, FunctionRulesAgree, TagRulesAgree DEF RuleSet
  <2>5. ASSUME NEW j \in 1..6, r = target_group_rules[j] PROVE Agrees(r, S) \/ r = target_group_rules[4]
    BY <2>5, TargetGroupRulesAgree
  <2> QED BY <2>1, <2>2, <2>3, <2>4, <2>5
<1> QED BY <1>4, <1>6

\* The rows of an account of which every call is answered, and what is found of them.
AnsweredRow(r) == Item(r, [c \in Calls |-> "ok"]).row
AnsweredOf(type) == {AnsweredRow(r) : r \in {q \in account : q.type = type}}
Seen == UNION {AnsweredOf(t) : t \in {r.type : r \in account} \ {"aurora_cluster"}}
        \cup enrich_aurora_clusters(AnsweredOf("rds_instance"), AnsweredOf("aurora_cluster"))
SeenFindings == detect_ec2_findings(Seen) \cup detect_ebs_findings(Seen)
                \cup detect_rds_findings(Seen) \cup detect_lambda_findings(Seen)
                \cup detect_s3_findings(Seen) \cup legacy_extended_findings(Seen)

LEMMA IdealIs == Ideal = {Subject(f) : f \in SeenFindings}
BY DEF Ideal, SeenFindings, Seen, AnsweredOf, AnsweredRow

\* What the collectors stored is told by what they would have stored.
LEMMA SnapshotsTold ==
  ASSUME Inputs, CollectedInv, \A s \in snapshots : s.type \in captured
  PROVE  Told(snapshots, Seen) /\ EnabledKnown(snapshots) /\ NoEndpointType(snapshots)
<1>1. ASSUME NEW s \in snapshots, s.type # "aurora_cluster"
      PROVE  /\ \E a \in Seen : Tells(s, a)
             /\ s.type = "apigateway_rest_api" => Get(s, "endpoint_type") = NULL
  <2>1. FromAccount(s)
    BY <1>1 DEF CollectedInv
  <2>2. PICK r \in account : \E o \in [Calls -> CallOutcomes] : About(Item(r, o), r) /\ s = Item(r, o).row
    BY <2>1 DEF FromAccount
  <2>3. PICK o \in [Calls -> CallOutcomes] : About(Item(r, o), r) /\ s = Item(r, o).row
    BY <2>2
  <2>4. r.type = s.type
    BY <2>3 DEF About
  <2>5. r.type \in ResourceTypes
    BY DEF Inputs, WellFormed
  <2>6. Tells(s, AnsweredRow(r))
    <3>1. Tells(s, Item(r, Answers).row)
      BY <1>1, <2>3, <2>4, <2>5, PlainTells, PartialTells
    <3> QED BY <3>1 DEF AnsweredRow, Answers
  <2>7. AnsweredRow(r) \in Seen
    <3>1. AnsweredRow(r) \in AnsweredOf(r.type)
      BY DEF AnsweredOf
    <3>2. r.type \in {q.type : q \in account} \ {"aurora_cluster"}
      BY <1>1, <2>4
    <3> QED BY <3>1, <3>2 DEF Seen
  <2>8. ASSUME s.type = "apigateway_rest_api" PROVE Get(s, "endpoint_type") = NULL
    <3>1. s = SnapshotRow(r, [disable_execute_api_endpoint |-> r.x.disable_execute_api_endpoint],
                          TagsOrNone(r, o)).row
      BY <2>3, <2>4, <2>8 DEF Item, apigw_rest_one_region
    <3> QED BY <3>1 DEF SnapshotRow, Get
  <2> QED BY <2>6, <2>7, <2>8
<1>2. EnabledKnown(snapshots)
  BY DEF CollectedInv
<1> QED BY <1>1, <1>2 DEF Told, NoEndpointType, OfType

\* A failed call is not held against a resource: apart from the types that a failure
\* can produce, every committed finding is one the account would have with all calls
\* answered, as long as the analysis reads rows of its own sync only.
THEOREM UnknownNotReportedHolds == AnalysisSpec => []UnknownNotReported
<1> DEFINE Strong == Inputs /\ Futures /\ CollectedInv /\ OnceInv
<1>1. AnalysisInit => Strong
  BY InputsInit, CollectedInit DEF AnalysisInit, OnceInv, OneAttempt
<1>2. Strong /\ [AnalysisNext]_analysisVars => Strong'
  BY InputsNext, CollectedNext, OnceNext
<1>3. Strong => UnknownNotReported
  <2> SUFFICES ASSUME Inputs, CollectedInv, OnceInv, \A s \in snapshots : s.type \in captured,
                      NEW row \in db.rows
               PROVE  \/ row.finding.rid = CostResource
                      \/ Backed(row.finding, SeenFindings)
    BY IdealIs DEF UnknownNotReported, Backed
  <2> DEFINE f == row.finding
  <2>1. f \in ToRecommend
    BY DEF OnceInv, OneAttempt
  <2> HIDE DEF f
  <2>2. Told(snapshots, Seen) /\ EnabledKnown(snapshots) /\ NoEndpointType(snapshots)
    BY SnapshotsTold
  <2>3. ASSUME NEW G, Backed(f, G), G \subseteq SeenFindings PROVE Backed(f, SeenFindings)
    BY <2>3 DEF Backed
  <2>4. /\ detect_ec2_findings(Seen) \subseteq SeenFindings /\ detect_ebs_findings(Seen) \subseteq SeenFindings
        /\ detect_rds_findings(Seen) \subseteq SeenFindings /\ detect_lambda_findings(Seen) \subseteq SeenFindings
        /\ detect_s3_findings(Seen) \subseteq SeenFindings /\ legacy_extended_findings(Seen) \subseteq SeenFindings
    BY DEF SeenFindings
  <2>5. CASE f \in NatCost \cup WafCost
    <3>1. f.rid = CostResource
      BY <2>5 DEF NatCost, WafCost, CostFinding
    <3> QED BY <3>1 DEF f
  <2>6. CASE f \in detect_ec2_findings(snapshots) \cup detect_ebs_findings(snapshots)
                   \cup detect_rds_findings(snapshots) \cup detect_lambda_findings(snapshots)
                   \cup detect_s3_findings(snapshots)
    <3>1. \/ Backed(f, detect_ec2_findings(Seen)) \/ Backed(f, detect_ebs_findings(Seen))
          \/ Backed(f, detect_rds_findings(Seen)) \/ Backed(f, detect_lambda_findings(Seen))
          \/ Backed(f, detect_s3_findings(Seen))
      BY <2>2, <2>6, ComputeBacked, DatabaseBacked, FunctionBacked, BucketBacked
    <3> QED BY <2>3, <2>4, <3>1 DEF f
  <2>7. CASE f \in detect_extended_findings(snapshots, migrated_finding_types(rules))
    <3>1. f \in legacy_extended_findings(snapshots)
      BY <2>7 DEF detect_extended_findings
    <3> QED BY <2>2, <2>3, <2>4, <3>1, ExtendedBacked DEF f
  <2>8. CASE f \in run_rule_engine(snapshots, rules)
    <3>1. PICK g \in legacy_extended_findings(snapshots) : Subject(g) = Subject(f) /\ g.ftype = f.ftype
      BY <2>2, <2>8, RuleBacked
    <3>2. Backed(g, legacy_extended_findings(Seen))
      BY <2>2, ExtendedBacked
    <3>3. Backed(f, legacy_extended_findings(Seen))
      BY <3>1, <3>2 DEF Backed
    <3> QED BY <2>3, <2>4, <3>3 DEF f
  <2> QED BY <2>1, <2>5, <2>6, <2>7, <2>8
      DEF ToRecommend, ToRules, ToExtended, ToS3, ToLambda, ToRds, ToEbs, ToWaf, ToNat
<1> QED BY <1>1, <1>2, <1>3, PTL DEF AnalysisSpec
=============================================================================
