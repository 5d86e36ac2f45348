-------------------------- MODULE FindingsPipeline --------------------------
(***************************************************************************)
(* The syncs of a cloud account: the inventory task writes snapshots, the  *)
(* analyzer task turns the latest ones into findings and recommendations.  *)
(* Both commit many times on their way, and a task that dies is started    *)
(* again from its beginning.  written and recs are what the analyzer's     *)
(* session sees, db what is committed, all three of the current sync run.  *)
(* The snapshots of earlier syncs stay: a type of which a sync stores      *)
(* nothing is analysed from its last batch.                                *)
(***************************************************************************)
EXTENDS RecommendationBuilder

CONSTANT Scenarios      \* [account, fault, cost, broken, crashes, later]: what a sync
                        \* may meet, later being [account, fault] of the syncs after it

\* the types some collector asks for
ResourceTypes == EXTENDED_TAGGABLE_RESOURCE_TYPES
                 \cup {"ec2_instance", "ebs_volume", "rds_instance", "aurora_cluster",
                       "lambda_function", "s3_bucket"}

\* A resource is in a region, or global when its service is; AWS tells of every
\* database instance whether it is public and of every distribution whether it is
\* enabled; a call fails in one of three ways.
ASSUME ScenariosAssumption ==
  \A s \in Scenarios : \A n \in {s} \cup s.later :
    /\ \A r \in n.account :
         /\ r.type \in ResourceTypes
         /\ r.region \in IF r.type \in GlobalTypes THEN AwsRegions \cup {"global"} ELSE AwsRegions
         /\ r.type = "rds_instance" => r.x.publicly_accessible \in BOOLEAN
         /\ r.type = "cloudfront_distribution" => r.x.enabled \in BOOLEAN
    /\ n.fault = NULL \/ n.fault.kind \in {"denied", "client", "network"}

VARIABLES account,    \* the AWS resources
          fault,      \* [type, region, call, kind], or NULL: the calls that fail
          cost,       \* amounts of the stored cost data, by category
          broken,     \* the rule file that cannot be read, or NULL
          later,      \* the syncs to come
          stage,      \* what the worker does next
          batches,    \* rows fetched by the extended collectors and not yet stored
          snapshots,  \* the latest batch of every resource type
          captured,   \* the types whose latest batch is of this sync (captured_at)
          written,    \* finding rows of the run, each with the attempt that wrote it
          recs,       \* recommendations of the run
          db,         \* [rows, recs] as committed
          crashes     \* bound: how often a task can still die

input == <<account, cost, broken, later>>
analysisVars == <<input, fault, stage, batches, snapshots, captured, written, recs, db, crashes>>

ExtendedTypes == EXTENDED_TAGGABLE_RESOURCE_TYPES

InventoryStages == {"ec2", "ebs", "rds", "lambda", "s3", "fetch_extended", "store_extended"}
AnalyzerStages == {"clear", "detect_ec2", "nat", "waf", "detect_ebs", "detect_rds", "detect_lambda",
                   "detect_s3", "detect_extended", "rules", "recommend"}

\* the calls about a type in every region; only the fault's call fails
Outcomes(type) ==
  [reg \in AwsRegions \cup {"global"} |->
     [c \in Calls |->
        IF fault # NULL /\ fault.type = type /\ fault.region = reg /\ fault.call = c
        THEN fault.kind ELSE "ok"]]

Collect(type) == Fetch(type, {r \in account : r.type = type}, Outcomes(type))

------------------------------------------------------------------------------
(* the inventory task *)

\* create_snapshots: an empty list writes nothing, so the batch of an earlier
\* capture stays the latest one of its type
create_snapshots(new) ==
  /\ snapshots' = {s \in snapshots : ~\E n \in new : n.type = s.type} \cup new
  /\ captured' = captured \cup {n.type : n \in new}

\* an exception fails the task; the analyzer is started all the same, because a
\* failed parent does not hold back its child
InventoryFails == stage' = "clear" /\ UNCHANGED <<snapshots, captured>>

Ingest(at, next, fetched, resources) ==
  /\ stage = at
  /\ IF \A f \in fetched : f.ok
     THEN stage' = next /\ create_snapshots(resources)
     ELSE InventoryFails
  /\ UNCHANGED <<input, fault, batches, written, recs, db, crashes>>

IngestOne(at, next, type) == LET f == Collect(type) IN Ingest(at, next, {f}, f.rows)

\* mutant: a cluster is public when all of its members are
MutantEnrich(instances, clusters) ==
  {LET members == {i \in instances : i.cfg.db_cluster_identifier = c.id}
       public == \A i \in members : i.cfg.publicly_accessible
   IN  IF members = {} THEN c
       ELSE [c EXCEPT !.cfg = [k \in DOMAIN c.cfg \cup {"publicly_accessible"} |->
                                 IF k = "publicly_accessible" THEN public ELSE c.cfg[k]]]
   : c \in clusters}

\* DescribeDBClusters does not tell whether a cluster is public: its members do
enrich_aurora_clusters(instances, clusters) ==
  {LET members == {i \in instances : i.cfg.db_cluster_identifier = c.id}
       public == \E i \in members : i.cfg.publicly_accessible
   IN  IF members = {} THEN c
       ELSE [c EXCEPT !.cfg = [k \in DOMAIN c.cfg \cup {"publicly_accessible"} |->
                                 IF k = "publicly_accessible" THEN public ELSE c.cfg[k]]]
   : c \in clusters}

ingest_ec2 == IngestOne("ec2", "ebs", "ec2_instance")

ingest_ebs == IngestOne("ebs", "rds", "ebs_volume")

ingest_rds ==
  LET i == Collect("rds_instance")
      c == Collect("aurora_cluster")
  IN  Ingest("rds", "lambda", {i, c}, i.rows \cup enrich_aurora_clusters(i.rows, c.rows))

ingest_lambda == IngestOne("lambda", "s3", "lambda_function")

ingest_s3 == IngestOne("s3", "fetch_extended", "s3_bucket")

\* fetch_all_extended: everything is fetched before anything is stored
fetch_all_extended ==
  LET f == [t \in ExtendedTypes |-> Collect(t)]
  IN  /\ stage = "fetch_extended"
      /\ IF \A t \in ExtendedTypes : f[t].ok
         THEN /\ stage' = "store_extended"
              /\ batches' = UNION {f[t].rows : t \in ExtendedTypes}
         ELSE stage' = "clear" /\ UNCHANGED batches
      /\ UNCHANGED <<input, fault, snapshots, captured, written, recs, db, crashes>>

\* ingest_extended_aws_services: one commit per non-empty batch
ingest_extended_batch ==
  /\ stage = "store_extended"
  /\ \E t \in {b.type : b \in batches} :
       LET batch == {b \in batches : b.type = t}
       IN  create_snapshots(batch) /\ batches' = batches \ batch
  /\ UNCHANGED <<input, fault, stage, written, recs, db, crashes>>

InventoryDone ==
  /\ stage = "store_extended" /\ batches = {}
  /\ stage' = "clear"
  /\ UNCHANGED <<input, fault, batches, snapshots, captured, written, recs, db, crashes>>

------------------------------------------------------------------------------
(* the analyzer task: analyzer_bundle *)

\* mutant: a run that has findings is taken for analysed
MutantClear ==
  /\ stage = "clear"
  /\ stage' = IF written = {} THEN "detect_ec2" ELSE "recommend"
  /\ UNCHANGED <<input, fault, batches, snapshots, captured, written, recs, db, crashes>>

\* the rows of an earlier attempt are deleted; the next commit makes that durable
clear_run ==
  /\ stage = "clear"
  /\ written' = {} /\ recs' = {}
  /\ stage' = "detect_ec2"
  /\ UNCHANGED <<input, fault, batches, snapshots, captured, db, crashes>>

\* a detector that found nothing does not commit
Emit(at, next, found) ==
  /\ stage = at
  /\ written' = written \cup {[finding |-> f, attempt |-> crashes] : f \in found}
  /\ db' = IF found = {} THEN db ELSE [rows |-> written', recs |-> recs]
  /\ stage' = next
  /\ UNCHANGED <<input, fault, batches, snapshots, captured, recs, crashes>>

Found == {r.finding : r \in written}

rules == load_all_rules(broken)

detect_ec2 == Emit("detect_ec2", "nat", detect_ec2_findings(snapshots))

detect_nat_cost ==
  Emit("nat", "waf",
       CostFinding(snapshots, cost.nat, "nat_gateway", "nat_gateway_cost_review_candidate", Found))

detect_waf_cost ==
  Emit("waf", "detect_ebs", CostFinding(snapshots, cost.waf, "waf", "waf_cost_review_candidate", Found))

detect_ebs == Emit("detect_ebs", "detect_rds", detect_ebs_findings(snapshots))

detect_rds == Emit("detect_rds", "detect_lambda", detect_rds_findings(snapshots))

detect_lambda == Emit("detect_lambda", "detect_s3", detect_lambda_findings(snapshots))

detect_s3 == Emit("detect_s3", "detect_extended", detect_s3_findings(snapshots))

detect_extended ==
  /\ ~extended_raises(snapshots)
  /\ Emit("detect_extended", "rules", detect_extended_findings(snapshots, migrated_finding_types(rules)))

\* the task's retries meet the same snapshots and raise again
detect_extended_raises ==
  /\ stage = "detect_extended" /\ extended_raises(snapshots)
  /\ stage' = "failed"
  /\ written' = db.rows /\ recs' = db.recs
  /\ UNCHANGED <<input, fault, batches, snapshots, captured, db, crashes>>

evaluate_rules == Emit("rules", "recommend", run_rule_engine(snapshots, rules))

\* generate_rds_recommendations: every candidate is a new row, or renews the row of an
\* earlier sync (RecommendationLifecycle)
generate_recommendations ==
  /\ stage = "recommend"
  /\ recs' = recommendation_candidates(Found, rules)
  /\ db' = [rows |-> written, recs |-> recs']
  /\ stage' = "done"
  /\ UNCHANGED <<input, fault, batches, snapshots, captured, written, crashes>>

------------------------------------------------------------------------------
\* The worker dies, or the result of the task is lost: what was not committed is
\* gone and the task starts over, the inventory possibly after the AWS error has passed
Restart ==
  /\ crashes > 0
  /\ stage \in InventoryStages \cup AnalyzerStages \cup {"done"}
  /\ crashes' = crashes - 1
  /\ stage' = IF stage \in InventoryStages THEN "ec2" ELSE "clear"
  /\ fault' \in IF stage \in InventoryStages THEN {fault, NULL} ELSE {fault}
  /\ batches' = {} /\ written' = db.rows /\ recs' = db.recs
  /\ UNCHANGED <<input, snapshots, captured, db>>

\* The next job of the account, when this one has ended or was given up at any point:
\* the snapshots are all it finds of the earlier ones
NextSync ==
  /\ \E n \in later : account' = n.account /\ fault' = n.fault /\ later' = later \ {n}
  /\ stage' = "ec2" /\ batches' = {} /\ captured' = {}
  /\ written' = {} /\ recs' = {} /\ db' = [rows |-> {}, recs |-> {}]
  /\ UNCHANGED <<cost, broken, snapshots, crashes>>

\* the first sync of a new account
AnalysisInit ==
  /\ \E s \in Scenarios : /\ account = s.account /\ fault = s.fault /\ later = s.later
                          /\ cost = s.cost /\ broken = s.broken /\ crashes = s.crashes
  /\ stage = "ec2" /\ batches = {} /\ snapshots = {} /\ captured = {}
  /\ written = {} /\ recs = {} /\ db = [rows |-> {}, recs |-> {}]

AnalysisNext ==
  \/ ingest_ec2 \/ ingest_ebs \/ ingest_rds \/ ingest_lambda \/ ingest_s3
  \/ fetch_all_extended \/ ingest_extended_batch \/ InventoryDone
  \/ clear_run \/ detect_ec2 \/ detect_nat_cost \/ detect_waf_cost \/ detect_ebs \/ detect_rds
  \/ detect_lambda \/ detect_s3 \/ detect_extended \/ detect_extended_raises \/ evaluate_rules
  \/ generate_recommendations
  \/ Restart \/ NextSync

AnalysisSpec == AnalysisInit /\ [][AnalysisNext]_analysisVars
------------------------------------------------------------------------------
(* properties *)

Subject(f) == <<f.rid, f.rtype, f.ftype>>

\* Type correctness: what this sync captured are resources of the account, findings
\* are about snapshots, and a batch waits in memory only while it is being stored.
AnalysisTypeOK ==
  /\ stage \in InventoryStages \cup AnalyzerStages \cup {"done", "failed"}
  /\ batches # {} => stage = "store_extended"
  /\ captured \subseteq {s.type : s \in snapshots}
  /\ \A s \in snapshots : s.type \in captured => \E r \in account : r.id = s.id /\ r.type = s.type
  /\ \A r \in written \cup db.rows :
       r.finding.rid = CostResource \/ \E s \in snapshots : s.id = r.finding.rid /\ s.type = r.finding.rtype

\* Whatever was detected twice, by a hard-coded detector and a rule or by two
\* attempts of the task, is one finding row (the compatibility filter of
\* detect_extended_findings, the deletion at the start of analyzer_bundle).
NoDuplicateFinding ==
  \A r, q \in db.rows : Subject(r.finding) = Subject(q.finding) => r = q

\* A finished run holds what one undisturbed analysis of the snapshots gives,
\* however often the task died and whichever of its commits had happened.
RetryIdempotent ==
  stage = "done" =>
    LET paid(amount, rtype, ftype) == CostFinding(snapshots, amount, rtype, ftype, {})
        all == detect_ec2_findings(snapshots) \cup detect_ebs_findings(snapshots)
               \cup detect_rds_findings(snapshots)
               \cup detect_lambda_findings(snapshots) \cup detect_s3_findings(snapshots)
               \cup paid(cost.nat, "nat_gateway", "nat_gateway_cost_review_candidate")
               \cup paid(cost.waf, "waf", "waf_cost_review_candidate")
               \cup detect_extended_findings(snapshots, migrated_finding_types(rules))
               \cup run_rule_engine(snapshots, rules)
    IN  /\ {r.finding : r \in db.rows} = all
        /\ db.recs = recommendation_candidates(all, rules)

\* An AWS error the collectors mean to survive costs at most the rows of its own
\* type and region: every other resource still gets its snapshot in this sync.  Exempt are the
\* collectors outside _gather_per_region (IAM, S3) and, for network errors, the two
\* that read the response of an error that has none.
FaultContained ==
  LET survivable == \/ fault = NULL
                    \/ /\ fault.kind \in {"denied", "network"} /\ fault.call # "regions"
                       /\ fault.type \notin {"iam_role", "iam_user", "s3_bucket"}
                       /\ fault.kind = "network" => fault.type \notin {"target_group", "rds_parameter_group"}
      hit(r) == fault # NULL /\ r.type = fault.type /\ r.region = fault.region
      scanned(r) == r.region \in {HomeRegion, "global"} \/ ScanAllRegions
  IN  stage \in AnalyzerStages /\ survivable =>
        \A r \in account : \/ hit(r) \/ ~scanned(r)
                           \/ ~BeforeCap(r, {q \in account : q.type = r.type /\ q.region = r.region})
                           \/ r.type \in captured /\ \E s \in snapshots : s.id = r.id /\ s.type = r.type

\* the finding types that a failed call can produce: the collector reads it as "none",
\* the finding moves from a cluster to its instance, or (general log) the flag of
\* another parameter group is the last one seen
FailureReadsAsProblem ==
  {TagFinding(rt) : rt \in EXTENDED_TAGGABLE_RESOURCE_TYPES}
  \cup {"rds_missing_required_tags", "lambda_missing_required_tags", "s3_missing_required_tags",
        "eventbridge_rule_without_targets", "load_balancer_deletion_protection_disabled",
        "load_balancer_no_healthy_targets", "load_balancer_no_healthy_traffic_path",
        "load_balancer_unused", "target_group_no_targets", "target_group_stickiness_disabled",
        "rds_parameter_group_slow_query_disabled", "s3_public_access_candidate",
        "s3_versioning_disabled_candidate", "s3_lifecycle_policy_missing",
        "s3_no_lifecycle_large_bucket", "lambda_concurrency_risk", "rds_publicly_accessible",
        "aurora_serverless_review_candidate", "rds_parameter_group_general_log_enabled"}

\* What the findings on the account would be if every call succeeded
Ideal ==
  LET all == AwsRegions \cup {"global"}
      row(r) == Item(r, [c \in Calls |-> "ok"]).row
      of(type) == {row(r) : r \in {q \in account : q.type = type}}
      seen == UNION {of(t) : t \in {r.type : r \in account} \ {"aurora_cluster"}}
              \cup enrich_aurora_clusters(of("rds_instance"), of("aurora_cluster"))
  IN  {Subject(f) : f \in detect_ec2_findings(seen) \cup detect_ebs_findings(seen)
                          \cup detect_rds_findings(seen) \cup detect_lambda_findings(seen)
                          \cup detect_s3_findings(seen) \cup legacy_extended_findings(seen)}

\* A failed call is not held against the resource: apart from the types above,
\* every finding is one the account would have with all calls answered, as long as
\* the sync reads no older batch.  (The collectors write None for what they could not
\* read, and the detectors ask for `is False` or a number.)
UnknownNotReported ==
  (\A s \in snapshots : s.type \in captured) =>
  \A r \in db.rows : \/ r.finding.rid = CostResource
                     \/ r.finding.ftype \in FailureReadsAsProblem
                     \/ Subject(r.finding) \in Ideal

\* A public database instance that this sync collected is reported, on itself or on
\* the cluster it belongs to: copying the flag to the cluster and dropping the
\* instance's own finding lose it together only when this sync has captured no
\* cluster, and the row of an earlier one says that the cluster was not public then.
PublicDatabaseReported ==
  stage = "done" /\ "rds_instance" \in captured =>
    \A s \in OfType(snapshots, "rds_instance") :
      LET outdated == /\ "aurora_cluster" \notin captured
                      /\ \E c \in OfType(snapshots, "aurora_cluster") :
                           c.id = s.cfg.db_cluster_identifier /\ Get(c, "publicly_accessible") = FALSE
      IN  s.cfg.publicly_accessible /\ ~outdated =>
        \E r \in db.rows : /\ r.finding.ftype = "rds_publicly_accessible"
                           /\ r.finding.rid \in {s.id, s.cfg.db_cluster_identifier}

\* the finding types whose rule asks for less than the code it replaced
NotCarriedOver == {"apigateway_public_exposure_review", "target_group_misconfigured_health_check"}

\* A rule and the hard-coded detector it replaced agree on every snapshot, also on
\* missing values and at the thresholds, so that losing a rule file (the detector
\* takes over) changes no finding.
MigrationAgrees ==
  LET verdict(fs) == {<<Subject(f), f.sev>> : f \in {g \in fs : g.ftype \notin NotCarriedOver}}
      all == load_all_rules(NULL)
  IN  verdict(run_rule_engine(snapshots, all)) =
      verdict({f \in legacy_extended_findings(snapshots) : f.ftype \in migrated_finding_types(all)})

\* Every finding that recommendations are made of gets one, under a key that does
\* not depend on whether a rule or the table made it; a dismissed or approved
\* recommendation would otherwise come back under another key.
StableIdentity ==
  stage = "done" =>
    \A r \in db.rows :
      LET f == r.finding
          keys(loaded) == {recommendation_key(c) : c \in build_recommendation_for_finding(f, loaded)}
      IN  f.ftype \in RECOMMENDATION_SOURCE_FINDING_TYPES \ {"aurora_serverless_review_candidate"} =>
            /\ Cardinality(keys(rules)) = 1
            /\ keys(rules) \subseteq {recommendation_key(c) : c \in db.recs}
            /\ keys(rules) = keys(load_all_rules(NULL))

\* analyzer_bundle: "detection (findings) for supported resource types, then
\* recommendations": the analysis of a collected account reaches its end.
AnalysisReachesRecommendations == stage # "failed"
=============================================================================
