------------------------------ MODULE Detection ------------------------------
(***************************************************************************)
(* The detectors: functions from the latest snapshots of an account to the *)
(* findings of a sync run.  A snapshot is a row of AwsInventory; a finding  *)
(* is [rid, rtype, ftype, sev, ev, by], ev being the part of its evidence   *)
(* that the recommendation builder reads (NULL elsewhere) and by telling    *)
(* apart the hard-coded detectors and the rule engine.                      *)
(***************************************************************************)
EXTENDS AwsInventory

\* the cost findings have a literal resource_id of their own
CostResource == 0

\* cfg.get(key): a missing key reads as None
Get(s, key) == IF key \in DOMAIN s.cfg THEN s.cfg[key] ELSE NULL

\* bool(cfg.get(key))
Truthy(s, key) == Get(s, key) \notin {NULL, FALSE}

\* int(cfg.get(key) or default)
IntOr(s, key, default) == IF Get(s, key) = NULL \/ Get(s, key) = 0 THEN default ELSE Get(s, key)

Find(s, ftype, sev) ==
  [rid |-> s.id, rtype |-> s.type, ftype |-> ftype, sev |-> sev, ev |-> NULL, by |-> "detector"]

\* the findings one detector block appends for the snapshots S
Each(S, cond(_), ftype, sev) == {Find(s, ftype, sev) : s \in {q \in S : cond(q)}}

\* _latest_snapshots: snaps holds the latest batch of every type
OfType(snaps, type) == {s \in snaps : s.type = type}

missing_required_tags(tags) == {"Name", "Environment"} \ tags

Untagged(s) == missing_required_tags(s.tags) # {}

\* isinstance(v, (int, float)) and v < n, v >= n
Below(s, key, n) == Get(s, key) # NULL /\ Get(s, key) < n
AtLeast(s, key, n) == Get(s, key) # NULL /\ Get(s, key) >= n

------------------------------------------------------------------------------
(* detection_service *)

OVERPROVISIONED_RDS_INSTANCE_TYPES == {"db.t3.medium", "db.m5.large"}   \* two of the eight

\* estimate_aurora_serverless_monthly_savings: 80, 90 or 85 dollars times 0.30
AuroraSavings == [mysql |-> 24, postgresql |-> 27, other |-> 25]

aurora_cluster_looks_serverless(s) ==
  \/ Get(s, "engine_mode") = "serverless"
  \/ Get(s, "serverless_v2_scaling") # NULL
  \/ Get(s, "scaling_configuration") # NULL

\* Instance 10c+n is named <c>-instance-n, which is what the key is cut from
aurora_serverless_cluster_key(f) ==
  IF f.rtype = "rds_instance" /\ f.rid >= 10 THEN f.rid \div 10 ELSE f.rid

\* one review per logical cluster, the cluster's own preferred over an instance's
dedupe_aurora_serverless_review_findings(fs) ==
  LET serverless == {f \in fs : f.ftype = "aurora_serverless_review_candidate"}
      group(f) == {g \in serverless : aurora_serverless_cluster_key(g) = aurora_serverless_cluster_key(f)}
      pool(g) == IF \E f \in g : f.rtype = "aurora_cluster"
                 THEN {f \in g : f.rtype = "aurora_cluster"} ELSE g
  IN  (fs \ serverless) \cup {(CHOOSE p \in pool(group(f)) : TRUE) : f \in serverless}

\* An instance is not reported when its cluster's snapshot already carries the flag
rds_public(s, clusters) ==
  /\ Get(s, "publicly_accessible") = TRUE
  /\ \/ s.type = "aurora_cluster"
     \/ ~\E c \in clusters : c.id = Get(s, "db_cluster_identifier") /\ "publicly_accessible" \in DOMAIN c.cfg

AuroraReview(s, v2, v1) ==
  [Find(s, "aurora_serverless_review_candidate", "medium")
     EXCEPT !.ev = [v2 |-> v2, v1 |-> v1, savings |-> AuroraSavings.other]]

rds_configuration_findings(I, C) ==
  LET public(s) == rds_public(s, C)
      overprovisioned(s) == Get(s, "db_instance_class") \in OVERPROVISIONED_RDS_INSTANCE_TYPES
  IN  Each(I \cup C, Untagged, "rds_missing_required_tags", "medium")
      \cup Each(I \cup C, public, "rds_publicly_accessible", "high")
      \cup Each(I, overprovisioned, "rds_instance_overprovisioned", "medium")

rds_utilization_findings(I) ==
  LET lowCpu(s) == Below(s, "cpu_utilization_avg_7d", 8)
      freeStorage(s) == AtLeast(s, "storage_free_ratio_7d", 70)
      idle(s) == Below(s, "cpu_utilization_avg_7d", 3) /\ Below(s, "db_connections_avg_7d", 2)
  IN  Each(I, lowCpu, "rds_low_cpu_underutilized", "medium")
      \cup Each(I, freeStorage, "rds_high_storage_unused", "low")
      \cup Each(I, idle, "rds_idle_instance_candidate", "low")

aurora_review_findings(I, C) ==
  {AuroraReview(s, NULL, NULL) : s \in {q \in I : Get(q, "db_instance_class") = "db.serverless"}}
  \cup {AuroraReview(s, Get(s, "serverless_v2_scaling"), Get(s, "scaling_configuration")) :
          s \in {q \in C : aurora_cluster_looks_serverless(q)}}

detect_rds_findings(snaps) ==
  LET I == OfType(snaps, "rds_instance")
      C == OfType(snaps, "aurora_cluster")
  IN  dedupe_aurora_serverless_review_findings(
        rds_configuration_findings(I, C) \cup rds_utilization_findings(I) \cup aurora_review_findings(I, C))

HighMemory(s) == AtLeast(s, "memory_size", 1024)

lambda_configuration_findings(L) ==
  Each(L, Untagged, "lambda_missing_required_tags", "medium")
  \cup Each(L, HighMemory, "lambda_high_memory_configuration_candidate", "medium")

lambda_utilization_findings(L) ==
  LET lowUse(s) == Below(s, "invocations_sum_7d", 100)
      excessive(s) == HighMemory(s) /\ Below(s, "duration_avg_ms_7d", 500)
      unreserved(s) == AtLeast(s, "concurrent_executions_max_7d", 50) /\ Get(s, "reserved_concurrency") = NULL
  IN  Each(L, lowUse, "lambda_low_utilization", "low")
      \cup Each(L, excessive, "lambda_excessive_memory_allocation", "medium")
      \cup Each(L, unreserved, "lambda_concurrency_risk", "medium")

detect_lambda_findings(snaps) ==
  LET L == OfType(snaps, "lambda_function")
  IN  lambda_configuration_findings(L) \cup lambda_utilization_findings(L)

NoLifecycle(s) == Get(s, "lifecycle_rules_count") = 0

\* public_access_block is the conjunction the detector asks for: block_public_policy
\* and block_public_acls; unreadable (None) counts as not blocked
s3_configuration_findings(B) ==
  LET public(s) == ~Truthy(s, "public_access_block")
      unversioned(s) == Get(s, "versioning_status") # "Enabled"
  IN  Each(B, Untagged, "s3_missing_required_tags", "medium")
      \cup Each(B, public, "s3_public_access_candidate", "high")
      \cup Each(B, unversioned, "s3_versioning_disabled_candidate", "medium")
      \cup Each(B, NoLifecycle, "s3_lifecycle_policy_missing", "medium")

s3_storage_findings(B) ==
  LET unencrypted(s) == Get(s, "encryption_enabled") = FALSE
      largeNoLifecycle(s) == NoLifecycle(s) /\ AtLeast(s, "bucket_size_gb", 50)
      infrequent(s) == AtLeast(s, "bucket_size_gb", 100)
  IN  Each(B, unencrypted, "s3_missing_encryption", "high")
      \cup Each(B, largeNoLifecycle, "s3_no_lifecycle_large_bucket", "medium")
      \cup Each(B, infrequent, "s3_infrequent_access_candidate", "low")

detect_s3_findings(snaps) ==
  LET B == OfType(snaps, "s3_bucket")
  IN  s3_configuration_findings(B) \cup s3_storage_findings(B)

\* detect_ec2_findings, first commit
detect_ec2_findings(snaps) ==
  LET E == OfType(snaps, "ec2_instance")
      stopped(s) == Get(s, "state") = "stopped"
  IN  Each(E, Untagged, "ec2_missing_required_tags", "medium")
      \cup Each(E, stopped, "ec2_stopped_instance", "medium")

\* The NAT gateway and WAF cost findings it commits next: a finding row needs some
\* snapshot to refer to, and is not repeated when the run already has it.  Amount 0 is
\* also a lookup that raises: the detector logs the error and goes on.
CostFinding(snaps, amount, rtype, ftype, existing) ==
  IF snaps # {} /\ amount > 0 /\ ~\E e \in existing : e.ftype = ftype
  THEN {[rid |-> CostResource, rtype |-> rtype, ftype |-> ftype, sev |-> "medium", ev |-> NULL,
         by |-> "detector"]}
  ELSE {}

detect_ebs_findings(snaps) ==
  LET V == OfType(snaps, "ebs_volume")
      available(s) == Get(s, "state") = "available"
  IN  Each(V, Untagged, "ebs_missing_required_tags", "medium")
      \cup Each(V, available, "ebs_unattached_volume", "medium")

------------------------------------------------------------------------------
(* detection_extended_service *)

EXTENDED_TAGGABLE_RESOURCE_TYPES ==
  {"cloudfront_distribution", "acm_certificate", "apigateway_rest_api", "apigateway_http_api",
   "eventbridge_rule", "ses_email_identity", "iot_thing", "load_balancer", "target_group",
   "route_table", "vpc", "subnet", "nat_gateway", "internet_gateway", "security_group",
   "rds_parameter_group", "ecs_cluster", "ecs_service", "eks_cluster", "elasticache_cluster",
   "redshift_cluster", "opensearch_domain", "sqs_queue", "sns_topic", "kinesis_stream",
   "dynamodb_table", "kms_key", "cloudwatch_log_group", "iam_role", "iam_user"}

\* the finding type f"{rt}_missing_required_tags"
TagFinding(rt) == rt \o "_missing_required_tags"

\* the finding types with a name of their own, by severity
HighFindings ==
  {"acm_certificate_expiring_soon", "acm_certificate_validation_issue",
   "cloudfront_insecure_viewer_protocol_policy", "internet_exposed_resource_chain",
   "lambda_outdated_runtime", "load_balancer_no_healthy_targets",
   "load_balancer_no_healthy_traffic_path", "public_subnet_with_open_sg",
   "rds_publicly_accessible", "s3_missing_encryption", "s3_public_access_candidate",
   "security_group_world_open_sensitive_port", "target_group_no_healthy_targets",
   "target_group_unhealthy_targets"}

LowFindings ==
  {"cloudfront_disabled_distribution_review", "cloudwatch_log_group_no_retention_policy",
   "eventbridge_rule_disabled_review", "lambda_low_utilization", "load_balancer_unused",
   "rds_high_storage_unused", "rds_idle_instance_candidate",
   "rds_parameter_group_slow_query_disabled", "route_table_unassociated_review",
   "s3_infrequent_access_candidate", "target_group_slow_deregistration",
   "target_group_stickiness_disabled"}

MediumFindings ==
  {"acm_certificate_pending_validation", "apigateway_public_exposure_review",
   "aurora_serverless_review_candidate", "cloudfront_missing_https_redirect",
   "ebs_missing_required_tags", "ebs_unattached_volume", "ec2_stopped_instance",
   "eventbridge_rule_without_targets", "kms_key_rotation_disabled", "lambda_concurrency_risk",
   "lambda_excessive_memory_allocation", "lambda_high_memory_configuration_candidate",
   "lambda_missing_required_tags", "lambda_review_timeout_configuration",
   "load_balancer_deletion_protection_disabled", "load_balancer_partial_failure",
   "nat_gateway_cost_review_candidate", "rds_instance_overprovisioned",
   "rds_low_cpu_underutilized", "rds_missing_required_tags",
   "rds_parameter_group_general_log_enabled", "route_table_public_default_route_review",
   "s3_lifecycle_policy_missing", "s3_missing_required_tags", "s3_no_lifecycle_large_bucket",
   "s3_versioning_disabled_candidate", "security_group_overly_permissive",
   "ses_identity_unverified", "ses_sending_disabled_identity",
   "target_group_misconfigured_health_check", "target_group_no_targets",
   "waf_cost_review_candidate"}

\* A missing-tags finding bears the name of no other finding.  No CONSTANT occurs in it:
\* it says what the strings are, which TLC computes and the provers cannot.
ASSUME TagFindingAssumption ==
  LET tagged == EXTENDED_TAGGABLE_RESOURCE_TYPES \cup {"ec2"}
  IN  /\ \A rt \in tagged : TagFinding(rt) \notin HighFindings \cup MediumFindings \cup LowFindings
      /\ \A rt, q \in tagged : TagFinding(rt) = TagFinding(q) => rt = q

tag_findings(snaps) ==
  UNION {Each(OfType(snaps, rt), Untagged, TagFinding(rt), "medium") : rt \in EXTENDED_TAGGABLE_RESOURCE_TYPES}

\* not_after is the number of whole days left
acm_expiry_findings(snaps) ==
  LET expiring(s) == Get(s, "not_after") # NULL /\ 0 < Get(s, "not_after") /\ Get(s, "not_after") <= 30
  IN  Each(OfType(snaps, "acm_certificate"), expiring, "acm_certificate_expiring_soon", "high")

cloudfront_findings(snaps) ==
  LET D == OfType(snaps, "cloudfront_distribution")
      insecure(s) == Get(s, "viewer_protocol_policy") = "allow-all"
      noRedirect(s) == Get(s, "viewer_protocol_policy") \notin {NULL, "redirect-to-https"}
      disabled(s) == Get(s, "enabled") = FALSE
  IN  Each(D, insecure, "cloudfront_insecure_viewer_protocol_policy", "high")
      \cup Each(D, noRedirect, "cloudfront_missing_https_redirect", "medium")
      \cup Each(D, disabled, "cloudfront_disabled_distribution_review", "low")

WorldOpen(s) == \E k \in {"has_world_open_ssh", "has_world_open_rdp", "has_world_open_all_ports"} : Truthy(s, k)

security_group_findings(snaps) ==
  LET G == OfType(snaps, "security_group")
      permissive(s) == ~WorldOpen(s) /\ IntOr(s, "ingress_rule_count", 0) >= 8
  IN  Each(G, WorldOpen, "security_group_world_open_sensitive_port", "high")
      \cup Each(G, permissive, "security_group_overly_permissive", "medium")

load_balancer_findings(snaps) ==
  LET B == OfType(snaps, "load_balancer")
      n(s, key) == IntOr(s, key, 0)
      unprotected(s) == ~Truthy(s, "deletion_protection_enabled")
      noHealthy(s) == n(s, "target_group_count") > 0 /\ n(s, "healthy_target_count") = 0
      noPath(s) == noHealthy(s) /\ n(s, "listener_count") > 0 /\ n(s, "listener_forward_action_count") > 0
      partial(s) == n(s, "healthy_target_count") > 0 /\ n(s, "unhealthy_target_count") > 0
  IN  Each(B, unprotected, "load_balancer_deletion_protection_disabled", "medium")
      \cup Each(B, noHealthy, "load_balancer_no_healthy_targets", "high")
      \cup Each(B, noPath, "load_balancer_no_healthy_traffic_path", "high")
      \cup Each(B, partial, "load_balancer_partial_failure", "medium")

load_balancer_unused_findings(snaps) ==
  LET unused(s) == IntOr(s, "listener_count", 0) = 0 \/ IntOr(s, "target_group_count", 0) = 0
  IN  Each(OfType(snaps, "load_balancer"), unused, "load_balancer_unused", "low")

route_table_findings(snaps) ==
  LET R == OfType(snaps, "route_table")
      unassociated(s) == IntOr(s, "association_count", 0) = 0
      public(s) == Truthy(s, "has_igw_default_route") /\ ~Truthy(s, "has_nat_default_route")
  IN  Each(R, unassociated, "route_table_unassociated_review", "low")
      \cup Each(R, public, "route_table_public_default_route_review", "medium")

target_group_findings(snaps) ==
  LET T == OfType(snaps, "target_group")
      n(s, key) == IntOr(s, key, 0)
      empty(s) == n(s, "total_targets") = 0
      unhealthy(s) == n(s, "unhealthy_count") > 0
      misconfigured(s) ==
        \/ ~Truthy(s, "health_check_enabled")
        \/ \E k \in {"health_check_interval_seconds", "health_check_timeout_seconds",
                     "unhealthy_threshold_count"} : n(s, k) <= 0
      noHealthy(s) == n(s, "total_targets") > 0 /\ n(s, "healthy_count") = 0
  IN  Each(T, empty, "target_group_no_targets", "medium")
      \cup Each(T, unhealthy, "target_group_unhealthy_targets", "high")
      \cup Each(T, misconfigured, "target_group_misconfigured_health_check", "medium")
      \cup Each(T, noHealthy, "target_group_no_healthy_targets", "high")

target_group_tuning_findings(snaps) ==
  LET T == OfType(snaps, "target_group")
      notSticky(s) == ~Truthy(s, "stickiness_enabled")
      slow(s) == IntOr(s, "deregistration_delay_seconds", 30) > 60
  IN  Each(T, notSticky, "target_group_stickiness_disabled", "low")
      \cup Each(T, slow, "target_group_slow_deregistration", "low")

\* A world-open group somewhere and a public route table somewhere in the account
\* are reported together, whether or not they share a VPC
exposure_findings(snaps) ==
  LET open == {s \in OfType(snaps, "security_group") : WorldOpen(s)}
      public == {s \in OfType(snaps, "route_table") : Truthy(s, "has_igw_default_route")}
      withSubnets == {s \in public : Get(s, "linked_subnets") # {}}
  IN  (IF withSubnets # {} THEN {Find(s, "public_subnet_with_open_sg", "high") : s \in open} ELSE {})
      \cup (IF open # {} THEN {Find(s, "internet_exposed_resource_chain", "high") : s \in withSubnets} ELSE {})

apigateway_findings(snaps) ==
  LET exposedHttp(s) == Get(s, "api_endpoint") # NULL
      exposedRest(s) == ~Truthy(s, "disable_execute_api_endpoint")
  IN  Each(OfType(snaps, "apigateway_http_api"), exposedHttp, "apigateway_public_exposure_review", "medium")
      \cup Each(OfType(snaps, "apigateway_rest_api"), exposedRest, "apigateway_public_exposure_review", "medium")

eventbridge_findings(snaps) ==
  LET R == OfType(snaps, "eventbridge_rule")
      noTarget(s) == IntOr(s, "target_count", 0) = 0
      disabled(s) == Get(s, "state") = "DISABLED"
  IN  Each(R, noTarget, "eventbridge_rule_without_targets", "medium")
      \cup Each(R, disabled, "eventbridge_rule_disabled_review", "low")

ses_findings(snaps) ==
  LET I == OfType(snaps, "ses_email_identity")
      unverified(s) == Get(s, "verification_status") \notin {NULL, "SUCCESS"}
      muted(s) == Get(s, "sending_enabled") = FALSE
  IN  Each(I, unverified, "ses_identity_unverified", "medium")
      \cup Each(I, muted, "ses_sending_disabled_identity", "medium")

acm_status_findings(snaps) ==
  LET A == OfType(snaps, "acm_certificate")
      pending(s) == Get(s, "status") = "PENDING_VALIDATION"
      failed(s) == Get(s, "status") \in {"FAILED", "VALIDATION_TIMED_OUT", "REVOKED"}
  IN  Each(A, pending, "acm_certificate_pending_validation", "medium")
      \cup Each(A, failed, "acm_certificate_validation_issue", "high")

\* the runtimes of _OUTDATED_LAMBDA_RUNTIME_PREFIXES, one name for them all
OutdatedRuntimes == {"python3.7"}

lambda_runtime_findings(snaps) ==
  LET L == OfType(snaps, "lambda_function")
      outdated(s) == Get(s, "runtime") \in OutdatedRuntimes
      long(s) == AtLeast(s, "timeout", 120)
  IN  Each(L, outdated, "lambda_outdated_runtime", "high")
      \cup Each(L, long, "lambda_review_timeout_configuration", "medium")

slow_query_findings(snaps) ==
  LET off(s) == ~Truthy(s, "slow_query_log_enabled")
  IN  Each(OfType(snaps, "rds_parameter_group"), off, "rds_parameter_group_slow_query_disabled", "low")

\* mutant: `not rotation_enabled` in place of `is False`
MutantKms(snaps) ==
  LET off(s) == ~Truthy(s, "rotation_enabled")
  IN  Each(OfType(snaps, "kms_key"), off, "kms_key_rotation_disabled", "medium")

kms_findings(snaps) ==
  LET off(s) == Get(s, "rotation_enabled") = FALSE
  IN  Each(OfType(snaps, "kms_key"), off, "kms_key_rotation_disabled", "medium")

\* general_log_enabled is the variable the loop over the parameter groups left:
\* the flag of the last one (they are ordered by resource_id), unbound if none
log_group_findings(snaps) ==
  LET G == OfType(snaps, "cloudwatch_log_group")
      P == OfType(snaps, "rds_parameter_group")
      forever(s) == Get(s, "retention_in_days") = NULL
      last == CHOOSE p \in P : \A q \in P : q.id <= p.id
      general(s) == P # {} /\ Truthy(last, "general_log_enabled")
  IN  Each(G, forever, "cloudwatch_log_group_no_retention_policy", "low")
      \cup Each(G, general, "rds_parameter_group_general_log_enabled", "medium")

\* reading that unbound variable raises, and nothing has been committed yet
extended_raises(snaps) ==
  OfType(snaps, "cloudwatch_log_group") # {} /\ OfType(snaps, "rds_parameter_group") = {}

legacy_extended_findings(snaps) ==
  tag_findings(snaps) \cup acm_expiry_findings(snaps) \cup cloudfront_findings(snaps)
  \cup security_group_findings(snaps) \cup load_balancer_findings(snaps)
  \cup load_balancer_unused_findings(snaps) \cup route_table_findings(snaps)
  \cup target_group_findings(snaps) \cup target_group_tuning_findings(snaps)
  \cup exposure_findings(snaps) \cup apigateway_findings(snaps) \cup eventbridge_findings(snaps)
  \cup ses_findings(snaps) \cup acm_status_findings(snaps) \cup lambda_runtime_findings(snaps)
  \cup slow_query_findings(snaps) \cup kms_findings(snaps) \cup log_group_findings(snaps)

\* mutant: no compatibility filter
MutantDetectExtended(snaps, migrated) == legacy_extended_findings(snaps)

\* the findings whose type a loaded rule claims are left to the rule engine
detect_extended_findings(snaps, migrated) ==
  {f \in legacy_extended_findings(snaps) : f.ftype \notin migrated}
=============================================================================
