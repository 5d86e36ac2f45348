------------------------ MODULE RecommendationBuilder ------------------------
(***************************************************************************)
(* From a finding to a recommendation: the rule's metadata when a rule     *)
(* claims the finding type, the hard-coded table otherwise.  Texts are left *)
(* out; a recommendation is [rid, ftype, rec, cat, risk, conf].             *)
(***************************************************************************)
EXTENDS RuleEngine

\* recommendation type, risk level and confidence
Advice(rec, risk, conf) == [rec |-> rec, risk |-> risk, conf |-> conf]

edge_advice ==
  [ec2_stopped_instance |-> Advice("ec2_review_stopped_instance", "low", "medium"),
   acm_certificate_expiring_soon |-> Advice("acm_review_certificate_expiry", "high", "high"),
   cloudfront_insecure_viewer_protocol_policy |-> Advice("cloudfront_review_insecure_protocol_policy", "high", "high"),
   cloudfront_missing_https_redirect |-> Advice("cloudfront_enforce_https_redirect", "medium", "high"),
   cloudfront_disabled_distribution_review |-> Advice("cloudfront_review_disabled_distribution", "low", "medium")]

integration_advice ==
  [apigateway_public_exposure_review |-> Advice("apigateway_public_exposure_review", "medium", "medium"),
   eventbridge_rule_without_targets |-> Advice("eventbridge_add_targets_or_cleanup", "medium", "high"),
   eventbridge_rule_disabled_review |-> Advice("eventbridge_review_disabled_rule", "low", "high")]

load_balancer_advice ==
  [load_balancer_deletion_protection_disabled |-> Advice("load_balancer_enable_deletion_protection", "medium", "high"),
   load_balancer_no_healthy_targets |-> Advice("load_balancer_review_target_health", "high", "high"),
   load_balancer_no_healthy_traffic_path |-> Advice("load_balancer_review_target_health", "high", "high"),
   load_balancer_unused |-> Advice("load_balancer_cleanup_unused", "low", "medium"),
   load_balancer_partial_failure |-> Advice("load_balancer_review_target_health", "medium", "high")]

route_and_certificate_advice ==
  [route_table_unassociated_review |-> Advice("route_table_cleanup_unused", "low", "high"),
   route_table_public_default_route_review |-> Advice("route_table_review_public_egress", "medium", "medium"),
   acm_certificate_pending_validation |-> Advice("acm_complete_validation", "medium", "high"),
   acm_certificate_validation_issue |-> Advice("acm_investigate_validation_failure", "high", "high"),
   ses_identity_unverified |-> Advice("ses_fix_identity_verification", "medium", "high"),
   ses_sending_disabled_identity |-> Advice("ses_review_sending_configuration", "medium", "high")]

exposure_advice ==
  [security_group_world_open_sensitive_port |-> Advice("security_group_restrict_world_open_ports", "high", "high"),
   security_group_overly_permissive |-> Advice("security_group_restrict_ingress", "medium", "medium"),
   lambda_outdated_runtime |-> Advice("lambda_update_runtime", "high", "high"),
   lambda_review_timeout_configuration |-> Advice("lambda_review_timeout_configuration", "medium", "medium"),
   rds_missing_required_tags |-> Advice("rds_add_required_tags", "medium", "high"),
   rds_publicly_accessible |-> Advice("rds_disable_public_access", "high", "high")]

lambda_and_bucket_advice ==
  [lambda_missing_required_tags |-> Advice("lambda_add_required_tags", "medium", "high"),
   lambda_high_memory_configuration_candidate |-> Advice("lambda_rightsize_memory", "medium", "medium"),
   s3_missing_required_tags |-> Advice("s3_add_required_tags", "medium", "high"),
   s3_public_access_candidate |-> Advice("s3_enable_public_access_block", "high", "medium"),
   s3_versioning_disabled_candidate |-> Advice("s3_enable_versioning", "medium", "medium")]

cost_and_target_advice ==
  [s3_lifecycle_policy_missing |-> Advice("s3_add_lifecycle_policy", "medium", "medium"),
   nat_gateway_cost_review_candidate |-> Advice("nat_gateway_cost_review", "medium", "medium"),
   waf_cost_review_candidate |-> Advice("waf_cost_review", "medium", "medium"),
   target_group_no_healthy_targets |-> Advice("target_group_review_target_health", "high", "high"),
   target_group_no_targets |-> Advice("attach_targets_or_cleanup", "medium", "high"),
   target_group_unhealthy_targets |-> Advice("investigate_unhealthy_targets", "high", "high")]

utilisation_advice ==
  [target_group_misconfigured_health_check |-> Advice("fix_health_check_configuration", "medium", "medium"),
   rds_low_cpu_underutilized |-> Advice("downsize_instance", "medium", "medium"),
   rds_high_storage_unused |-> Advice("switch_instance_class", "low", "medium"),
   rds_idle_instance_candidate |-> Advice("stop_or_schedule", "low", "medium"),
   s3_missing_encryption |-> Advice("enable_encryption", "high", "high"),
   s3_no_lifecycle_large_bucket |-> Advice("add_lifecycle_policy", "medium", "medium")]

workload_advice ==
  [s3_infrequent_access_candidate |-> Advice("move_to_ia_or_glacier", "low", "medium"),
   lambda_low_utilization |-> Advice("reduce_memory", "low", "medium"),
   lambda_excessive_memory_allocation |-> Advice("reduce_memory", "medium", "medium"),
   lambda_concurrency_risk |-> Advice("set_reserved_concurrency", "medium", "medium"),
   public_subnet_with_open_sg |-> Advice("security_group_restrict_world_open_ports", "high", "medium"),
   internet_exposed_resource_chain |-> Advice("security_group_restrict_world_open_ports", "high", "medium")]

tuning_advice ==
  [target_group_stickiness_disabled |-> Advice("target_group_enable_stickiness", "low", "medium"),
   target_group_slow_deregistration |-> Advice("target_group_optimize_deregistration_delay", "low", "high"),
   rds_parameter_group_slow_query_disabled |-> Advice("rds_parameter_group_enable_slow_query_log", "low", "high"),
   rds_parameter_group_general_log_enabled |-> Advice("rds_parameter_group_disable_general_log", "medium", "high")]

\* TAG_GOVERNANCE_FINDING_TO_RECOMMENDATION
TAG_GOVERNANCE_FINDING_TO_RECOMMENDATION ==
  [ft \in {TagFinding(rt) : rt \in EXTENDED_TAGGABLE_RESOURCE_TYPES \cup {"ec2"}} |->
     Advice(TagRecommendation(CHOOSE rt \in EXTENDED_TAGGABLE_RESOURCE_TYPES \cup {"ec2"} : TagFinding(rt) = ft),
            "medium", "high")]

advice_tables ==
  {TAG_GOVERNANCE_FINDING_TO_RECOMMENDATION, edge_advice, integration_advice, load_balancer_advice,
   route_and_certificate_advice, exposure_advice, lambda_and_bucket_advice, cost_and_target_advice,
   utilisation_advice, workload_advice, tuning_advice}

\* no finding type is in two of the tables
legacy_advice ==
  [ft \in UNION {DOMAIN t : t \in advice_tables} |-> (CHOOSE t \in advice_tables : ft \in DOMAIN t)[ft]]

\* the findings generate reads; ebs findings, the KMS and log group findings and
\* rds_instance_overprovisioned are not among them
RECOMMENDATION_SOURCE_FINDING_TYPES == DOMAIN legacy_advice \cup {"aurora_serverless_review_candidate"}

------------------------------------------------------------------------------
AURORA_ALT_ARCH_MIN_MONTHLY_SAVINGS_THRESHOLD == 50

\* floors in tenths of a capacity unit: v2 0.5, v1 1.0
AURORA_SERVERLESS_FLOOR_ACU == [v2 |-> 5, v1 |-> 10]

\* capacities are in tenths; a v2 minimum of zero is falsy and read as absent
classify_aurora_serverless(ev) ==
  LET present(n) == n # NULL /\ n # 0
      floor == IF present(ev.v2) THEN AURORA_SERVERLESS_FLOOR_ACU.v2 ELSE AURORA_SERVERLESS_FLOOR_ACU.v1
      min == IF present(ev.v2) THEN ev.v2 ELSE IF present(ev.v1) THEN ev.v1 ELSE NULL
  IN  CASE min # NULL /\ min <= floor -> "service_floor_reached"
        [] min # NULL /\ min > floor  -> "immediate_rightsize"
        [] OTHER -> IF ev.savings < AURORA_ALT_ARCH_MIN_MONTHLY_SAVINGS_THRESHOLD
                    THEN "low_value" ELSE "alternative_architecture_review"

\* nothing is returned for a finding that is suppressed
aurora_advice(ev) ==
  CASE classify_aurora_serverless(ev) = "immediate_rightsize" ->
         {Advice("aurora_serverless_cost_review", "medium", "medium")}
    [] classify_aurora_serverless(ev) = "alternative_architecture_review" ->
         {Advice("aurora_serverless_cost_review", "high", "low")}
    [] OTHER -> {}

recommendation_category_for_type(rec) ==
  CASE rec \in {"aurora_serverless_cost_review", "lambda_rightsize_memory", "s3_add_lifecycle_policy",
                "add_lifecycle_policy", "nat_gateway_cost_review", "waf_cost_review",
                "ec2_review_stopped_instance", "downsize_instance", "switch_instance_class",
                "stop_or_schedule", "move_to_ia_or_glacier", "reduce_memory"} -> "cost"
    [] rec \in {"rds_disable_public_access", "s3_enable_public_access_block", "s3_enable_versioning",
                "enable_encryption", "set_reserved_concurrency", "acm_review_certificate_expiry",
                "cloudfront_review_insecure_protocol_policy", "cloudfront_enforce_https_redirect",
                "cloudfront_review_disabled_distribution", "apigateway_public_exposure_review",
                "acm_complete_validation", "acm_investigate_validation_failure", "lambda_update_runtime",
                "lambda_review_timeout_configuration", "ses_fix_identity_verification",
                "ses_review_sending_configuration", "security_group_restrict_world_open_ports",
                "security_group_restrict_ingress", "eventbridge_add_targets_or_cleanup",
                "eventbridge_review_disabled_rule", "load_balancer_enable_deletion_protection",
                "load_balancer_review_target_health", "route_table_review_public_egress",
                "target_group_review_target_health", "target_group_enable_stickiness",
                "target_group_optimize_deregistration_delay", "attach_targets_or_cleanup",
                "investigate_unhealthy_targets", "fix_health_check_configuration",
                "rds_parameter_group_enable_slow_query_log",
                "rds_parameter_group_disable_general_log"} -> "security"
    [] OTHER -> "governance"

Recommendation(f, a, cat) ==
  [rid |-> f.rid, ftype |-> f.ftype, rec |-> a.rec, cat |-> cat, risk |-> a.risk, conf |-> a.conf]

\* _build_recommendation_for_finding: at most one recommendation
build_recommendation_for_finding(f, rules) ==
  LET claimed == rules_for_finding(rules, f.ftype)
      byRule(r) == Recommendation(f, Advice(r.rec, r.sev, r.conf), r.cat)
      byTable(a) == Recommendation(f, a, recommendation_category_for_type(a.rec))
  IN  IF claimed # {} THEN {byRule(AllRules[i]) : i \in claimed}
      ELSE IF f.ftype = "aurora_serverless_review_candidate" THEN {byTable(a) : a \in aurora_advice(f.ev)}
      ELSE IF f.ftype \in DOMAIN legacy_advice THEN {byTable(legacy_advice[f.ftype])}
      ELSE {}

\* the candidates of generate: source findings, one Aurora review per cluster
recommendation_candidates(fs, rules) ==
  UNION {build_recommendation_for_finding(f, rules) :
           f \in {g \in dedupe_aurora_serverless_review_findings(fs) :
                    g.ftype \in RECOMMENDATION_SOURCE_FINDING_TYPES}}

\* _recommendation_key
recommendation_key(r) == <<r.rid, r.ftype, r.rec>>
=============================================================================
