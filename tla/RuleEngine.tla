------------------------------ MODULE RuleEngine ------------------------------
(***************************************************************************)
(* The config-driven rules: the YAML files, the loader that skips a broken *)
(* one, the condition evaluator and the engine that emits findings.        *)
(***************************************************************************)
EXTENDS Detection

RuleFiles == {"acm", "apigateway", "cloudfront", "eventbridge", "lambda", "networking",
              "security_groups", "tagging"}

\* _parse_condition; the operators over several fields have no value
Cond(op, field, value) == [op |-> op, fields |-> {field}, value |-> value]
CondAll(op, fields) == [op |-> op, fields |-> fields, value |-> NULL]

\* _parse_rule
Rule(file, rtype, ftype, rec, cat, sev, conf, conds) ==
  [file |-> file, rtype |-> rtype, ftype |-> ftype, rec |-> rec, cat |-> cat, sev |-> sev,
   conf |-> conf, conds |-> conds]

WorldOpenFields == {"has_world_open_ssh", "has_world_open_rdp", "has_world_open_all_ports"}

\* mutant: the recommendation type of the other rule
MutantSecurityGroupRules ==
  <<Rule("security_groups", "security_group", "security_group_world_open_sensitive_port",
         "security_group_restrict_ingress", "security", "high", "high",
         <<CondAll("any_bool_true", WorldOpenFields)>>),
    Rule("security_groups", "security_group", "security_group_overly_permissive",
         "security_group_restrict_ingress", "security", "medium", "high",
         <<Cond("gte", "ingress_rule_count", 8), CondAll("all_bool_false", WorldOpenFields)>>)>>

security_group_rules ==
  <<Rule("security_groups", "security_group", "security_group_world_open_sensitive_port",
         "security_group_restrict_world_open_ports", "security", "high", "high",
         <<CondAll("any_bool_true", WorldOpenFields)>>),
    Rule("security_groups", "security_group", "security_group_overly_permissive",
         "security_group_restrict_ingress", "security", "medium", "high",
         <<Cond("gte", "ingress_rule_count", 8), CondAll("all_bool_false", WorldOpenFields)>>)>>

load_balancer_rules ==
  <<Rule("networking", "load_balancer", "load_balancer_deletion_protection_disabled",
         "load_balancer_enable_deletion_protection", "security", "medium", "high",
         <<Cond("bool_false", "deletion_protection_enabled", NULL)>>),
    Rule("networking", "load_balancer", "load_balancer_no_healthy_targets",
         "load_balancer_review_target_health", "security", "high", "high",
         <<Cond("gt", "target_group_count", 0), Cond("eq_zero", "healthy_target_count", NULL)>>),
    Rule("networking", "load_balancer", "load_balancer_no_healthy_traffic_path",
         "load_balancer_review_target_health", "reliability", "high", "high",
         <<Cond("gt", "listener_count", 0), Cond("gt", "target_group_count", 0),
           Cond("gt", "listener_forward_action_count", 0), Cond("eq_zero", "healthy_target_count", NULL)>>),
    Rule("networking", "load_balancer", "load_balancer_partial_failure",
         "load_balancer_review_target_health", "reliability", "medium", "high",
         <<Cond("gt", "healthy_target_count", 0), Cond("gt", "unhealthy_target_count", 0)>>)>>

route_table_rules ==
  <<Rule("networking", "route_table", "route_table_unassociated_review",
         "route_table_cleanup_unused", "governance", "low", "high",
         <<Cond("eq_zero", "association_count", NULL)>>),
    Rule("networking", "route_table", "route_table_public_default_route_review",
         "route_table_review_public_egress", "security", "medium", "medium",
         <<Cond("bool_true", "has_igw_default_route", NULL), Cond("bool_false", "has_nat_default_route", NULL)>>)>>

\* the interval, timeout and threshold checks of the health check are not in the rule
target_group_rules ==
  LET rule(ftype, rec, sev, conf, conds) ==
        Rule("networking", "target_group", ftype, rec, "reliability", sev, conf, conds)
  IN  <<rule("target_group_no_targets", "attach_targets_or_cleanup", "medium", "high",
             <<Cond("eq_zero", "total_targets", NULL)>>),
        rule("target_group_unhealthy_targets", "investigate_unhealthy_targets", "high", "high",
             <<Cond("gt", "unhealthy_count", 0)>>),
        rule("target_group_no_healthy_targets", "target_group_review_target_health", "high", "high",
             <<Cond("gt", "total_targets", 0), Cond("eq_zero", "healthy_count", NULL)>>),
        rule("target_group_misconfigured_health_check", "fix_health_check_configuration", "medium", "medium",
             <<Cond("bool_false", "health_check_enabled", NULL)>>),
        rule("target_group_stickiness_disabled", "target_group_enable_stickiness", "low", "medium",
             <<Cond("bool_false", "stickiness_enabled", NULL)>>),
        rule("target_group_slow_deregistration", "target_group_optimize_deregistration_delay", "low", "high",
             <<Cond("gt", "deregistration_delay_seconds", 60)>>)>>

\* endpoint_type is not among the fields the collector writes
apigateway_rules ==
  <<Rule("apigateway", "apigateway_rest_api", "apigateway_public_exposure_review",
         "apigateway_public_exposure_review", "security", "medium", "medium",
         <<Cond("eq", "endpoint_type", "PUBLIC")>>)>>

eventbridge_rules ==
  <<Rule("eventbridge", "eventbridge_rule", "eventbridge_rule_without_targets",
         "eventbridge_add_targets_or_cleanup", "security", "medium", "high",
         <<Cond("eq_zero", "target_count", NULL)>>),
    Rule("eventbridge", "eventbridge_rule", "eventbridge_rule_disabled_review",
         "eventbridge_review_disabled_rule", "governance", "low", "high",
         <<Cond("eq", "state", "DISABLED")>>)>>

acm_rules ==
  <<Rule("acm", "acm_certificate", "acm_certificate_expiring_soon",
         "acm_review_certificate_expiry", "security", "high", "high",
         <<Cond("exists", "not_after", NULL), Cond("days_until_lte", "not_after", 30),
           Cond("days_until_gt", "not_after", 0)>>),
    Rule("acm", "acm_certificate", "acm_certificate_pending_validation",
         "acm_complete_validation", "security", "medium", "high",
         <<Cond("eq", "status", "PENDING_VALIDATION")>>),
    Rule("acm", "acm_certificate", "acm_certificate_validation_issue",
         "acm_investigate_validation_failure", "security", "high", "high",
         <<Cond("in", "status", {"FAILED", "VALIDATION_TIMED_OUT", "REVOKED"})>>)>>

cloudfront_rules ==
  <<Rule("cloudfront", "cloudfront_distribution", "cloudfront_insecure_viewer_protocol_policy",
         "cloudfront_review_insecure_protocol_policy", "security", "high", "high",
         <<Cond("eq", "viewer_protocol_policy", "allow-all")>>),
    Rule("cloudfront", "cloudfront_distribution", "cloudfront_missing_https_redirect",
         "cloudfront_enforce_https_redirect", "security", "medium", "high",
         <<Cond("exists", "viewer_protocol_policy", NULL),
           Cond("neq", "viewer_protocol_policy", "redirect-to-https")>>),
    Rule("cloudfront", "cloudfront_distribution", "cloudfront_disabled_distribution_review",
         "cloudfront_review_disabled_distribution", "governance", "low", "medium",
         <<Cond("bool_false", "enabled", NULL)>>)>>

\* mutant: gt in place of gte
MutantLambdaRules ==
  <<Rule("lambda", "lambda_function", "lambda_outdated_runtime", "lambda_update_runtime",
         "security", "high", "high", <<Cond("startswith_any", "runtime", OutdatedRuntimes)>>),
    Rule("lambda", "lambda_function", "lambda_review_timeout_configuration",
         "lambda_review_timeout_configuration", "security", "medium", "medium",
         <<Cond("gt", "timeout", 120)>>)>>

\* startswith_any over the prefixes, which OutdatedRuntimes stands for
lambda_rules ==
  <<Rule("lambda", "lambda_function", "lambda_outdated_runtime", "lambda_update_runtime",
         "security", "high", "high", <<Cond("startswith_any", "runtime", OutdatedRuntimes)>>),
    Rule("lambda", "lambda_function", "lambda_review_timeout_configuration",
         "lambda_review_timeout_configuration", "security", "medium", "medium",
         <<Cond("gte", "timeout", 120)>>)>>

\* the recommendation type of a missing-tags finding, by resource type
TagRecommendation(rt) ==
  (CASE rt = "cloudfront_distribution" -> "cloudfront"
     [] rt = "acm_certificate" -> "acm"
     [] rt = "apigateway_rest_api" -> "apigateway"
     [] rt = "apigateway_http_api" -> "apigateway_http"
     [] rt = "eventbridge_rule" -> "eventbridge"
     [] rt = "ses_email_identity" -> "ses"
     [] rt = "iot_thing" -> "iot"
     [] OTHER -> rt) \o "_add_required_tags"

\* tagging.yaml; the later fourteen of the taggable types have no rule
TagRuleTypes ==
  <<"cloudfront_distribution", "acm_certificate", "apigateway_rest_api", "apigateway_http_api",
    "eventbridge_rule", "ses_email_identity", "iot_thing", "load_balancer", "target_group",
    "route_table", "vpc", "subnet", "nat_gateway", "internet_gateway", "security_group",
    "rds_parameter_group">>

tagging_rules ==
  [i \in DOMAIN TagRuleTypes |->
     Rule("tagging", TagRuleTypes[i], TagFinding(TagRuleTypes[i]), TagRecommendation(TagRuleTypes[i]),
          "governance", "medium", "high", <<CondAll("any_tag_missing", {"Name", "Environment"})>>)]

AllRules ==
  security_group_rules \o load_balancer_rules \o route_table_rules \o target_group_rules
  \o apigateway_rules \o eventbridge_rules \o acm_rules \o cloudfront_rules \o lambda_rules
  \o tagging_rules

------------------------------------------------------------------------------
\* load_all_rules: the rules (indices in AllRules) of the files that could be read
load_all_rules(broken) == {i \in DOMAIN AllRules : AllRules[i].file # broken}

\* get_migrated_finding_types
migrated_finding_types(rules) == {AllRules[i].ftype : i \in rules}

\* get_rule_for_finding
rules_for_finding(rules, ftype) == {i \in rules : AllRules[i].ftype = ftype}

\* `eq` with a string, and with the only number the files compare with (eq_zero):
\* a missing value is not a number, and the strings compared instead are both ""
eq(raw, value) == raw = value
eq_zero(raw) == raw = NULL \/ raw = 0

\* _eval_one, for the operators the rule files use
eval_one(c, s) ==
  LET field == CHOOSE f \in c.fields : TRUE
      raw == Get(s, field)
  IN  CASE c.op = "any_tag_missing" -> \E t \in c.fields : t \notin s.tags
        [] c.op = "any_bool_true"   -> \E f \in c.fields : Truthy(s, f)
        [] c.op = "all_bool_false"  -> \A f \in c.fields : ~Truthy(s, f)
        [] c.op \in {"startswith_any", "in"} -> raw \in c.value
        [] c.op = "days_until_lte"  -> raw # NULL /\ raw <= c.value
        [] c.op = "days_until_gt"   -> raw # NULL /\ raw > c.value
        [] c.op = "exists"          -> raw # NULL
        [] c.op = "bool_true"       -> Truthy(s, field)
        [] c.op = "bool_false"      -> ~Truthy(s, field)
        [] c.op = "eq"              -> eq(raw, c.value)
        [] c.op = "eq_zero"         -> eq_zero(raw)
        [] c.op = "neq"             -> ~eq(raw, c.value)
        [] c.op = "gt"              -> raw # NULL /\ raw > c.value
        [] c.op = "gte"             -> raw # NULL /\ raw >= c.value
        [] OTHER                    -> FALSE

evaluate_conditions(rule, s) == \A k \in DOMAIN rule.conds : eval_one(rule.conds[k], s)

build_finding_from_rule(rule, s) == [Find(s, rule.ftype, rule.sev) EXCEPT !.by = "rule"]

\* run_rule_engine over the latest snapshots
run_rule_engine(snaps, rules) ==
  UNION {{build_finding_from_rule(AllRules[i], s) :
            s \in {q \in OfType(snaps, AllRules[i].rtype) : evaluate_conditions(AllRules[i], q)}} :
         i \in rules}
=============================================================================
