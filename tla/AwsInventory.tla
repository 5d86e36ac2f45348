---------------------------- MODULE AwsInventory ----------------------------
(***************************************************************************)
(* The AWS collectors: what a resource of the account becomes in the        *)
(* database when some API call fails.                                       *)
(*                                                                          *)
(* A resource is [id, type, region, x], x holding what AWS would answer     *)
(* (x.tags is its set of tag keys).  Every operator of a collector takes    *)
(* the resource and o, the outcome of each kind of call about it: "ok",     *)
(* "denied" (a ClientError with a skippable code), "client" (any other      *)
(* ClientError) or "network" (a BotoCoreError, which carries no response).  *)
(* Configuration entries that no detector or rule reads are left out.       *)
(***************************************************************************)
EXTENDS Naturals, Sequences, FiniteSets

CONSTANTS NULL,                            \* Python's None
          AwsRegions,                      \* the account's commercial regions
          HomeRegion,                      \* cloud_account.region_default
          ScanAllRegions,                  \* settings.aws_scan_all_regions
          MAX_SECURITY_GROUPS_PER_REGION   \* cap of the security group scan

\* the home region is one of the regions describe_regions returns; None is neither a
\* flag nor the endpoint type that a rule asks for
ASSUME InventoryAssumption ==
  /\ HomeRegion \in AwsRegions /\ "global" \notin AwsRegions /\ ScanAllRegions \in BOOLEAN
  /\ NULL \notin BOOLEAN /\ NULL # "PUBLIC"

Calls == {"regions", "list", "describe", "tags", "attributes", "groups", "health",
          "listeners", "targets", "metrics", "versioning", "encryption",
          "public_access", "lifecycle", "concurrency", "rotation"}

Skippable == {"denied"}

SnapshotRow(r, cfg, tags) ==
  [out |-> "row",
   row |-> [id |-> r.id, type |-> r.type, region |-> r.region, cfg |-> cfg, tags |-> tags]]

\* a configuration of which nothing is read
NoConfig == [none |-> NULL]

\* `continue` after a failed describe: the resource gets no row
Drop == [out |-> "drop"]

Raise(kind) == [out |-> kind]

Known(o, call, value) == IF o[call] = "ok" THEN value ELSE NULL

\* the collectors that turn a failed tag call into "no tags"
TagsOrNone(r, o) == IF o["tags"] = "ok" THEN r.x.tags ELSE {}

------------------------------------------------------------------------------
(* aws_inventory_service: EC2, EBS, RDS, Aurora, Lambda, S3 *)

normalize_instance(r, o) == SnapshotRow(r, [state |-> r.x.state], r.x.tags)

normalize_ebs_volume(r, o) == SnapshotRow(r, [state |-> r.x.state], r.x.tags)

\* one CloudWatch statistic: None when the call fails or has no datapoint
cw_7d(o, value) == Known(o, "metrics", value)

\* share of the allocated storage that is free, in percent, clamped to 0..100
storage_free_ratio(x, free) ==
  IF free = NULL \/ x.allocated_storage = 0 THEN NULL
  ELSE IF free >= x.allocated_storage THEN 100 ELSE (100 * free) \div x.allocated_storage

normalize_rds_instance(r, o) ==
  SnapshotRow(r, [db_instance_class      |-> r.x.db_instance_class,
                  publicly_accessible    |-> r.x.publicly_accessible,
                  db_cluster_identifier  |-> r.x.db_cluster_identifier,
                  cpu_utilization_avg_7d |-> cw_7d(o, r.x.cpu),
                  db_connections_avg_7d  |-> cw_7d(o, r.x.connections),
                  storage_free_ratio_7d  |-> storage_free_ratio(r.x, cw_7d(o, r.x.free))],
              TagsOrNone(r, o))

normalize_aurora_cluster(r, o) ==
  SnapshotRow(r, [engine_mode |-> r.x.engine_mode, serverless_v2_scaling |-> r.x.v2,
                  scaling_configuration |-> r.x.v1], TagsOrNone(r, o))

normalize_lambda_function(r, o) ==
  SnapshotRow(r, [runtime                      |-> r.x.runtime,
                  memory_size                  |-> r.x.memory_size,
                  timeout                      |-> r.x.timeout,
                  invocations_sum_7d           |-> cw_7d(o, r.x.invocations),
                  duration_avg_ms_7d           |-> cw_7d(o, r.x.duration),
                  concurrent_executions_max_7d |-> cw_7d(o, r.x.concurrency),
                  reserved_concurrency         |-> Known(o, "concurrency", r.x.reserved)],
              TagsOrNone(r, o))

\* an AccessDenied on the tags of a bucket means no tags, anything else is raised
fetch_s3_bucket_tags(r, o) ==
  CASE o["tags"] = "ok" -> [ok |-> TRUE, tags |-> r.x.tags]
    [] o["tags"] = "denied" -> [ok |-> TRUE, tags |-> {}]
    [] OTHER -> [ok |-> FALSE]

\* x.encryption is FALSE also when AWS answers ServerSideEncryptionConfigurationNotFound
normalize_s3_bucket(r, o) ==
  LET t == fetch_s3_bucket_tags(r, o)
  IN  IF ~t.ok THEN Raise(o["tags"])
      ELSE SnapshotRow(r, [versioning_status     |-> IF o["versioning"] = "ok" THEN r.x.versioning ELSE "unknown",
                           encryption_enabled    |-> Known(o, "encryption", r.x.encryption),
                           public_access_block   |-> Known(o, "public_access", r.x.public_access_block),
                           lifecycle_rules_count |-> IF o["lifecycle"] = "ok" THEN r.x.lifecycle ELSE 0,
                           bucket_size_gb        |-> cw_7d(o, r.x.size_gb)], t.tags)

------------------------------------------------------------------------------
(* aws_extended_inventory: edge, integration and messaging services *)

cloudfront_item(r, o) ==
  SnapshotRow(r, [enabled |-> r.x.enabled, viewer_protocol_policy |-> r.x.viewer_protocol_policy],
              TagsOrNone(r, o))

\* a failed describe falls back to the list summary, which has these fields
acm_one_region(r, o) == SnapshotRow(r, [status |-> r.x.status, not_after |-> r.x.not_after], TagsOrNone(r, o))

apigw_rest_one_region(r, o) ==
  SnapshotRow(r, [disable_execute_api_endpoint |-> r.x.disable_execute_api_endpoint], TagsOrNone(r, o))

apigw_http_one_region(r, o) == SnapshotRow(r, [api_endpoint |-> r.x.api_endpoint], r.x.tags)

\* never reads the tags of a rule; a failed target listing counts as no target
events_rules_one_region(r, o) ==
  SnapshotRow(r, [state |-> r.x.state,
                  target_count |-> IF o["targets"] = "ok" THEN r.x.target_count ELSE 0], {})

ses_identities_one_region(r, o) ==
  SnapshotRow(r, IF o["describe"] = "ok"
                 THEN [verification_status |-> r.x.verification_status, sending_enabled |-> r.x.sending_enabled]
                 ELSE NoConfig, {})

iot_things_one_region(r, o) == SnapshotRow(r, NoConfig, TagsOrNone(r, o))

\* attributes unreadable: no deletion protection; target groups or their health
\* unreadable: no target group or no target; listeners unreadable: no listener
elbv2_one_region(r, o) ==
  LET seen(call, n) == IF o[call] = "ok" THEN n ELSE 0
  IN  SnapshotRow(r, [deletion_protection_enabled   |-> o["attributes"] = "ok" /\ r.x.deletion_protection,
                      target_group_count            |-> seen("groups", r.x.target_groups),
                      healthy_target_count          |-> seen("groups", seen("health", r.x.healthy)),
                      unhealthy_target_count        |-> seen("groups", seen("health", r.x.unhealthy)),
                      listener_count                |-> seen("listeners", r.x.listeners),
                      listener_forward_action_count |-> seen("listeners", r.x.forwards)],
                  TagsOrNone(r, o))

target_groups_one_region(r, o) ==
  LET seen(n) == IF o["health"] = "ok" THEN n ELSE 0
  IN  SnapshotRow(r, [healthy_count                 |-> seen(r.x.healthy),
                      unhealthy_count               |-> seen(r.x.unhealthy),
                      total_targets                 |-> seen(r.x.total),
                      health_check_enabled          |-> r.x.health_check_enabled,
                      health_check_interval_seconds |-> r.x.interval,
                      health_check_timeout_seconds  |-> r.x.timeout,
                      unhealthy_threshold_count     |-> r.x.threshold,
                      stickiness_enabled            |-> o["attributes"] = "ok" /\ r.x.sticky,
                      deregistration_delay_seconds  |-> IF o["attributes"] = "ok" THEN r.x.delay ELSE 30],
                  TagsOrNone(r, o))

------------------------------------------------------------------------------
(* networking *)

\* x.main: an association without a subnet (the main route table of the VPC);
\* x.default_routes: the kinds of gateway its default routes lead to
route_tables_one_region(r, o) ==
  SnapshotRow(r, [association_count     |-> Cardinality(r.x.subnets) + (IF r.x.main THEN 1 ELSE 0),
                  has_igw_default_route |-> "igw" \in r.x.default_routes,
                  has_nat_default_route |-> "nat" \in r.x.default_routes,
                  linked_subnets        |-> r.x.subnets], r.x.tags)

ec2_vpcs_one_region(r, o) == SnapshotRow(r, NoConfig, r.x.tags)

ec2_subnets_one_region(r, o) ==
  SnapshotRow(r, [map_public_ip_on_launch |-> r.x.map_public_ip_on_launch], r.x.tags)

nat_one_region(r, o) == SnapshotRow(r, NoConfig, r.x.tags)

igw_one_region(r, o) == SnapshotRow(r, NoConfig, r.x.tags)

\* over the world-open permissions; "-1" is every protocol and has no ports
summarize_world_open_ports(permissions) ==
  LET open == {permissions[i] : i \in {j \in DOMAIN permissions : permissions[j].world}}
      ranged == {p \in open : p.proto # "-1" /\ p.from # NULL}
      covers(p, port) == p.from <= port /\ port <= p.to
  IN  [ssh |-> \E p \in ranged : covers(p, 22),
       rdp |-> \E p \in ranged : covers(p, 3389),
       all |-> \/ \E p \in open : p.proto = "-1"
               \/ \E p \in ranged : p.from = 0 /\ p.to >= 65535]

sg_one_region(r, o) ==
  LET w == summarize_world_open_ports(r.x.permissions)
  IN  SnapshotRow(r, [ingress_rule_count       |-> Len(r.x.permissions),
                      has_world_open_ssh       |-> w.ssh,
                      has_world_open_rdp       |-> w.rdp,
                      has_world_open_all_ports |-> w.all], r.x.tags)

rds_parameter_groups_one_region(r, o) ==
  SnapshotRow(r, [slow_query_log_enabled |-> o["describe"] = "ok" /\ r.x.slow_query_log,
                  general_log_enabled    |-> o["describe"] = "ok" /\ r.x.general_log], TagsOrNone(r, o))

------------------------------------------------------------------------------
(* containers, data stores, messaging, keys, logs, identities *)

\* describe with TAGS is retried without them
ecs_clusters_one_region(r, o) == SnapshotRow(r, NoConfig, TagsOrNone(r, o))

ecs_services_one_region(r, o) == SnapshotRow(r, NoConfig, TagsOrNone(r, o))

eks_clusters_one_region(r, o) == IF o["describe"] = "ok" THEN SnapshotRow(r, NoConfig, r.x.tags) ELSE Drop

elasticache_clusters_one_region(r, o) == SnapshotRow(r, NoConfig, TagsOrNone(r, o))

redshift_clusters_one_region(r, o) == SnapshotRow(r, NoConfig, r.x.tags)

opensearch_domains_one_region(r, o) ==
  IF o["describe"] = "ok" THEN SnapshotRow(r, NoConfig, TagsOrNone(r, o)) ELSE Drop

\* the attribute and tag calls of queues and topics are not guarded
sqs_queues_one_region(r, o) ==
  CASE o["describe"] # "ok" -> Raise(o["describe"])
    [] o["tags"] # "ok" -> Raise(o["tags"])
    [] OTHER -> SnapshotRow(r, NoConfig, r.x.tags)

sns_topics_one_region(r, o) ==
  CASE o["describe"] # "ok" -> Raise(o["describe"])
    [] o["tags"] # "ok" -> Raise(o["tags"])
    [] OTHER -> SnapshotRow(r, NoConfig, r.x.tags)

kinesis_streams_one_region(r, o) ==
  IF o["describe"] = "ok" THEN SnapshotRow(r, NoConfig, TagsOrNone(r, o)) ELSE Drop

dynamodb_tables_one_region(r, o) ==
  IF o["describe"] = "ok" THEN SnapshotRow(r, NoConfig, TagsOrNone(r, o)) ELSE Drop

kms_keys_one_region(r, o) ==
  IF o["describe"] = "ok"
  THEN SnapshotRow(r, [rotation_enabled |-> Known(o, "rotation", r.x.rotation)], TagsOrNone(r, o))
  ELSE Drop

cloudwatch_log_groups_one_region(r, o) ==
  SnapshotRow(r, [retention_in_days |-> r.x.retention], TagsOrNone(r, o))

iam_roles_item(r, o) == SnapshotRow(r, NoConfig, r.x.tags)

iam_users_item(r, o) == SnapshotRow(r, NoConfig, TagsOrNone(r, o))

------------------------------------------------------------------------------
(* one collector over the regions *)

\* the collectors that do not go through _gather_per_region
GlobalTypes == {"cloudfront_distribution", "iam_role", "iam_user", "s3_bucket"}

Item(r, o) ==
  CASE r.type = "ec2_instance"            -> normalize_instance(r, o)
    [] r.type = "ebs_volume"              -> normalize_ebs_volume(r, o)
    [] r.type = "rds_instance"            -> normalize_rds_instance(r, o)
    [] r.type = "aurora_cluster"          -> normalize_aurora_cluster(r, o)
    [] r.type = "lambda_function"         -> normalize_lambda_function(r, o)
    [] r.type = "s3_bucket"               -> normalize_s3_bucket(r, o)
    [] r.type = "cloudfront_distribution" -> cloudfront_item(r, o)
    [] r.type = "acm_certificate"         -> acm_one_region(r, o)
    [] r.type = "apigateway_rest_api"     -> apigw_rest_one_region(r, o)
    [] r.type = "apigateway_http_api"     -> apigw_http_one_region(r, o)
    [] r.type = "eventbridge_rule"        -> events_rules_one_region(r, o)
    [] r.type = "ses_email_identity"      -> ses_identities_one_region(r, o)
    [] r.type = "iot_thing"               -> iot_things_one_region(r, o)
    [] r.type = "load_balancer"           -> elbv2_one_region(r, o)
    [] r.type = "target_group"            -> target_groups_one_region(r, o)
    [] r.type = "route_table"             -> route_tables_one_region(r, o)
    [] r.type = "vpc"                     -> ec2_vpcs_one_region(r, o)
    [] r.type = "subnet"                  -> ec2_subnets_one_region(r, o)
    [] r.type = "nat_gateway"             -> nat_one_region(r, o)
    [] r.type = "internet_gateway"        -> igw_one_region(r, o)
    [] r.type = "security_group"          -> sg_one_region(r, o)
    [] r.type = "rds_parameter_group"     -> rds_parameter_groups_one_region(r, o)
    [] r.type = "ecs_cluster"             -> ecs_clusters_one_region(r, o)
    [] r.type = "ecs_service"             -> ecs_services_one_region(r, o)
    [] r.type = "eks_cluster"             -> eks_clusters_one_region(r, o)
    [] r.type = "elasticache_cluster"     -> elasticache_clusters_one_region(r, o)
    [] r.type = "redshift_cluster"        -> redshift_clusters_one_region(r, o)
    [] r.type = "opensearch_domain"       -> opensearch_domains_one_region(r, o)
    [] r.type = "sqs_queue"               -> sqs_queues_one_region(r, o)
    [] r.type = "sns_topic"               -> sns_topics_one_region(r, o)
    [] r.type = "kinesis_stream"          -> kinesis_streams_one_region(r, o)
    [] r.type = "dynamodb_table"          -> dynamodb_tables_one_region(r, o)
    [] r.type = "kms_key"                 -> kms_keys_one_region(r, o)
    [] r.type = "cloudwatch_log_group"    -> cloudwatch_log_groups_one_region(r, o)
    [] r.type = "iam_role"                -> iam_roles_item(r, o)
    [] r.type = "iam_user"                -> iam_users_item(r, o)

\* What a failed listing does: CloudFront logs it and returns what it has; the
\* API Gateway and IoT listings return nothing on a skippable code; target groups
\* and parameter groups swallow a ClientError, but read the response that a
\* BotoCoreError does not have; every other listing lets the error through.
ListFailure(type, kind) ==
  CASE type = "cloudfront_distribution" -> Drop
    [] type \in {"apigateway_rest_api", "apigateway_http_api", "iot_thing"} /\ kind \in Skippable -> Drop
    [] type \in {"target_group", "rds_parameter_group"} ->
         IF kind = "network" THEN Raise("attribute") ELSE Drop
    [] OTHER -> Raise(kind)

\* the security groups listed after the cap of the region are left out
BeforeCap(r, rs) ==
  \/ r.type # "security_group"
  \/ Cardinality({q \in rs : q.id < r.id}) < MAX_SECURITY_GROUPS_PER_REGION

\* the results of scanning one region for a type, rs being its resources there
RegionResults(type, rs, o) ==
  IF o["list"] # "ok" THEN {ListFailure(type, o["list"])}
  ELSE {Item(r, o) : r \in {q \in rs : BeforeCap(q, rs)}}

Raised(results) == {res.out : res \in results} \ {"row", "drop"}

Rows(results) == {res.row : res \in {q \in results : q.out = "row"}}

inventory_regions(o) == IF ScanAllRegions /\ o["regions"] = "ok" THEN AwsRegions ELSE {HomeRegion}

\* mutant: a region that fails empties the result of the others
MutantGather(per, regions) ==
  [ok   |-> \A reg \in regions : Raised(per[reg]) \subseteq Skippable \cup {"network"},
   rows |-> IF \A reg \in regions : Raised(per[reg]) = {} THEN UNION {Rows(per[reg]) : reg \in regions} ELSE {}]

\* _gather_per_region: a region that fails with a skippable code or a network
\* error is skipped, any other error ends the collector; per[reg] are the results
gather_per_region(per, regions) ==
  LET kept == {reg \in regions : Raised(per[reg]) = {}}
  IN  [ok   |-> \A reg \in regions : Raised(per[reg]) \subseteq Skippable \cup {"network"},
       rows |-> UNION {Rows(per[reg]) : reg \in kept}]

\* One fetch_* function on rs, the account's resources of a type.  out[reg] gives
\* the outcomes of the calls about that type in a region.
Fetch(type, rs, out) ==
  LET per == [reg \in DOMAIN out |-> RegionResults(type, {r \in rs : r.region = reg}, out[reg])]
  IN  IF type \in GlobalTypes
      THEN [ok   |-> \A reg \in DOMAIN out : Raised(per[reg]) = {},
            rows |-> UNION {Rows(per[reg]) : reg \in DOMAIN out}]
      ELSE gather_per_region(per, inventory_regions(out[HomeRegion]))
=============================================================================
