------------------------- MODULE MCFindingsPipeline -------------------------
(* Accounts, faults and crashes for TLC. *)
EXTENDS FindingsPipeline

Tagged == {"Name", "Environment"}

Res(id, type, region, x) == [id |-> id, type |-> type, region |-> region, x |-> x]

\* what the resources of a type can look like
Xs(type) ==
  CASE type \in {"ec2_instance"} -> [state : {"running", "stopped"}, tags : {{}, Tagged}]
    [] type = "ebs_volume" -> [state : {"in-use", "available"}, tags : {{}, Tagged}]
    [] type = "rds_instance" ->
         [db_instance_class : {"db.m5.large", "db.serverless"}, publicly_accessible : BOOLEAN,
          db_cluster_identifier : {NULL}, cpu : {2, 8}, connections : {1, 2}, free : {70, 69},
          allocated_storage : {0, 100}, tags : {Tagged}]
    [] type = "aurora_cluster" ->
         [engine_mode : {"provisioned", "serverless"}, v2 : {NULL, 0, 5, 6}, v1 : {NULL, 10, 20}, tags : {Tagged}]
    [] type = "lambda_function" ->
         [runtime : {"python3.7", "python3.12"}, memory_size : {1023, 1024}, timeout : {119, 120},
          invocations : {99}, duration : {499, 500}, concurrency : {50}, reserved : {NULL, 5}, tags : {Tagged}]
    [] type = "s3_bucket" ->
         [versioning : {"Enabled", "Suspended"}, encryption : BOOLEAN, public_access_block : BOOLEAN,
          lifecycle : {0, 1}, size_gb : {49, 100}, tags : {{"Name"}, Tagged}]
    [] type = "cloudfront_distribution" ->
         [enabled : BOOLEAN, viewer_protocol_policy : {"allow-all", "https-only", "redirect-to-https", NULL}, tags : {{}}]
    [] type = "acm_certificate" ->
         [status : {"ISSUED", "PENDING_VALIDATION", "FAILED"}, not_after : {NULL, 0, 1, 30, 31}, tags : {Tagged}]
    [] type = "apigateway_rest_api" -> [disable_execute_api_endpoint : BOOLEAN, tags : {{}, Tagged}]
    [] type = "apigateway_http_api" -> [api_endpoint : {NULL, "url"}, tags : {{}, Tagged}]
    [] type = "eventbridge_rule" -> [state : {"ENABLED", "DISABLED"}, target_count : {0, 1}, tags : {Tagged}]
    [] type = "ses_email_identity" ->
         [verification_status : {"SUCCESS", "PENDING"}, sending_enabled : BOOLEAN, tags : {Tagged}]
    [] type = "load_balancer" ->
         [deletion_protection : BOOLEAN, target_groups : {0, 1}, healthy : {0, 1}, unhealthy : {0, 1},
          listeners : {0, 1}, forwards : {0, 1}, tags : {Tagged}]
    [] type = "target_group" ->
         [healthy : {0, 1}, unhealthy : {0, 1}, total : {0, 1}, health_check_enabled : BOOLEAN,
          interval : {30}, timeout : {0, 5}, threshold : {2}, sticky : BOOLEAN, delay : {60, 61}, tags : {Tagged}]
    [] type = "route_table" ->
         [subnets : {{}, {7}}, main : BOOLEAN, default_routes : SUBSET {"igw", "nat"}, tags : {{}}]
    [] type = "subnet" -> [map_public_ip_on_launch : BOOLEAN, tags : {{}, Tagged}]
    [] type = "security_group" ->
         [permissions : {<<>>, <<[world |-> TRUE, proto |-> "tcp", from |-> 20, to |-> 22]>>,
                         <<[world |-> TRUE, proto |-> "tcp", from |-> 23, to |-> 3388]>>,
                         <<[world |-> TRUE, proto |-> "tcp", from |-> 0, to |-> 65535]>>,
                         <<[world |-> TRUE, proto |-> "-1", from |-> NULL, to |-> NULL]>>,
                         [i \in 1..7 |-> [world |-> FALSE, proto |-> "-1", from |-> NULL, to |-> NULL]],
                         [i \in 1..8 |-> [world |-> FALSE, proto |-> "tcp", from |-> 22, to |-> 22]]},
          tags : {Tagged}]
    [] type = "rds_parameter_group" -> [slow_query_log : BOOLEAN, general_log : BOOLEAN, tags : {{}}]
    [] type = "cloudwatch_log_group" -> [retention : {NULL, 7}, tags : {{}, Tagged}]
    [] type = "kms_key" -> [rotation : {TRUE, FALSE, NULL}, tags : {Tagged}]
    [] OTHER -> [tags : {{}, Tagged}]

\* the calls the collector of a type makes besides its listing
ItemCalls(type) ==
  CASE type = "rds_instance" -> {"tags", "metrics"}
    [] type = "lambda_function" -> {"tags", "metrics", "concurrency"}
    [] type = "s3_bucket" -> {"tags", "metrics", "versioning", "encryption", "public_access", "lifecycle"}
    [] type = "eventbridge_rule" -> {"targets"}
    [] type = "ses_email_identity" -> {"describe"}
    [] type = "load_balancer" -> {"tags", "attributes", "groups", "health", "listeners"}
    [] type = "target_group" -> {"tags", "attributes", "health"}
    [] type = "rds_parameter_group" -> {"tags", "describe"}
    [] type \in {"eks_cluster"} -> {"describe"}
    [] type = "kms_key" -> {"tags", "describe", "rotation"}
    [] type \in {"opensearch_domain", "sqs_queue", "sns_topic", "kinesis_stream", "dynamodb_table"} ->
         {"tags", "describe"}
    [] type \in {"ec2_instance", "ebs_volume", "apigateway_http_api", "vpc", "subnet", "nat_gateway",
                 "internet_gateway", "security_group", "redshift_cluster", "iam_role", "route_table",
                 "cloudwatch_log_group"} -> {}
    [] OTHER -> {"tags"}

Types == ExtendedTypes \cup {"ec2_instance", "ebs_volume", "rds_instance", "aurora_cluster",
                             "lambda_function", "s3_bucket"}

RegionOf(type) ==
  IF type \in {"cloudfront_distribution", "iam_role", "iam_user"} THEN "global" ELSE HomeRegion

Faults(type) ==
  {NULL}
  \cup [type : {type}, region : {RegionOf(type)}, call : ItemCalls(type), kind : {"denied", "network"}]
  \cup [type : {type}, region : {RegionOf(type)}, call : {"list", "regions"}, kind : {"denied", "client", "network"}]

Sync(rs, f, c, file, n) ==
  [account |-> rs, fault |-> f, cost |-> c, broken |-> file, crashes |-> n, later |-> {}]

\* s, and after it a sync of the accounts A that may meet the faults F
Then(s, A, F) == {[s EXCEPT !.later = {[account |-> a, fault |-> f]}] : a \in A, f \in F}

Free == [nat |-> 0, waf |-> 0]

\* a parameter group keeps the detector from failing on the log groups
Beside(type) ==
  IF type # "cloudwatch_log_group" THEN {}
  ELSE {Res(9, "rds_parameter_group", HomeRegion, [slow_query_log |-> TRUE, general_log |-> FALSE, tags |-> Tagged])}

Plain(type) == CHOOSE x \in Xs(type) : TRUE

\* one resource of a type whose calls may fail, and another one abroad
OneType ==
  UNION {UNION {{Sync({Res(1, t, RegionOf(t), x)} \cup Beside(t)
                        \cup (IF RegionOf(t) = "global" \/ t = "s3_bucket" THEN {}
                              ELSE {Res(2, t, "r2", Plain(t))}), f, Free, NULL, 0) :
                   x \in (IF f = NULL THEN Xs(t) \cup {[y EXCEPT !.tags = {"Name"}] : y \in Xs(t)} ELSE Xs(t))} :
                f \in Faults(t)} : t \in Types \ {"rds_instance", "aurora_cluster", "target_group", "load_balancer"}}

\* a resource whose findings can come from a failed call only
Sound(t, x) ==
  CASE t = "load_balancer" -> x.deletion_protection /\ x.target_groups = 1 /\ x.listeners = 1
    [] t = "target_group" -> x.sticky /\ x.total = 1 /\ x.timeout = 5
    [] OTHER -> x = Plain(t)

\* the types with many fields: all of them without a fault, the sound ones with
Wide ==
  UNION {{Sync({Res(1, t, HomeRegion, x)}, NULL, Free, NULL, 0) : x \in Xs(t)}
         \cup {Sync({Res(1, t, HomeRegion, x), Res(2, t, "r2", Plain(t))}, f, Free, NULL, 0) :
                 x \in {y \in Xs(t) : Sound(t, y)}, f \in Faults(t)} :
         t \in {"rds_instance", "aurora_cluster", "target_group", "load_balancer"}}

Instance(id, cluster, public) ==
  Res(id, "rds_instance", HomeRegion,
      [db_instance_class |-> "db.serverless", publicly_accessible |-> public, db_cluster_identifier |-> cluster,
       cpu |-> 50, connections |-> 9, free |-> 1, allocated_storage |-> 100, tags |-> {}])

Cluster(id, v2) ==
  Res(id, "aurora_cluster", HomeRegion, [engine_mode |-> "provisioned", v2 |-> v2, v1 |-> NULL, tags |-> Tagged])

\* a cluster, its writer and reader, and an instance of its own
Databases ==
  {Sync({Instance(11, 1, a), Instance(12, 1, b), Instance(21, NULL, c)} \cup cl, f, Free, NULL, 0) :
     a \in BOOLEAN, b \in BOOLEAN, c \in BOOLEAN, cl \in {{}, {Cluster(1, 5)}, {Cluster(1, 20)}},
     f \in {NULL} \cup [type : {"rds_instance", "aurora_cluster"}, region : {HomeRegion}, call : {"list", "tags"},
                        kind : {"denied", "network"}]}

\* the same cluster again: an instance that is made public or private, a cluster whose
\* listing fails, databases that are gone
Instances(as) == {Instance(11, 1, a) : a \in as}
LaterDatabases ==
  UNION {Then([Sync(Instances({a}) \cup {Cluster(1, 20)}, NULL, Free, NULL, n) EXCEPT !.fault = g],
              {Instances({b}) \cup cl : b \in BOOLEAN, cl \in {{}, {Cluster(1, 20)}}} \cup {{}, {Cluster(1, 20)}},
              {NULL} \cup [type : {"rds_instance", "aurora_cluster"}, region : {HomeRegion}, call : {"list"},
                          kind : {"denied", "client"}]) :
         a \in BOOLEAN, n \in {0, 1},
         g \in {NULL, [type |-> "aurora_cluster", region |-> HomeRegion, call |-> "list", kind |-> "denied"]}}

RouteTable == Res(3, "route_table", HomeRegion, [subnets |-> {4}, main |-> FALSE, default_routes |-> {"igw"}, tags |-> {}])
Subnet == Res(4, "subnet", HomeRegion, [map_public_ip_on_launch |-> TRUE, tags |-> {}])
Ssh(id) == Res(id, "security_group", HomeRegion,
               [permissions |-> <<[world |-> TRUE, proto |-> "tcp", from |-> 22, to |-> 22]>>, tags |-> {}])

\* an exposed network, in which a second group is beyond the cap; any rule file may
\* be broken, the tasks die anywhere
Network ==
  {Sync({RouteTable, Subnet, Ssh(5), Ssh(6)}, f, [nat |-> 1, waf |-> w], b, 1) :
     f \in {NULL} \cup [type : {"security_group", "route_table", "subnet"}, region : {HomeRegion}, call : {"list"},
                        kind : {"denied", "client"}],
     w \in {0, 1}, b \in {NULL, "networking", "security_groups", "tagging"}}

\* a network of which a later sync finds only some parts, or finds them changed
LaterNetwork ==
  Then(Sync({RouteTable, Subnet, Ssh(5)}, NULL, Free, NULL, 0),
       {{RouteTable, Subnet, Ssh(6)}, {[RouteTable EXCEPT !.x.default_routes = {}], Subnet}, {Subnet}},
       {NULL} \cup [type : {"security_group", "route_table", "subnet"}, region : {HomeRegion}, call : {"list"},
                   kind : {"denied", "client"}])

\* one resource of several types each, every rule file broken in turn
Mixed ==
  LET r(id, t) == Res(id, t, RegionOf(t), Plain(t))
      types == <<"ec2_instance", "lambda_function", "s3_bucket", "acm_certificate", "cloudfront_distribution",
                 "apigateway_rest_api", "eventbridge_rule", "load_balancer", "target_group", "ebs_volume">>
  IN  {Sync({r(i, types[i]) : i \in DOMAIN types}, NULL, Free, b, 1) : b \in RuleFiles \cup {NULL}}

LogGroup == Res(1, "cloudwatch_log_group", HomeRegion, [retention |-> NULL, tags |-> Tagged])

\* an account with a log group and without a parameter group
LogGroupOnly == {Sync({LogGroup}, NULL, Free, NULL, 0)}

\* parameter groups that differ in their general log, in two regions
LogGroups ==
  LET pg(id, region, on) ==
        Res(id, "rds_parameter_group", region, [slow_query_log |-> TRUE, general_log |-> on, tags |-> Tagged])
  IN  {Sync({LogGroup, pg(8, "r1", TRUE), pg(9, "r2", FALSE)},
            [type |-> "rds_parameter_group", region |-> reg, call |-> "list", kind |-> "denied"], Free, NULL, 0) :
         reg \in {"r1", "r2"}}

MCScenarios == OneType \cup Wide \cup Databases \cup LaterDatabases \cup Network \cup LaterNetwork \cup Mixed \cup LogGroups \cup LogGroupOnly
=============================================================================
