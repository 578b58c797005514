------------------------------- MODULE CfnStacks -------------------------------
(***************************************************************************)
(* The stacks for which CfnDrawings is checked: a web site behind a load   *)
(* balancer, a service with its databases, and functions with their        *)
(* events, each as one template or split over two that import from each    *)
(* other.  A resource that the other template uses is exported.            *)
(***************************************************************************)
EXTENDS Naturals, Sequences, FiniteSets, SequencesExt

Ref(x) == [kind |-> "Ref", to |-> x]
Att(x) == [kind |-> "GetAtt", to |-> x]
Plain(x) == [kind |-> "plain", to |-> x]
P(path, values) == (path :> values)
R(type, refs) == [type |-> type, refs |-> refs, dependsOn |-> {}, flag |-> ""]
Flagged(r, flag) == [r EXCEPT !.flag = flag]
After(r, ids) == [r EXCEPT !.dependsOn = ids]
NoRefs == [p \in {} |-> <<>>]

\* A stack is a list of groups, a group a list of [id, is].
A(id, is) == [id |-> id, is |-> is]
Group(s, groups) == FlattenSeq([g \in DOMAIN groups |-> IF groups[g].file = s THEN groups[g].list ELSE <<>>])
\* A value that names a resource of the other template becomes an import.
Across(v, own, all) ==
  IF v.kind # "plain" /\ v.to \in all \ own THEN [kind |-> "Import", to |-> "x" \o v.to] ELSE v
Imported(r, own, all) ==
  [r EXCEPT !.refs = [p \in DOMAIN @ |-> [k \in DOMAIN @[p] |-> Across(@[p][k], own, all)]],
            !.dependsOn = @ \cap own]
Used(list) == UNION {UNION {{v.to : v \in ToSet(list[k].is.refs[p])} : p \in DOMAIN list[k].is.refs} : k \in DOMAIN list}
IdsOf(list) == {list[k].id : k \in DOMAIN list}
Exported(list, other) == SelectSeq([k \in DOMAIN list |-> list[k].id], LAMBDA id : id \in Used(other))
File(list, other) ==
  [resources |-> [id \in IdsOf(list) |->
                    Imported((CHOOSE a \in ToSet(list) : a.id = id).is, IdsOf(list), IdsOf(list) \cup IdsOf(other))],
   order |-> [k \in DOMAIN list |-> list[k].id],
   parameters |-> {"Env"},
   outputs |-> [k \in DOMAIN Exported(list, other) |->
                  [id |-> "o" \o Exported(list, other)[k], of |-> Exported(list, other)[k], as |-> "x" \o Exported(list, other)[k]]]]
Stack(groups) ==
  IF \A g \in DOMAIN groups : groups[g].file = 1 THEN <<File(Group(1, groups), <<>>)>>
  ELSE <<File(Group(1, groups), Group(2, groups)), File(Group(2, groups), Group(1, groups))>>
\* every assignment of the groups to two templates
Splits(lists) ==
  {Stack([g \in DOMAIN lists |-> [file |-> f[g], list |-> lists[g]]]) :
     f \in {h \in [DOMAIN lists -> 1..2] : \E g \in DOMAIN lists : h[g] = 1}}

-----------------------------------------------------------------------------
In(vpc) == P("VpcId", <<Ref(vpc)>>)
Association(subnet, table) == R("Association", P("SubnetId", <<Ref(subnet)>>) @@ P("RouteTableId", <<Ref(table)>>))
Default(table, by) == Flagged(R("Route", P("RouteTableId", <<Ref(table)>>) @@ by), "default")
Vpc == <<A("v", R("VPC", NoRefs)), A("pub", R("Subnet", In("v"))), A("priv", R("Subnet", In("v")))>>
Gate == <<A("igw", R("InternetGateway", NoRefs)),
          A("att", R("GatewayAttachment", In("v") @@ P("InternetGatewayId", <<Ref("igw")>>))),
          A("tpub", R("RouteTable", In("v"))), A("apub", Association("pub", "tpub")),
          A("rpub", After(Default("tpub", P("GatewayId", <<Ref("igw")>>)), {"att"}))>>
NatGateway == <<A("nat", R("NatGateway", P("SubnetId", <<Ref("pub")>>))),
         A("tpriv", R("RouteTable", In("v"))), A("apriv", Association("priv", "tpriv")),
         A("rpriv", Default("tpriv", P("NatGatewayId", <<Ref("nat")>>)))>>
Balancer(scheme) ==
  <<A("lb", Flagged(R("LoadBalancer", P("Subnets", <<Ref("pub"), Ref("priv")>>) @@ P("SecurityGroups", <<Ref("sgl")>>)), scheme)),
    A("sgl", R("SecurityGroup", In("v"))),
    A("lis", R("Listener", P("LoadBalancerArn", <<Ref("lb")>>))),
    A("rule", R("ListenerRule", P("ListenerArn", <<Ref("lis")>>) @@ P("Actions", <<Ref("tg")>>))),
    A("waf", R("WebACL", NoRefs)),
    A("wafa", R("WebACLAssociation", P("WebACLArn", <<Att("waf")>>) @@ P("ResourceArn", <<Ref("lb")>>)))>>
Instance ==
  <<A("ec2", R("Instance", P("SubnetId", <<Ref("priv")>>) @@ P("SecurityGroupIds", <<Ref("sge")>>) @@ P("Name", <<Ref("Env")>>)
                        @@ P("ImageId", <<[kind |-> "Import", to |-> "elsewhere"]>>))),
    A("sge", R("SecurityGroup", In("v"))),
    A("dbg", R("DBSubnetGroup", P("SubnetIds", <<Ref("priv")>>))),
    A("db", R("DBInstance", P("DBSubnetGroupName", <<Ref("dbg")>>) @@ P("VpcSecurityGroupIds", <<Att("sgd"), Ref("sgd")>>))),
    A("sgd", R("SecurityGroup", In("v") @@ P("SecurityGroupIngress", <<Ref("sge")>>)))>>
Targets == <<A("tg", R("TargetGroup", In("v") @@ P("Targets", <<Ref("ec2")>>)))>>
Web(scheme, gate, nat) == Splits(<<Vpc \o gate \o nat, Balancer(scheme), Instance, Targets>>)

Service ==
  <<A("svc", R("Service", P("Subnets", <<Ref("priv"), Ref("pub")>>) @@ P("LoadBalancers", <<Ref("tg")>>)
                           @@ P("TaskDefinition", <<Ref("task")>>) @@ P("SecurityGroups", <<Ref("sgs")>>))),
    A("sgs", R("SecurityGroup", In("v"))),
    A("task", R("TaskDefinition", P("ContainerDefinitions", <<Ref("table"), Att("cluster")>>))),
    A("asg", R("AutoScalingGroup", P("VPCZoneIdentifier", <<Ref("priv")>>) @@ P("LaunchTemplate", <<Ref("lt")>>)
                                    @@ P("TargetGroupARNs", <<Ref("tg")>>))),
    A("lt", R("LaunchTemplate", P("UserData", <<Ref("table")>>) @@ P("SecurityGroupIds", <<Ref("sgs")>>)))>>
Data == <<A("table", R("Table", NoRefs)),
          A("dbg", R("DBSubnetGroup", P("SubnetIds", <<Ref("priv"), Ref("pub")>>))),
          A("dbi", R("DBInstance", P("DBSubnetGroupName", <<Ref("dbg")>>) @@ P("DBClusterIdentifier", <<Ref("cluster")>>))),
          A("cluster", After(R("DBCluster", P("DBSubnetGroupName", <<Ref("dbg")>>)), {"dbg"})),
          A("alone", R("ReplicationGroup", NoRefs))>>
Entry == <<A("lb", R("LoadBalancer", P("Subnets", <<Ref("pub")>>))),
           A("lis", R("Listener", P("LoadBalancerArn", <<Ref("lb")>>) @@ P("Actions", <<Ref("tg")>>))),
           A("tg", R("TargetGroup", In("v")))>>
Services == Splits(<<Vpc \o Gate \o NatGateway, Entry, Service, Data>>)

Api(flag) == <<A("api", Flagged(R("RestApi", NoRefs), flag)), A("res", R("ApiResource", P("RestApiId", <<Ref("api")>>))),
               A("get", R("Method", P("RestApiId", <<Ref("api")>>) @@ P("ResourceId", <<Ref("res")>>) @@ P("Uri", <<Att("fn")>>)))>>
HttpApi == <<A("http", R("Api", NoRefs)), A("integ", R("Integration", P("ApiId", <<Ref("http")>>) @@ P("IntegrationUri", <<Att("fn")>>))),
             A("route", R("ApiRoute", P("ApiId", <<Ref("http")>>) @@ P("Target", <<Ref("integ")>>)))>>
Functions == <<A("fn", R("Function", P("Environment", <<Ref("table"), Ref("dlq")>>)))>>
Queues(loop) == <<A("dlq", R("Queue", IF loop THEN P("RedrivePolicy", <<Att("queue")>>) ELSE NoRefs)),
                  A("queue", R("Queue", P("RedrivePolicy", <<Att("dlq")>>))),
                  A("sub", R("Subscription", P("TopicArn", <<Ref("topic")>>) @@ P("Endpoint", <<Att("queue")>>))),
                  A("topic", R("Topic", NoRefs))>>
Events == <<A("map", R("EventSourceMapping", P("EventSourceArn", <<Att("queue")>>) @@ P("FunctionName", <<Ref("fn")>>))),
            A("cron", R("EventsRule", P("Targets", <<Att("steps")>>))),
            A("steps", R("StateMachine", P("DefinitionString", <<Att("fn")>>))), A("table", R("Table", NoRefs))>>
Serverless(flag, loop) == Splits(<<Api(flag) \o HttpApi, Functions, Queues(loop), Events>>)

AllStacks ==
  Web("", Gate, NatGateway) \cup Web("internal", Gate, NatGateway) \cup Web("", Gate, <<>>) \cup Web("internal", Gate, <<>>)
    \cup Web("", <<>>, <<>>) \cup Services \cup Serverless("", FALSE) \cup Serverless("private", FALSE) \cup Serverless("", TRUE)

View(viewpoint, treatment, parameters, outputs) ==
  [viewpoint |-> viewpoint, treatment |-> treatment, parameters |-> parameters, outputs |-> outputs]
AllViews ==
  {View("CloudFormationView", "MergeIntoLabel", TRUE, TRUE), View("CloudFormationView", "Omit", FALSE, FALSE),
   View("ApplicationView", "MergeIntoLabel", FALSE, FALSE), View("ApplicationView", "MergeIntoLabel", TRUE, TRUE),
   View("ApplicationView", "SeparateGroup", TRUE, TRUE), View("InfrastructureView", "MergeIntoLabel", FALSE, TRUE),
   View("DBView", "Omit", TRUE, FALSE), View("SecurityView", "MergeIntoLabel", FALSE, FALSE),
   View("OperationsView", "SeparateGroup", FALSE, FALSE)}
=============================================================================
