-------------------------- MODULE DeploymentTopology --------------------------
(***************************************************************************)
(* The deployment topology of a list of templates                          *)
(* (src/utils/cfn/deploymentTopology.ts): which subnet lies in which VPC,  *)
(* what its default route makes of it, and where each instance, database,  *)
(* service, cache, group, NAT gateway and load balancer is placed; and the *)
(* traffic and protection paths drawn over it.                             *)
(***************************************************************************)
EXTENDS ApplicationRelations

(***************************************************************************)
(* Names.  A VPC or a subnet is imported under the last name it is         *)
(* exported as, a placed resource under the name of its first output; any  *)
(* other reference is a logical id of the file it stands in.               *)
(***************************************************************************)
LastExport(fs, x) ==
    LET named == SelectSeq(ExportsOf(fs, x), LAMBDA o : o.as # "")
    IN  IF named = <<>> THEN "" ELSE named[Len(named)].as

FirstExport(fs, x) ==
    IF ExportsOf(fs, x) = <<>> THEN "" ELSE Head(ExportsOf(fs, x)).as

\* Mutant: an imported name is looked for among the logical ids.
IsNamed_Local(fs, x, ref, i) == x = <<i, ref.to>>
IsNamed(fs, x, ref, i) ==
    IF ref.kind = "Import" THEN LastExport(fs, x) = ref.to ELSE x = <<i, ref.to>>

\* findTemplateResource
ResourceOf(fs, ref, i) ==
    IF ref.kind = "Import" THEN Exporters(fs, ref.to)
    ELSE {<<i, ref.to>>} \cap Resources(fs)

Vpcs(fs) == OfType(fs, {"VPC"})

VpcOf(fs, ref, i) == {v \in Vpcs(fs) : IsNamed(fs, v, ref, i)}

HomeOf(fs, s) == VpcOf(fs, Value(fs, s, "VpcId"), s[1])

\* a subnet whose VPC is not found is left out with a warning
Subnets(fs) == {s \in OfType(fs, {"Subnet"}) : HomeOf(fs, s) # {}}

SubnetOf(fs, ref, i) == {s \in Subnets(fs) : IsNamed(fs, s, ref, i)}

SubnetsAt(fs, x, path) ==
    UNION {SubnetOf(fs, r, x[1]) : r \in Elements(Values(fs, x, path))}

VpcsOf(fs, subnets) == UNION {HomeOf(fs, s) : s \in subnets}

(***************************************************************************)
(* Connectivity.  The association of the last file that names the subnet   *)
(* decides, if its route table is not an import: a default route to an     *)
(* internet gateway makes it public, one to a NAT or an egress-only        *)
(* gateway private.                                                        *)
(***************************************************************************)
Associations(fs, s) ==
    {a \in OfType(fs, {"Association"}) :
        /\ SubnetOf(fs, Value(fs, a, "SubnetId"), a[1]) = {s}
        /\ Value(fs, a, "RouteTableId").kind # "Import"}

Deciding(fs, s) ==
    {a \in Associations(fs, s) : \A b \in Associations(fs, s) : b[1] <= a[1]}

DefaultRoutes(fs, a) ==
    {r \in OfType(fs, {"Route"}) :
        /\ r[1] = a[1]
        /\ Value(fs, r, "RouteTableId").to = Value(fs, a, "RouteTableId").to
        /\ Res(fs, r).flag = "default"}

ToInternet(fs, r) ==
    LET gateway == Value(fs, r, "GatewayId")
    IN  \/ gateway = [kind |-> "plain", to |-> "igw"]
        \/ \E g \in ResourceOf(fs, gateway, r[1]) : Res(fs, g).type = "InternetGateway"

Isolated == [connectivity |-> "isolated", by |-> Absent]

RouteOf(fs, routes) ==
    LET internet == {r \in routes : ToInternet(fs, r)}
        nat == {r \in routes : Values(fs, r, "NatGatewayId") # <<>>}
        egress == {r \in routes : Values(fs, r, "EgressOnlyId") # <<>>}
        Some(S) == CHOOSE r \in S : TRUE
    IN  CASE internet # {} ->
                [connectivity |-> "public", by |-> Value(fs, Some(internet), "GatewayId")]
          [] internet = {} /\ nat # {} ->
                [connectivity |-> "private", by |-> Value(fs, Some(nat), "NatGatewayId")]
          [] internet = {} /\ nat = {} /\ egress # {} ->
                [connectivity |-> "private", by |-> Value(fs, Some(egress), "EgressOnlyId")]
          [] OTHER -> Isolated

DecidedRoute(fs, s) ==
    IF Deciding(fs, s) = {} THEN Isolated
    ELSE RouteOf(fs, DefaultRoutes(fs, CHOOSE a \in Deciding(fs, s) : TRUE))

\* the NAT gateways the default route names: a logical id of the route's own file
RoutedNat(fs, s) ==
    {n \in OfType(fs, {"NatGateway"}) :
        \E a \in Deciding(fs, s) :
            /\ ~\E r \in DefaultRoutes(fs, a) : ToInternet(fs, r)
            /\ \E r \in DefaultRoutes(fs, a) :
                   /\ Values(fs, r, "NatGatewayId") # <<>>
                   /\ n = <<a[1], Value(fs, r, "NatGatewayId").to>>}

(***************************************************************************)
(* Placement.  An instance or a NAT gateway stands in its subnet; a        *)
(* database, a cache, a service or an auto scaling group is placed at the  *)
(* VPC when all its subnets lie in one.  What cannot be placed is drawn    *)
(* standalone; a NAT gateway and a service are left out.                   *)
(***************************************************************************)
SubnetOfInstance(fs, x) ==
    SubnetOf(fs, IF Values(fs, x, "SubnetId") # <<>> THEN Value(fs, x, "SubnetId")
                 ELSE Value(fs, x, "NetworkInterfaces"), x[1])

SubnetOfNat(fs, x) == SubnetOf(fs, Value(fs, x, "SubnetId"), x[1])

GroupSubnets(fs, groups) == UNION {SubnetsAt(fs, g, "SubnetIds") : g \in groups}

DatabaseSubnets(fs, x) ==
    GroupSubnets(fs, ResourceOf(fs, Value(fs, x, "DBSubnetGroupName"), x[1]))

CacheSubnets(fs, x) ==
    GroupSubnets(fs, {g \in ResourceOf(fs, Value(fs, x, "CacheSubnetGroupName"), x[1]) :
                          Res(fs, g).type = "CacheSubnetGroup"})

ServiceSubnets(fs, x) == SubnetsAt(fs, x, "Subnets")

GroupZones(fs, x) == SubnetsAt(fs, x, "VPCZoneIdentifier")

Databases == {"DBInstance", "DBCluster"}

AtVpc == Databases \cup {"ReplicationGroup", "Service", "AutoScalingGroup"}

Candidates(fs, x) ==
    CASE Res(fs, x).type \in Databases -> DatabaseSubnets(fs, x)
      [] Res(fs, x).type = "ReplicationGroup" -> CacheSubnets(fs, x)
      [] Res(fs, x).type = "Service" -> ServiceSubnets(fs, x)
      [] Res(fs, x).type = "AutoScalingGroup" -> GroupZones(fs, x)
      [] Res(fs, x).type = "Instance" -> SubnetOfInstance(fs, x)
      [] OTHER -> SubnetOfNat(fs, x)

InSubnets(fs) ==
    {x \in OfType(fs, {"Instance", "NatGateway"}) : Candidates(fs, x) # {}}

AtVpcs(fs) ==
    {x \in OfType(fs, AtVpc) : Cardinality(VpcsOf(fs, Candidates(fs, x))) = 1}

Placed(fs) == InSubnets(fs) \cup AtVpcs(fs)

Standalone(fs) ==
    OfType(fs, {"Instance", "ReplicationGroup", "AutoScalingGroup"} \cup Databases)
        \ Placed(fs)

VpcAt(fs, x) == VpcsOf(fs, Candidates(fs, x))

(***************************************************************************)
(* The internet gateway and the load balancers of a VPC.                   *)
(***************************************************************************)
Gateway(fs, v) ==
    UNION {{g \in ResourceOf(fs, Value(fs, a, "InternetGatewayId"), a[1]) :
                Res(fs, g).type = "InternetGateway"} :
           a \in {b \in OfType(fs, {"GatewayAttachment"}) :
                      VpcOf(fs, Value(fs, b, "VpcId"), b[1]) = {v}}}

Balancers(fs, v) ==
    {b \in OfType(fs, {"LoadBalancer"}) : VpcsOf(fs, SubnetsAt(fs, b, "Subnets")) = {v}}

InternetFacing(fs, b) == Res(fs, b).flag # "internal"

\* listenersForLoadBalancer: only those of the load balancer's own file are found
Listeners(fs, b) ==
    {l \in OfType(fs, {"Listener"}) :
        l[1] = b[1] /\ Value(fs, l, "LoadBalancerArn").to = b[2]}

ListenerRules(fs, l) ==
    {r \in OfType(fs, {"ListenerRule"}) :
        r[1] = l[1] /\ Value(fs, r, "ListenerArn").to = l[2]}

\* targetGroupsFromActions
GroupsAt(fs, x) ==
    {g \in UNION {ResourceOf(fs, r, x[1]) : r \in Elements(Values(fs, x, "Actions"))} :
        Res(fs, g).type = "TargetGroup"}

GroupsOf(fs, b) ==
    UNION {GroupsAt(fs, l) \cup UNION {GroupsAt(fs, r) : r \in ListenerRules(fs, l)} :
           l \in Listeners(fs, b)}

\* getResourceFrom: what is placed under a name
PlacedAs(fs, ref, i) ==
    {x \in Placed(fs) :
        IF ref.kind = "Import" THEN FirstExport(fs, x) = ref.to ELSE x = <<i, ref.to>>}

BoundTo(fs, g, type, path) ==
    {x \in OfType(fs, {type}) :
        \E r \in Elements(Values(fs, x, path)) : g \in ResourceOf(fs, r, x[1])}

\* toTopologyTargetGroup: its own targets, and the services and groups that name it
TargetsOf(fs, g) ==
    UNION {PlacedAs(fs, r, g[1]) : r \in Elements(Values(fs, g, "Targets"))}
    \cup (Placed(fs) \cap (BoundTo(fs, g, "Service", "LoadBalancers")
                            \cup BoundTo(fs, g, "AutoScalingGroup", "TargetGroupARNs")))

TopologyNodes(fs) ==
    LET balancers == UNION {Balancers(fs, v) : v \in Vpcs(fs)}
        listeners == UNION {Listeners(fs, b) : b \in balancers}
    IN  Placed(fs) \cup UNION {Gateway(fs, v) : v \in Vpcs(fs)} \cup balancers \cup listeners
        \cup UNION {ListenerRules(fs, l) : l \in listeners} \cup UNION {GroupsOf(fs, b) : b \in balancers}

-----------------------------------------------------------------------------
(***************************************************************************)
(* The traffic and protection paths                                        *)
(* (src/utils/cfn/multiAzDeploymentTrafficPathsAndProtection.ts): how a    *)
(* client of the internet reaches what a load balancer or an API serves,   *)
(* how a private resource gets out, which events and data flow, and what   *)
(* a security group permits without any of these.  A path has two ends,    *)
(* a kind, and may be used both ways.                                      *)
(***************************************************************************)
Internet == <<0, "internet">>
Path(from, to, kind, both) == [from |-> from, to |-> to, kind |-> kind, both |-> both]
Client(from, to) == Path(from, to, "client-request-response", TRUE)
Egress(from, to) == Path(from, to, "egress-return", TRUE)
Event(from, to)  == Path(from, to, "event-delivery", FALSE)

\* addClientPaths: internet, gateway, balancer, listener, rule, target group, target.
Facing(fs, v) == {b \in Balancers(fs, v) : InternetFacing(fs, b)}
Forwards(fs, x) ==
  UNION {{Client(x, g)} \cup {Client(g, t) : t \in TargetsOf(fs, g)} : g \in GroupsAt(fs, x)}
Accepts(fs, l) ==
  Forwards(fs, l) \cup UNION {{Client(l, r)} \cup Forwards(fs, r) : r \in ListenerRules(fs, l)}
Serves(fs, b) == UNION {{Client(b, l)} \cup Accepts(fs, l) : l \in Listeners(fs, b)}
ClientPaths(fs, v) ==
  UNION {{Client(Internet, g) : b \in Facing(fs, v)}
           \cup UNION {{Client(g, b)} \cup Serves(fs, b) : b \in Facing(fs, v)} : g \in Gateway(fs, v)}

\* addEgressPaths: from what stands in a subnet whose default route is a NAT gateway.
Leaving(fs, v) == {x \in AtVpcs(fs) \cup {y \in InSubnets(fs) : Res(fs, y).type = "Instance"} : VpcAt(fs, x) = {v}}
NatsOf(fs, v, x) ==
  {n \in UNION {RoutedNat(fs, s) : s \in Candidates(fs, x)} : n \in InSubnets(fs) /\ VpcAt(fs, n) = {v}}
UsedNats(fs, v) == UNION {NatsOf(fs, v, x) : x \in Leaving(fs, v)}
\* Mutant: the step from the gateway is left out when a load balancer stands in the VPC
EgressPaths_Short(fs, v) ==
  UNION {UNION {{Egress(x, n) : n \in NatsOf(fs, v, x)} : x \in Leaving(fs, v)}
         \cup {Egress(n, g) : n \in UsedNats(fs, v)}
         \cup {Egress(g, Internet) : n \in {m \in UsedNats(fs, v) : Balancers(fs, v) = {}}} : g \in Gateway(fs, v)}
EgressPaths(fs, v) ==
  UNION {UNION {{Egress(x, n) : n \in NatsOf(fs, v, x)} : x \in Leaving(fs, v)}
         \cup {Egress(n, g) : n \in UsedNats(fs, v)}
         \cup {Egress(g, Internet) : n \in {m \in UsedNats(fs, v) : Facing(fs, v) = {}}} : g \in Gateway(fs, v)}

\* A public subnet alone joins the gateway to the internet.
PublicRoute(fs, v) ==
  {Egress(Internet, g) :
     g \in {h \in Gateway(fs, v) :
              /\ \E s \in Subnets(fs) : HomeOf(fs, s) = {v} /\ DecidedRoute(fs, s).connectivity = "public"
              /\ Facing(fs, v) = {} /\ UsedNats(fs, v) = {}}}

\* The API of a method, a route or itself: not of an integration.
ApiOf(fs, x, nodes) ==
  nodes \cap (CASE Res(fs, x).type = "Method"   -> {<<x[1], Value(fs, x, "RestApiId").to>>}
                [] Res(fs, x).type = "ApiRoute" -> {<<x[1], Value(fs, x, "ApiId").to>>}
                [] Res(fs, x).type \in Gateways -> {x}
                [] OTHER -> {})
Private(fs, api) == Res(fs, api).flag = "private"
ApiPaths(fs, relations, nodes) ==
  UNION {UNION {{Client(a, r.to)} \cup {Client(Internet, b) : b \in {c \in {a} : ~Private(fs, c)}} :
                a \in ApiOf(fs, r.from, nodes)} :
         r \in {q \in relations : q.kind = "runtime-call" /\ Res(fs, q.to).type = "Function"}}

\* A mapping whose source and function stand in its own file is drawn between them.
MappingEnds(fs, m, nodes) ==
  {<<s, f>> \in nodes \X nodes : s = <<m[1], Value(fs, m, "EventSourceArn").to>>
                                 /\ f = <<m[1], Value(fs, m, "FunctionName").to>>}
Mappings(fs) == OfType(fs, {"EventSourceMapping"})
MappedPairs(fs, nodes) == UNION {MappingEnds(fs, m, nodes) : m \in Mappings(fs)}
MappingPaths(fs, nodes) ==
  UNION {UNION {{Event(e[1], m), Event(m, e[2])} : e \in MappingEnds(fs, m, nodes)} : m \in Mappings(fs)}

\* The other relations; a task definition that a service runs is drawn as the service.
Runners(fs, x) ==
  {s \in OfType(fs, {"Service"}) : Res(fs, x).type = "TaskDefinition" /\ x = <<s[1], Value(fs, s, "TaskDefinition").to>>}
Readers(fs, x) == IF Runners(fs, x) = {} THEN {x} ELSE Runners(fs, x)
Undrawn(r, topology, pairs) ==
  CASE r.kind = "security-protection" -> r.to \notin topology
    [] r.kind = "resource-membership" -> ~{r.from, r.to} \subseteq topology
    [] r.kind = "event-delivery"      -> <<r.from, r.to>> \in pairs
    [] OTHER -> r.kind # "data-access"
RelationPaths(fs, relations, topology, pairs) ==
  UNION {{Path(x, r.to, r.kind, FALSE) : x \in IF r.kind = "data-access" THEN Readers(fs, r.from) ELSE {r.from}} :
         r \in {q \in relations : ~Undrawn(q, topology, pairs)}}

-----------------------------------------------------------------------------
\* Security groups, named by Ref; a group's launch template stands in the group's file.
GroupPaths == {"SecurityGroupIds", "SecurityGroups", "VpcSecurityGroupIds"}
GroupHolder(fs, x) ==
  IF Res(fs, x).type # "AutoScalingGroup" THEN {x}
  ELSE {t \in {<<x[1], Value(fs, x, "LaunchTemplate").to>>} \cap Resources(fs) : Res(fs, t).type = "LaunchTemplate"}
LocalRefs(fs, x) ==
  {v.to : v \in {w \in UNION {UNION {Elements(Values(fs, h, p)) : p \in GroupPaths} : h \in GroupHolder(fs, x)} :
                   w.kind = "Ref"}}
Guarded == {"Instance", "LoadBalancer", "Service", "DBInstance", "DBCluster", "ReplicationGroup", "AutoScalingGroup"}
Attachments(fs, topology, g) ==
  {x \in topology : x[1] = g[1] /\ Res(fs, x).type \in Guarded /\ g[2] \in LocalRefs(fs, x)}

\* hasProvenTrafficPath, along the paths as they may be used
TrafficKinds == {"client-request-response", "event-delivery", "data-access"}
Steps(paths) ==
  UNION {{<<p.from, p.to>>} \cup (IF p.both THEN {<<p.to, p.from>>} ELSE {}) :
         p \in {q \in paths : q.kind \in TrafficKinds}}
RECURSIVE Reached(_, _)
Reached(steps, from) ==
  IF \E e \in steps : e[1] \in from /\ e[2] \notin from
  THEN Reached(steps, from \cup {e[2] : e \in {d \in steps : d[1] \in from}})
  ELSE from

Permitted(fs, topology, g) ==
  UNION {Attachments(fs, topology, <<g[1], v.to>>) \X Attachments(fs, topology, g) :
         v \in Elements(Values(fs, g, "SecurityGroupIngress"))}
PermissionPaths(fs, topology, steps) ==
  {Path(e[1], e[2], "security-permission", FALSE) :
     e \in {d \in UNION {Permitted(fs, topology, g) : g \in OfType(fs, {"SecurityGroup"})} :
              d[1] # d[2] /\ d[2] \notin Reached(steps, {d[1]})}}

VpcPaths(fs) == UNION {ClientPaths(fs, v) \cup EgressPaths(fs, v) \cup PublicRoute(fs, v) : v \in Vpcs(fs)}
RuntimePaths(fs, relations, nodes, topology) ==
  VpcPaths(fs) \cup ApiPaths(fs, relations, nodes) \cup MappingPaths(fs, nodes)
    \cup RelationPaths(fs, relations, topology, MappedPairs(fs, nodes))
WithPermissions(fs, topology, paths) == paths \cup PermissionPaths(fs, topology, Steps(paths))
AllPaths(fs) ==
  WithPermissions(fs, TopologyNodes(fs),
                  RuntimePaths(fs, ApplicationRelations(fs), ApplicationNodes(fs), TopologyNodes(fs)))

Ends(paths) == {p.from : p \in paths} \cup {p.to : p \in paths}
RegionalNodes(paths, topology) == Ends(paths) \ ({Internet} \cup topology)
=============================================================================
