------------------------- MODULE ApplicationRelations -------------------------
(***************************************************************************)
(* The CloudFormation templates the diagrams are drawn from                *)
(* (src/utils/cfn/diagramFileModel.ts, intrinsics.ts).  A list of          *)
(* templates is a sequence of files.  A file has its resources by logical  *)
(* id, the names of its parameters and its outputs in order; a resource    *)
(* has its type, what it depends on, and under each property path the      *)
(* values found there.  A value is a Ref, a GetAtt, an Import by export    *)
(* name or plain text: the intrinsic functions are resolved to that.       *)
(* A resource is named by its file and logical id, <<i, id>>.              *)
(***************************************************************************)
EXTENDS Naturals, Sequences, FiniteSets

Absent == [kind |-> "plain", to |-> "?"]

Resources(fs) == UNION {{<<i, id>> : id \in DOMAIN fs[i].resources} : i \in DOMAIN fs}

Res(fs, x) == fs[x[1]].resources[x[2]]

OfType(fs, types) == {x \in Resources(fs) : Res(fs, x).type \in types}

Elements(s) == {s[k] : k \in DOMAIN s}

Values(fs, x, path) ==
    IF path \in DOMAIN Res(fs, x).refs THEN Res(fs, x).refs[path] ELSE <<>>

\* parseRefValue of one property
Value(fs, x, path) ==
    IF Values(fs, x, path) = <<>> THEN Absent ELSE Head(Values(fs, x, path))

\* populateOutputs: an output that names no resource of its file is left out
Outputs(fs, i) ==
    SelectSeq(fs[i].outputs, LAMBDA o : o.of \in DOMAIN fs[i].resources)

ExportsOf(fs, x) == SelectSeq(Outputs(fs, x[1]), LAMBDA o : o.of = x[2])

\* the templates that export a name, and what they export under it
Exporters(fs, name) ==
    UNION {{<<i, o.of>> : o \in {p \in Elements(Outputs(fs, i)) : p.as = name}} :
           i \in DOMAIN fs}

(***************************************************************************)
(* Dependencies: one edge to each resource or parameter of the file that   *)
(* DependsOn or the properties name, by the strongest of the ways it is    *)
(* named; one from each output; and one across files for each import.      *)
(***************************************************************************)
Known(fs, i, id, withParameters) ==
    \/ id \in DOMAIN fs[i].resources
    \/ withParameters /\ id \in fs[i].parameters

Via(kind) == IF kind = "Import" THEN "ImportValue" ELSE kind

Strength(via) ==
    CASE via = "DependsOn" -> 1 [] via = "Ref" -> 2 [] via = "GetAtt" -> 3 [] OTHER -> 4

\* walkIntrinsicRefs and DependsOn: what a resource names, and how
Mentions(fs, x) ==
    {[to |-> d, via |-> "DependsOn"] : d \in Res(fs, x).dependsOn}
    \cup UNION {{[to |-> v.to, via |-> Via(v.kind)] :
                     v \in {w \in Elements(Values(fs, x, p)) : w.kind # "plain"}} :
                p \in DOMAIN Res(fs, x).refs}

Dependencies(fs, i, withParameters) ==
    UNION {LET known == {m \in Mentions(fs, <<i, id>>) : Known(fs, i, m.to, withParameters)}
           IN {[from |-> id, to |-> <<i, m.to>>, via |-> m.via, output |-> FALSE] :
                   m \in {n \in known : \A k \in known :
                              k.to = n.to => Strength(k.via) <= Strength(n.via)}} :
           id \in DOMAIN fs[i].resources}

OutputDependencies(fs, i) ==
    {[from |-> o.id, to |-> <<i, o.of>>, via |-> "Ref", output |-> TRUE] :
         o \in Elements(Outputs(fs, i))}

CrossStackDependencies(fs, i) ==
    UNION {UNION {{[from |-> id, to |-> t, via |-> "ImportValue", output |-> FALSE] :
                       t \in {e \in Exporters(fs, m.to) : e[1] # i}} :
                  m \in {n \in Mentions(fs, <<i, id>>) : n.via = "ImportValue"}} :
           id \in DOMAIN fs[i].resources}

AllDependencies(fs, i, withParameters) ==
    Dependencies(fs, i, withParameters) \cup OutputDependencies(fs, i)
        \cup CrossStackDependencies(fs, i)

-----------------------------------------------------------------------------
(***************************************************************************)
(* The application view of a list of templates                             *)
(* (src/utils/cfn/applicationRelations.ts): the resources that take part   *)
(* at run time, by layer, and how one calls, feeds, routes to, reads or    *)
(* protects another.  A relation is told from the types of the two         *)
(* resources and the property path under which one names the other.        *)
(***************************************************************************)
Gateways == {"RestApi", "Api"}
HiddenGateways == {"ApiResource", "Method", "ApiRoute", "Integration"}
Layers ==
  [ingress   |-> {"CloudFront", "LoadBalancer", "Listener", "ListenerRule", "TargetGroup", "WebACL"}
                 \cup Gateways \cup HiddenGateways,
   compute   |-> {"Function", "Service", "TaskDefinition", "StateMachine", "Instance", "AutoScalingGroup"},
   messaging |-> {"Queue", "Topic", "Subscription", "EventsRule", "EventBus", "Stream", "Broker"},
   data      |-> {"Table", "Bucket", "DBInstance", "DBCluster", "CacheCluster", "ReplicationGroup"}]
LayerOf(type) == {l \in DOMAIN Layers : type \in Layers[l]}

\* What a resource names under a path, by a Ref, a GetAtt, a Sub or an Import.
Hits(fs, x, path) == {v \in Elements(Values(fs, x, path)) : v.kind # "plain"}
\* resolveTarget, of a reference that stands in file i
Target(fs, i, hit) ==
  IF hit.kind = "Import" THEN Exporters(fs, hit.to) ELSE {<<i, hit.to>>} \cap Resources(fs)
Named(fs, i, x, path) == UNION {Target(fs, i, h) : h \in Hits(fs, x, path)}
NamedBy(fs, x) == UNION {Named(fs, x[1], x, p) : p \in DOMAIN Res(fs, x).refs}

\* A web ACL protects a load balancer when both stand in the association's own file.
Local(fs, x, path, type) ==
  {y \in Named(fs, x[1], x, path) : y[1] = x[1] /\ Res(fs, y).type = type}
Protections(fs) ==
  UNION {{[from |-> w, to |-> b, kind |-> "security-protection"] :
             w \in Local(fs, a, "WebACLArn", "WebACL"),
             b \in Local(fs, a, "ResourceArn", "LoadBalancer")} :
         a \in OfType(fs, {"WebACLAssociation"})}

\* A web ACL that protects nothing is not shown.
ApplicationNodes(fs) ==
  {x \in Resources(fs) :
     /\ LayerOf(Res(fs, x).type) # {}
     /\ Res(fs, x).type = "WebACL" => \E p \in Protections(fs) : p.from = x}

\* The routes of an API, which its node lists.
IngressRoutes(fs, api) ==
  {r \in OfType(fs, {"Method", "ApiRoute"}) :
     /\ r[1] = api[1]
     /\ Value(fs, r, IF Res(fs, r).type = "Method" THEN "RestApiId" ELSE "ApiId").to = api[2]}

-----------------------------------------------------------------------------
\* relationFor: the types of source and target, the path, and what it means; reverse when
\* the target acts on the source.
AnyType == UNION {Layers[l] : l \in DOMAIN Layers}
Rule(from, to, path, kind, reverse) ==
  [from |-> from, to |-> to, path |-> path, kind |-> kind, reverse |-> reverse]
Rules ==
  {Rule(Gateways \cup HiddenGateways, {"Function"}, "", "runtime-call", FALSE),
   Rule({"CloudFront"}, AnyType, "", "runtime-call", FALSE),
   Rule({"Listener"}, {"LoadBalancer"}, "LoadBalancerArn", "network-route", TRUE),
   Rule({"Listener", "ListenerRule"}, {"TargetGroup"}, "Actions", "network-route", FALSE),
   Rule({"ListenerRule"}, {"Listener"}, "ListenerArn", "network-route", TRUE),
   Rule({"TargetGroup"}, AnyType, "Targets", "network-route", FALSE),
   Rule({"AutoScalingGroup"}, {"TargetGroup"}, "TargetGroupARNs", "network-route", TRUE),
   Rule({"Service"}, {"TargetGroup"}, "LoadBalancers", "network-route", TRUE),
   Rule({"Service"}, {"TaskDefinition"}, "TaskDefinition", "runtime-call", FALSE),
   Rule({"DBInstance"}, {"DBCluster"}, "DBClusterIdentifier", "resource-membership", FALSE),
   Rule({"EventsRule"}, {"EventBus"}, "EventBusName", "event-delivery", TRUE),
   Rule({"EventsRule"}, AnyType \ {"EventBus"}, "", "event-delivery", FALSE),
   Rule({"Subscription"}, {"Topic"}, "TopicArn", "event-delivery", TRUE),
   Rule({"Subscription"}, AnyType \ {"Topic"}, "", "event-delivery", FALSE),
   Rule({"Queue"}, AnyType, "RedrivePolicy", "event-delivery", FALSE),
   Rule({"StateMachine"}, AnyType, "", "runtime-call", FALSE),
   Rule({"Function", "TaskDefinition"}, Layers.data, "", "data-access", FALSE)}

Applies(rule, source, target, path) ==
  source \in rule.from /\ target \in rule.to /\ rule.path \in {"", path}
RelationFor(fs, x, y, path) ==
  {[from |-> IF r.reverse THEN y ELSE x, to |-> IF r.reverse THEN x ELSE y, kind |-> r.kind] :
      r \in {q \in Rules : Applies(q, Res(fs, x).type, Res(fs, y).type, path)}}

Relations(fs, nodes) ==
  UNION {UNION {UNION {RelationFor(fs, x, y, p) : y \in (Named(fs, x[1], x, p) \cap nodes) \ {x}} :
                p \in DOMAIN Res(fs, x).refs} : x \in nodes}

\* A mapping itself is not a node: its source triggers its function.
EventSources == {"Queue", "Stream", "Table", "Broker"}
Triggers(fs) ==
  UNION {{[from |-> s, to |-> f, kind |-> "event-delivery"] :
             s \in {y \in NamedBy(fs, m) : Res(fs, y).type \in EventSources},
             f \in {y \in NamedBy(fs, m) : Res(fs, y).type = "Function"}} :
         m \in OfType(fs, {"EventSourceMapping"})}

\* A group reads what its launch template names, as seen from the group's own file.
LaunchTemplates(fs, x) ==
  {t \in Named(fs, x[1], x, "LaunchTemplate") : Res(fs, t).type = "LaunchTemplate"}
Launched(fs, nodes) ==
  UNION {{[from |-> x, to |-> y, kind |-> "data-access"] :
             y \in {z \in UNION {UNION {Named(fs, x[1], t, p) : p \in DOMAIN Res(fs, t).refs} :
                                 t \in LaunchTemplates(fs, x)} :
                      z \in nodes /\ Res(fs, z).type \in Layers.data}} :
         x \in OfType(fs, {"AutoScalingGroup"})}

ApplicationRelations(fs) ==
  Protections(fs) \cup Relations(fs, ApplicationNodes(fs)) \cup Triggers(fs)
    \cup Launched(fs, ApplicationNodes(fs))

\* extractUnresolvedApplicationReferences: the imports that lead to no node.
Unresolved(fs) ==
  UNION {UNION {{[source |-> x, name |-> h.to] :
                    h \in {g \in Hits(fs, x, p) : g.kind = "Import"
                                                  /\ Exporters(fs, g.to) \cap ApplicationNodes(fs) = {}}} :
                p \in DOMAIN Res(fs, x).refs} : x \in ApplicationNodes(fs)}
=============================================================================
