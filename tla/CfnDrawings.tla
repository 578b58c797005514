------------------------------ MODULE CfnDrawings ------------------------------
(***************************************************************************)
(* What the CloudFormation diagrams show (src/utils/cfn): the deployment   *)
(* with its traffic paths, the application, and the dependency graph, each *)
(* as a set of cards and a set of edges between card ids, in Mermaid and   *)
(* in draw.io.  In Mermaid a card's id tells where the card stands, in     *)
(* draw.io only which resource it is.                                      *)
(***************************************************************************)
EXTENDS DeploymentTopology, SequencesExt

CONSTANTS Stacks,   \* bound: the lists of templates
          Views     \* bound: what the dependency graph may be asked to show

VARIABLES files,    \* the templates
          diagram,  \* which diagram is drawn, "none" before
          cards,    \* the ids of the cards, with what they show: [id, of]
          edges,    \* [from, to, kind] between ids
          drawn,    \* the paths, relations or dependencies the edges come from
          notes     \* what is only told: on a card of a dependency graph, what was
                    \* merged into it, <<card, merged>>; of a layer, the order of its cards;
                    \* of an application, the imports that lead nowhere

cvars == <<files, diagram, cards, edges, drawn, notes>>

NodeId(x) == <<"node", x>>
Card(id, of) == [id |-> id, of |-> of]
Edge(from, to, kind) == [from |-> from, to |-> to, kind |-> kind]

Init ==
  /\ files \in Stacks
  /\ diagram = "none" /\ cards = {} /\ edges = {} /\ drawn = {} /\ notes = {}

Draw(name, newCards, newEdges, from, newNotes) ==
  /\ diagram' = name /\ cards' = newCards /\ edges' = newEdges
  /\ drawn' = from /\ notes' = newNotes
  /\ UNCHANGED files

-----------------------------------------------------------------------------
\* Deployment.  A database stands in the card of its cluster when both are placed in one VPC.
Contained(fs, paths) ==
  {x \in AtVpcs(fs) : \E p \in paths : /\ p.kind = "resource-membership" /\ p.from = x
                                       /\ p.to \in AtVpcs(fs) /\ VpcAt(fs, p.to) = VpcAt(fs, x)}
RenderedPaths(fs, paths) ==
  {p \in paths : ~(p.kind = "resource-membership" /\ p.from \in Contained(fs, paths))}

InVpc(v, x) == <<"vpc", v, x>>
LoadBalancing(fs, b) ==
  {b} \cup GroupsOf(fs, b) \cup Listeners(fs, b) \cup UNION {ListenerRules(fs, l) : l \in Listeners(fs, b)}
InVpcs(fs) ==
  UNION {{Card(InVpc(v, x), x) :
            x \in Gateway(fs, v) \cup {y \in AtVpcs(fs) : VpcAt(fs, y) = {v}}
                  \cup UNION {LoadBalancing(fs, b) : b \in Balancers(fs, v)}} : v \in Vpcs(fs)}
InSubnetCards(fs) ==
  UNION {{Card(<<"subnet", s, x>>, x) : s \in Candidates(fs, x)} : x \in InSubnets(fs)}
RegionalCards(regional) == {Card(<<"regional", x>>, x) : x \in regional}
StandaloneCards(fs) == {Card(<<"standalone", x>>, x) : x \in Standalone(fs)}
InternetId == <<"internet">>
InternetCards(paths) == {Card(InternetId, Internet) : p \in {q \in paths : Internet \in {q.from, q.to}}}

\* nodeIdForEndpoint: the first place where the resource is found
IdsForEndpoint(fs, regional, x) ==
  LET placed == {c.id : c \in {d \in InVpcs(fs) \cup InSubnetCards(fs) : d.of = x}}
  IN  CASE x = Internet -> {InternetId}
        [] x # Internet /\ placed # {} -> placed
        [] x # Internet /\ placed = {} /\ x \in regional -> {<<"regional", x>>}
        [] OTHER -> IF x \in Standalone(fs) THEN {<<"standalone", x>>} ELSE {}
DeploymentEdges(fs, regional, paths) ==
  UNION {{Edge(i, j, p.kind) : i \in IdsForEndpoint(fs, regional, p.from),
                               j \in IdsForEndpoint(fs, regional, p.to)} : p \in RenderedPaths(fs, paths)}

MultiAzMermaid(fs, paths, regional) ==
  Draw("deployment",
       InVpcs(fs) \cup InSubnetCards(fs) \cup RegionalCards(regional) \cup StandaloneCards(fs)
         \cup InternetCards(paths),
       DeploymentEdges(fs, regional, paths), paths, {})

\* In draw.io the cells of a resource have one id, and an edge ends at the last of them.
CellId(x) == IF x = Internet THEN InternetId ELSE NodeId(x)
Cell(c) == Card(CellId(c.of), c.of)
CellsOf(set) == {Cell(c) : c \in set}
DeploymentCells(fs, paths, regional) ==
  CellsOf(InVpcs(fs)) \cup CellsOf(InSubnetCards(fs)) \cup CellsOf(RegionalCards(regional))
    \cup CellsOf(StandaloneCards(fs)) \cup InternetCards(paths)
CellEdges(fs, paths, ids) ==
  {Edge(CellId(p.from), CellId(p.to), p.kind) :
     p \in {q \in RenderedPaths(fs, paths) : {q.from, q.to} \subseteq ids}}
DrawCells(fs, paths, cells) == Draw("cells", cells, CellEdges(fs, paths, {c.of : c \in cells}), paths, {})

DrawMultiAz ==
  /\ diagram = "none"
  /\ \E paths \in {AllPaths(files)} : MultiAzMermaid(files, paths, RegionalNodes(paths, TopologyNodes(files)))
DrawMultiAzCells ==
  /\ diagram = "none"
  /\ \E paths \in {AllPaths(files)} :
       DrawCells(files, paths, DeploymentCells(files, paths, RegionalNodes(paths, TopologyNodes(files))))

-----------------------------------------------------------------------------
\* Application.  The parts of an API stand for the last API of their file.
Apis(fs, i) == SelectSeq(fs[i].order, LAMBDA id : fs[i].resources[id].type \in Gateways)
\* Mutant: the parts stand for themselves
Visible_Self(fs, x) == x
Visible(fs, x) ==
  IF Res(fs, x).type \notin HiddenGateways \/ Apis(fs, x[1]) = <<>> THEN x
  ELSE <<x[1], Last(Apis(fs, x[1]))>>
VisibleNodes(fs) == {x \in ApplicationNodes(fs) : Res(fs, x).type \notin HiddenGateways}
VisibleRelations(fs) ==
  {r \in {[from |-> Visible(fs, q.from), to |-> Visible(fs, q.to), kind |-> q.kind] : q \in ApplicationRelations(fs)} :
     r.from # r.to}
Members(relations) == {r.from : r \in {q \in relations : q.kind = "resource-membership"}}
\* A member is drawn inside its parent's card, without an edge.
RenderableRelations(relations) == {r \in relations : r.kind # "resource-membership"}
NodeCards(nodes) == {Card(NodeId(x), x) : x \in nodes}
RelationEdges(relations) == {Edge(NodeId(r.from), NodeId(r.to), r.kind) : r \in RenderableRelations(relations)}
DrawApplication ==
  /\ diagram = "none"
  /\ \E relations \in {VisibleRelations(files)} :
       Draw("application", NodeCards(VisibleNodes(files)), RelationEdges(relations), relations,
            Unresolved(files))

\* orderLayerNodes: the nodes of a layer along its relations, else in the templates' order.
FileOrder(fs, i) == [k \in DOMAIN fs[i].order |-> <<i, fs[i].order[k]>>]
TemplateOrder(fs) == FlattenSeq([i \in DOMAIN fs |-> FileOrder(fs, i)])
Ready(pending, steps) == SelectSeq(pending, LAMBDA x : \A y \in ToSet(pending) : <<y, x>> \notin steps)
RECURSIVE Ordered(_, _, _)
Ordered(pending, steps, done) ==
  IF Ready(pending, steps) = <<>> THEN done \o pending
  ELSE Ordered(Remove(pending, Head(Ready(pending, steps))), steps, Append(done, Head(Ready(pending, steps))))
OrderLayerNodes(nodes, relations) ==
  Ordered(nodes, {<<r.from, r.to>> : r \in {q \in relations : {q.from, q.to} \subseteq ToSet(nodes)}}, <<>>)
LayerNodes(fs, layer, nodes, relations) ==
  OrderLayerNodes(SelectSeq(TemplateOrder(fs),
                            LAMBDA x : /\ x \in nodes \ Members(relations)
                                       /\ layer \in LayerOf(Res(fs, x).type)), relations)
\* In draw.io an edge needs the cells of both its ends.
EdgesAmong(nodes, relations) ==
  RelationEdges({r \in relations : {r.from, r.to} \subseteq nodes})
DrawApplicationCells ==
  /\ diagram = "none"
  /\ \E relations \in {VisibleRelations(files)}, nodes \in {VisibleNodes(files)} :
       Draw("application cells", NodeCards(nodes), EdgesAmong(nodes, relations), relations,
            {LayerNodes(files, layer, nodes, relations) : layer \in DOMAIN Layers})

-----------------------------------------------------------------------------
\* The dependency graph.  Of a viewpoint some types are the focus, what is not is
\* auxiliary: it is hidden, merged into the cards it depends on or is needed by, or
\* drawn in a group of its own without edges.
FocusTypes ==
  [ApplicationView |-> (AnyType \ {"AutoScalingGroup"}) \cup {"WebACLAssociation", "EventSourceMapping"},
   InfrastructureView |-> {"VPC", "Subnet", "SecurityGroup", "Route", "Association",
                           "InternetGateway", "GatewayAttachment", "NatGateway"},
   DBView |-> {"DBInstance", "DBCluster", "CacheCluster", "ReplicationGroup", "Table"},
   SecurityView |-> {"WebACL", "WebACLAssociation"},
   OperationsView |-> {"Queue", "EventsRule", "Function"}]
IsWhole(view) == view.viewpoint = "CloudFormationView"
OutputIds(fs, i) == {o.id : o \in Elements(Outputs(fs, i))}
AuxiliaryResources(fs, i, view) ==
  {id \in DOMAIN fs[i].resources :
     ~IsWhole(view) /\ fs[i].resources[id].type \notin FocusTypes[view.viewpoint]}
Extras(fs, i, view) ==
  (IF view.parameters THEN fs[i].parameters ELSE {}) \cup (IF view.outputs THEN OutputIds(fs, i) ELSE {})
\* classifyDiagramFile
Auxiliary(fs, i, view) ==
  AuxiliaryResources(fs, i, view) \cup (IF IsWhole(view) THEN {} ELSE Extras(fs, i, view))
Own(fs, i, view) ==
  {d \in AllDependencies(fs, i, view.parameters) : d.to[1] = i}
Merged(fs, i, view, auxiliary) ==
  IF view.treatment # "MergeIntoLabel" THEN {}
  ELSE {<<<<i, d.to[2]>>, <<i, d.from>>>> : d \in {e \in Own(fs, i, view) : e.from \in auxiliary /\ e.to[2] \notin auxiliary}}
       \cup {<<<<i, d.from>>, <<i, d.to[2]>>>> : d \in {e \in Own(fs, i, view) : e.from \notin auxiliary /\ e.to[2] \in auxiliary}}
\* renderDiagramFileGroup
ShownInGroup(fs, i, view, auxiliary) ==
  IF view.treatment = "SeparateGroup" \/ IsWhole(view) THEN DOMAIN fs[i].resources \cup Extras(fs, i, view)
  ELSE DOMAIN fs[i].resources \ auxiliary
\* renderDependencyEdges
ShownDependencies(fs, i, view, auxiliary) ==
  {d \in AllDependencies(fs, i, view.parameters) :
     /\ d.from \notin auxiliary[i] /\ d.to[2] \notin auxiliary[d.to[1]]
     /\ d.output => view.outputs}
DependencyEdge(i, d) == Edge(NodeId(<<i, d.from>>), NodeId(d.to), d.via)
DrawDependencyGraph(fs, view, auxiliary) ==
  Draw("dependencies",
       UNION {NodeCards({<<i, id>> : id \in ShownInGroup(fs, i, view, auxiliary[i])}) : i \in DOMAIN fs},
       UNION {{DependencyEdge(i, d) : d \in ShownDependencies(fs, i, view, auxiliary)} : i \in DOMAIN fs},
       {view}, UNION {Merged(fs, i, view, auxiliary[i]) : i \in DOMAIN fs})
DrawDependencies ==
  /\ diagram = "none"
  /\ \E view \in Views : \E auxiliary \in {[i \in DOMAIN files |-> Auxiliary(files, i, view)]} :
       DrawDependencyGraph(files, view, auxiliary)
\* In draw.io all resources are drawn, and nothing else.
DrawDependencyCells ==
  /\ diagram = "none"
  /\ Draw("dependency cells", NodeCards(Resources(files)),
          UNION {{DependencyEdge(i, d) : d \in {e \in AllDependencies(files, i, FALSE) :
                                                 {<<i, e.from>>, e.to} \subseteq Resources(files)}} :
                 i \in DOMAIN files}, {}, {})

Next == \/ DrawMultiAz \/ DrawMultiAzCells \/ DrawApplication \/ DrawApplicationCells
        \/ DrawDependencies \/ DrawDependencyCells

-----------------------------------------------------------------------------
(***************************************************************************)
(* What the diagrams tell is so.                                           *)
(***************************************************************************)
Ids == {c.id : c \in cards}
Shown == {c.of : c \in cards}
Paths == IF diagram \in {"deployment", "cells"} THEN drawn ELSE {}

\* An edge ends at cards: no part of a diagram points at what is not drawn, but for the
\* parts of an API in a template that has no API, which Mermaid draws by their own id.
EdgesEndAtCards ==
  \A e \in edges : \A end \in {e.from, e.to} :
    \/ end \in Ids
    \/ diagram = "application" /\ Res(files, end[2]).type \in HiddenGateways /\ Apis(files, end[2][1]) = <<>>

\* No path is lost between what finds it and what places the cards: every path that is
\* not told by a card inside another has an edge between the cards of its two ends.
PathsAreDrawn ==
  \A p \in RenderedPaths(files, Paths) :
    \E e \in edges : \E c \in cards, d \in cards :
      c.of = p.from /\ d.of = p.to /\ e = Edge(c.id, d.id, p.kind)

\* A resource has one card of a deployment, except that one that cannot be placed but is
\* an end of a path stands among the regional services and the standalone resources.
DrawnOnce ==
  diagram = "deployment" =>
    /\ \A c \in cards, d \in cards : c.of = d.of /\ c # d => c.of \in Standalone(files)
    /\ Placed(files) \cup Standalone(files) \subseteq Shown

\* What the internet reaches: no internal load balancer and no private API.
FromInternet ==
  Reached({<<p.from, p.to>> : p \in {q \in Paths : q.kind = "client-request-response"}}, {Internet})
OnlyFacing ==
  \A x \in FromInternet \ {Internet} :
    /\ Res(files, x).type = "LoadBalancer" => InternetFacing(files, x)
    /\ Res(files, x).type \in Gateways => ~Private(files, x)

\* Whatever leaves by a NAT gateway gets to the internet in the drawing, by the gateway of
\* its VPC, although the last step may be the one of the clients.
Ways(kinds) == UNION {{<<p.from, p.to>>, <<p.to, p.from>>} : p \in {q \in Paths : q.kind \in kinds}}
EgressReachesInternet ==
  \A p \in {q \in Paths : q.kind = "egress-return"} :
    Internet \in Reached(Ways({"egress-return"}) \cup {e \in Ways({"client-request-response"}) : Internet \in {e[1], e[2]}},
                         {p.from})

\* An event of a mapping is drawn once: through the mapping or directly, and not both.
Through(m, t) == {Event(t.from, m), Event(m, t.to)} \subseteq Paths
EventsOnce ==
  Paths # {} =>
    \A t \in Triggers(files) :
      (Event(t.from, t.to) \in Paths) # (\E m \in Mappings(files) : Through(m, t))

\* The cards of a layer stand in the direction of its relations, but for those on a cycle
\* or behind one.
LayerSteps(s) == {<<r.from, r.to>> : r \in {q \in drawn : {q.from, q.to} \subseteq ToSet(s)}}
OnCycle(steps) == {e[1] : e \in {d \in steps : d[1] \in Reached(steps, {d[2]})}}
LayersFlow ==
  diagram = "application cells" =>
    \A s \in notes : \A steps \in {LayerSteps(s)} : \A behind \in {Reached(steps, OnCycle(steps))} :
      \A j \in DOMAIN s : \A i \in 1..(j - 1) : <<s[j], s[i]>> \in steps => s[j] \in behind

\* A dependency within a template of which one end is in focus is told when auxiliary
\* resources are merged: by an edge, or on the card of the end that is in focus.
Told(view, i, d) ==
  \/ DependencyEdge(i, d) \in edges
  \/ {<<<<i, d.from>>, d.to>>, <<d.to, <<i, d.from>>>>} \cap notes # {}
  \/ <<i, d.from>> \notin Shown /\ d.to \notin Shown
  \/ d.output /\ ~view.outputs
DependenciesTold ==
  diagram = "dependencies" =>
    \A view \in {v \in drawn : v.treatment = "MergeIntoLabel"} : \A i \in DOMAIN files :
      \A d \in Own(files, i, view) : Told(view, i, d)

(***************************************************************************)
(* A stack of templates that import from each other is drawn as the one    *)
(* template it could be, when what the code looks for in one file stands   *)
(* in one file: associations and routes with their route table, listeners  *)
(* and rules with their load balancer, methods with their API, mappings    *)
(* with their ends, security groups with what they guard, and a service    *)
(* with its task definition.                                               *)
(***************************************************************************)
LocalPaths ==
  {"RouteTableId", "NatGatewayId", "LoadBalancerArn", "ListenerArn", "RestApiId", "ApiId", "EventSourceArn", "FunctionName",
   "SecurityGroupIngress", "LaunchTemplate", "TaskDefinition", "WebACLArn", "ResourceArn"} \cup GroupPaths
Together(fs) ==
  \A x \in Resources(fs) : \A p \in LocalPaths : \A v \in Elements(Values(fs, x, p)) : v.kind # "Import"
AsOne(fs, v) ==
  IF v.kind = "Import" /\ Exporters(fs, v.to) # {} THEN [kind |-> "Ref", to |-> (CHOOSE e \in Exporters(fs, v.to) : TRUE)[2]] ELSE v
ResourceAsOne(fs, r) ==
  [r EXCEPT !.refs = [p \in DOMAIN @ |-> [k \in DOMAIN @[p] |-> AsOne(fs, @[p][k])]]]
OneTemplate(fs) ==
  <<[resources |-> [id \in UNION {DOMAIN fs[i].resources : i \in DOMAIN fs} |->
                      ResourceAsOne(fs, fs[CHOOSE i \in DOMAIN fs : id \in DOMAIN fs[i].resources].resources[id])],
     parameters |-> {}, outputs |-> <<>>, order |-> FlattenSeq([i \in DOMAIN fs |-> fs[i].order])]>>
ById(paths) == {<<p.from[2], p.to[2], p.kind>> : p \in paths}
SplitAlike ==
  Together(files) =>
    CASE Paths # {} -> ById(Paths) = ById(AllPaths(OneTemplate(files)))
      [] diagram = "application" -> ById(drawn) = ById(VisibleRelations(OneTemplate(files)))
      [] OTHER -> TRUE
=============================================================================
