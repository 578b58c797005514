---------------------------- MODULE MC_Statements ----------------------------
(***************************************************************************)
(* What becomes of a statement: flowTransaction (FlowTransaction,          *)
(* extended), how its plan is read (PlanStatistics), what the catalog says *)
(* of a table it reads (CatalogSections), how DynamoDB will find its items *)
(* (AccessPattern), and what a log tells of it (LogExecutions); and what   *)
(* the diagrams of CloudFormation templates show (CfnDrawings).  A         *)
(* transaction does not explain its statements, a performance tuning       *)
(* context reads a plan, a section and an access pattern each from its own *)
(* answers, and logs and templates are text, so the parts share no state   *)
(* and a behaviour is one of one part.                                     *)
(***************************************************************************)
EXTENDS FlowTransaction, FiniteSets, Sequences

CONSTANT Parts \* the parts checked: a subset of {"flow", "plans", "catalog", "access", "log", "stacks"}

VARIABLES on,
          product, plan, known, ran, nodes, mappings, lost, stats, costs, dominant,
          vendor, section, described, ever, ddl, waiting, got, filled,
          request, pattern,
          log,
          files, diagram, cards, edges, drawn, notes

\* Plans of up to four nodes: an access; a join of two, of which each may have an alias;
\* a group or a derived table over another and an access; a join of an access and a
\* derived table; a batch of two statements.
Tables == {"T", "U"}
IndexesOf(t) == IF t = "T" THEN {"i", "j"} ELSE {"u"}
Costs == 0 .. 2

Node(depth, op, table, alias, index, filter) ==
  [depth |-> depth, op |-> op, table |-> table, alias |-> alias, index |-> index, filter |-> filter]
Aliases(v) == CASE v = "sqlserver" -> {"x", "y"} [] v = "mysql" -> {"T", "x"} [] OTHER -> {"T"}
Scans(v) == {"full"} \union (IF v \in {"postgres", "oracle"} THEN {"both"} ELSE {})
                     \union (IF v \in {"postgres", "sqlserver"} THEN {"odd"} ELSE {})
Lookups(v) == {"via", "only"} \union (IF v = "postgres" THEN {"bitmap"} ELSE {})
Accesses(v, d) ==
  {Node(d, op, "T", a, "none", f) : op \in Scans(v), a \in Aliases(v), f \in BOOLEAN}
  \union {Node(d, op, "T", a, x, f) : op \in Lookups(v), a \in Aliases(v), x \in {"i", "j"}, f \in BOOLEAN}
  \union {Node(d, "via", "U", "U", "u", f) : f \in BOOLEAN}
Inner(v, ops, d) == {Node(d, op, "none", "none", "none", f) : op \in ops, f \in {FALSE, v = "mysql"}}
Plans(v) ==
  {<<a>> : a \in Accesses(v, 0)}
  \union {<<r, a, b>> : r \in Inner("", {"join"}, 0), a \in Accesses(v, 1), b \in Accesses(v, 1)}
  \union {<<r, s, a>> : r \in Inner(v, {"group", "derived"}, 0), s \in Inner(v, {"group", "derived"}, 1),
                        a \in Accesses(v, 2)}
  \union {<<r, Node(1, "full", "T", "T", "none", FALSE), s, a>> :
             r \in Inner("", {"join"}, 0), s \in Inner("", {"derived"}, 1), a \in Accesses(v, 2)}
  \union (IF v # "sqlserver" THEN {} ELSE
          {<<a, b>> : a \in Accesses(v, 0), b \in {x \in Accesses(v, 0) : x.op = "full"}})
Weighed(v) ==
  {p \in Plans(v) : \A i \in DOMAIN p :
     /\ p[i].op \in {"join", "full", "group", "derived"} /\ ~p[i].filter
     /\ \A j \in DOMAIN p \ {i} : p[j].alias = "none" \/ p[i].alias # p[j].alias}

\* A table has two columns; keys, a foreign key of the columns of one (in MySQL of its
\* name) and checks, with their indexes, of which Oracle's and Postgres' may be the
\* user's own; or it has statistics. Somebody else drops it or one of its keys, makes an
\* index, or statistics of another column.
Requested == {"a", "b"}
MaxDdl == 1
MaxFailures == 1

Key(n, t, c) == [name |-> n, type |-> t, cols |-> c]
Index(n, c, i, p) == [name |-> n, cols |-> c, inc |-> i, primary |-> p]
KeysOf(v) ==
  {Key(IF v = "mysql" THEN "PRIMARY" ELSE "pk", "p", <<"a">>), Key("k", "u", <<"b", "a">>),
   Key(IF v = "mysql" THEN "k" ELSE "fk", "f", <<"b", "a">>), Key("c", "c", <<>>)}
  \union (IF v = "oracle" THEN {Key("n", "n", <<>>)} ELSE {})
ExtraIndex(v) == Index("x", <<"b">>, IF v \in {"postgres", "sqlserver"} THEN <<"a">> ELSE <<>>, FALSE)
OwnIndexes(v, keys, own) ==
  {Index(IF v = "oracle" /\ own THEN "x2" ELSE k.name, k.cols,
         IF v = "postgres" /\ own THEN <<"b">> ELSE <<>>, TRUE) : k \in {c \in keys : c.type = "p"}}
  \union {Index(k.name, k.cols, <<>>, FALSE) : k \in {c \in keys : c.type = "u"}}
StatisticsOf == {[id |-> 1, cols |-> <<"a">>], [id |-> 2, cols |-> <<"a", "b">>], [id |-> 3, cols |-> <<"b">>]}
NoDescription == [cols |-> {}, cons |-> {}, idx |-> {}, stats |-> {}, units |-> 0, changes |-> 0]
Catalogs(v, s) ==
  {NoDescription} \union
  (IF s = "definition"
   THEN {[cols |-> {"a", "b"}, cons |-> K, idx |-> OwnIndexes(v, K, own) \union X, stats |-> {},
          units |-> 1, changes |-> 1] :
           K \in {K \in SUBSET KeysOf(v) : Cardinality(K) \in {1, Cardinality(KeysOf(v))}},
           own \in {o \in BOOLEAN : o => v \in {"oracle", "postgres"}}, X \in SUBSET {ExtraIndex(v)}}
   ELSE {[cols |-> {"a", "b"}, cons |-> {}, idx |-> X, stats |-> S, units |-> u, changes |-> n] :
           X \in SUBSET {ExtraIndex(v)}, S \in SUBSET StatisticsOf, u \in {1, 2}, n \in {0, 1}})
Changed(v, t) ==
  IF t.cols = {} THEN {} ELSE
  {NoDescription}
  \union {[t EXCEPT !.cons = @ \ {c}, !.idx = {x \in @ : x.name # c.name}] : c \in t.cons}
  \union {[t EXCEPT !.idx = @ \union {ExtraIndex(v)}]}
  \union {[t EXCEPT !.stats = (@ \ {s}) \union {[s EXCEPT !.cols = <<"b">>]}] : s \in t.stats}

\* Predicates of PartiQL of up to three comparisons, most of the partition key, and
\* requests with and without an index, an order, a limit and what follows the statement.
Leaf(x, op, args) == [kind |-> "compare", attribute |-> x, op |-> op, kids |-> <<>>, args |-> args]
Tree(kind, kids) == [kind |-> kind, attribute |-> "none", op |-> "none", kids |-> kids, args |-> <<>>]
Pairs(L) == {Tree("NOT", <<x>>) : x \in L} \union {Tree(k, <<x, y>>) : k \in {"AND", "OR"}, x \in L, y \in L}
Leaves ==
  {Leaf("pk", op, <<"1">>) : op \in {"=", "<>", "NOT IN", "begins_with", "size"}}
  \union {Leaf("pk", op, <<"1", "3">>) : op \in {"IN", "BETWEEN", "NOT BETWEEN"}}
  \union {Leaf("pk", "<", <<"3">>), Leaf("pk", "=", <<"a">>), Leaf("pk", "exists", <<>>),
          Leaf("#p", "=", <<"3">>), Leaf("sk", "<", <<"1">>)}
  \union {Leaf("a", op, <<"1">>) : op \in {"=", "path"}} \union {Leaf("a", "BETWEEN", <<"1", "3">>)}
Few == {Leaf("pk", "=", <<"1">>), Leaf("pk", "<>", <<"3">>), Leaf("pk", "IN", <<"1", "3">>),
        Leaf("a", "=", <<"1">>), Leaf("sk", "BETWEEN", <<"1", "3">>)}
Predicates ==
  Leaves \union Pairs(Leaves) \union {Tree("NOT", <<x>>) : x \in Pairs(Few)}
  \union {Tree(k, <<x, y>>) : k \in {"AND", "OR"}, x \in Pairs(Few), y \in Few}
  \union {Tree(k, <<x, y, z>>) : k \in {"AND", "OR"}, x \in Few, y \in Few, z \in Few}
Plain == [kind |-> "partiql", plain |-> TRUE, where |-> <<>>, filter |-> <<>>, given |-> FALSE,
          projection |-> <<"*">>, index |-> "none", order |-> "none", limit |-> "none", rest |-> <<>>,
          keys |-> [partition |-> "pk", sort |-> "sk"]]
Requests ==
  {Plain, [Plain EXCEPT !.keys = [partition |-> "a", sort |-> "none"]]}
  \union {[Plain EXCEPT !.plain = FALSE, !.index = i, !.order = o, !.limit = l, !.rest = r, !.projection = p] :
             i \in {"none", "ix"}, o \in {"none", "ASC", "DESC"}, l \in {"none", "1"},
             r \in {<<>>, <<";">>, <<"SELECT">>, <<";", "b">>, <<"bad">>, <<")">>},
             p \in {<<"*">>, <<"a", "AS", "b", ",", "pk", ".", "b">>}}
  \union {[Plain EXCEPT !.kind = "query", !.given = g, !.filter = f, !.plain = (f = <<>>)] :
             g \in BOOLEAN,
             f \in {<<>>, <<Leaf("a", "=", <<"1">>)>>,
                    <<Tree("OR", <<Leaf("#p", "=", <<"1">>), Leaf("sk", "<", <<"1">>)>>)>>}}

\* Logs of up to four lines by two threads.
Thread == {"t1", "t2"}
MaxLines == 4

Reader == INSTANCE PlanStatistics
Catalog == INSTANCE CatalogSections WITH table <- described, pending <- waiting, answer <- filled
Access == INSTANCE AccessPattern
Parser == INSTANCE LogExecutions

Examples == INSTANCE CfnStacks
Cfn == INSTANCE CfnDrawings WITH Stacks <- Examples!AllStacks, Views <- Examples!AllViews

planVars == <<product, plan, known, ran, nodes, mappings, lost, stats, costs, dominant>>
catalogVars == <<vendor, section, described, ever, ddl, waiting, got, filled>>
accessVars == <<request, pattern>>
cfnVars == <<files, diagram, cards, edges, drawn, notes>>

MCInit == /\ on \in Parts
          /\ Init /\ (on = "flow" \/ (dialect = "MySQL" /\ control = "alwaysCommit"))
          /\ IF on = "plans" THEN Reader!Init
             ELSE /\ product = "mysql" /\ plan = <<>> /\ known = {} /\ ran = <<>> /\ nodes = {}
                  /\ mappings = <<>> /\ lost = {} /\ stats = {} /\ costs = <<>> /\ dominant = 0
          /\ IF on = "catalog" THEN Catalog!Init
             ELSE /\ vendor = "mysql" /\ section = "health" /\ described = <<>> /\ ever = {}
                  /\ ddl = 0 /\ waiting = {} /\ got = <<>> /\ filled = <<>>
          /\ IF on = "access" THEN Access!Init ELSE request = Plain /\ pattern = Access!Unsettled
          /\ Parser!Init
          /\ IF on = "stacks" THEN Cfn!Init
             ELSE /\ files = <<>> /\ diagram = "none"
                  /\ cards = {} /\ edges = {} /\ drawn = {} /\ notes = {}

MCNext ==
  \/ on = "flow" /\ Next /\ UNCHANGED <<on, planVars, catalogVars, accessVars, log, cfnVars>>
  \/ on = "plans" /\ Reader!Next /\ UNCHANGED <<on, vars, catalogVars, accessVars, log, cfnVars>>
  \/ on = "catalog" /\ Catalog!Next /\ UNCHANGED <<on, vars, planVars, accessVars, log, cfnVars>>
  \/ on = "access" /\ Access!Next /\ UNCHANGED <<on, vars, planVars, catalogVars, log, cfnVars>>
  \/ on = "log" /\ Parser!Next /\ UNCHANGED <<on, vars, planVars, catalogVars, accessVars, cfnVars>>
  \/ on = "stacks" /\ Cfn!Next /\ UNCHANGED <<on, vars, planVars, catalogVars, accessVars, log>>

\* The fairness of FlowTransaction.
MCFairness ==
  /\ WF_vars(on = "flow" /\ Connect) /\ WF_vars(on = "flow" /\ (Begin \/ BeginFails))
  /\ WF_vars(on = "flow" /\ (BodyReturns \/ BodyThrows))
  /\ WF_vars(on = "flow" /\ Control) /\ WF_vars(on = "flow" /\ Catch)
  /\ WF_vars(on = "flow" /\ Disconnect) /\ WF_vars(on = "flow" /\ Settle)

MCSpec == MCInit /\ [][MCNext]_<<on, vars, planVars, catalogVars, accessVars, log, cfnVars>> /\ MCFairness

-----------------------------------------------------------------------------
\* What a plan says of an access is what the database said of it (PlanStatistics); what
\* is shown of a table was there, whole or with a warning, although the queries of a
\* section are answered at different times (CatalogSections); and a DynamoDB statement is
\* said to be a query only if it names its keys (AccessPattern); and each statement of a
\* log is one execution with its own params, whatever other threads write between its
\* lines (LogExecutions).  A diagram of CloudFormation templates shows each path, relation
\* and dependency once and between cards that are there, no way from the internet to what
\* is internal, each way out as far as the internet, and a stack that is split over
\* templates as it shows the whole one (CfnDrawings).
TextsAreRead ==
  /\ on = "plans" => /\ Reader!IsTree /\ Reader!PlanIsAccounted /\ Reader!RowsOfTheirAccess
                     /\ Reader!FilterOfTheirAccess /\ Reader!DominantCostsMost
  /\ on = "catalog" => /\ Catalog!ShownOrWarned /\ Catalog!NothingInvented /\ Catalog!DdlIsWhole
                       /\ Catalog!FiguresWereRight /\ Catalog!FiguresOfTheirColumn
  /\ on = "access" => /\ Access!ReadAsWritten /\ Access!QueryNamesItsKeys /\ Access!AttributesAreShown
  /\ on = "log" => /\ Parser!EachBeginsOne /\ Parser!ThreadsApart /\ Parser!ParamsStay
  /\ on = "stacks" => /\ Cfn!EdgesEndAtCards /\ Cfn!PathsAreDrawn /\ Cfn!DrawnOnce
                      /\ Cfn!OnlyFacing /\ Cfn!EgressReachesInternet /\ Cfn!EventsOnce
                      /\ Cfn!LayersFlow /\ Cfn!DependenciesTold /\ Cfn!SplitAlike

\* flowTransaction settles, whatever fails.
FlowSettles == on = "flow" => Settles
=============================================================================
