--------------------------- MODULE PlanStatistics ---------------------------
(***************************************************************************)
(* The plan of a performance tuning context.  A database explains a plan   *)
(* in its own form; a parser makes a tree of it and a mapping of each      *)
(* access to a table.  When the statement is analyzed, the plan that ran   *)
(* is read as well, another tree in another form, and the rows counted     *)
(* there are given to the mappings by the names of tables, aliases and     *)
(* indexes.                                                                *)
(*                                                                         *)
(* The database's plan is a sequence of nodes in preorder, with depths.    *)
(* A node is an access ("full", by an index: "via", of the index alone:    *)
(* "only", by bitmaps of one or two indexes: "bitmap", "both", or one that *)
(* its explanation says in a way the parser does not know: "odd"), or a    *)
(* "join", "group" or "derived" table.  A count of rows stands for itself: *)
(* it is the line <<node, what>> that reports it.                          *)
(***************************************************************************)
EXTENDS Integers, Sequences, FiniteSets, SequencesExt

CONSTANTS Plans(_),       \* bound: the plans of a product
          Weighed(_),     \* bound: the plans of which costs are looked at
          IndexesOf(_),   \* a table's indexes
          Tables,
          Costs           \* bound: the costs of a node

VARIABLES product, plan,  \* the database and the plan it explains
          known,          \* Oracle: indexes of which the catalog tells the table
          ran,            \* the plan that was executed
          nodes,          \* the normalized plan
          mappings,       \* planTableMappings, in order
          lost,           \* nodes with a diagnostic that the plan is not complete
          stats,          \* the mappings' actual rows
          costs, dominant \* costs of the plan's nodes, dominantCostPlanNode

pvars == <<product, plan, known, ran, nodes, mappings, lost, stats, costs, dominant>>

None     == "none"  \* no name
Unknown  == -1      \* no number
Products == {"mysql", "postgres", "oracle", "sqlserver"}
Accesses == {"full", "via", "only", "bitmap", "both", "odd"}
Reads(p, i) == p[i].op \in Accesses
Greatest(S) == IF S = {} THEN 0 ELSE CHOOSE x \in S : \A y \in S : y <= x

\* What depths mean, in a sequence of nodes in preorder.
Parent(t, i) == Greatest({j \in 1 .. i - 1 : t[j].depth < t[i].depth})
Above(t, i)  == LET up[j \in 0 .. Len(t)] == IF j = 0 THEN {} ELSE {j} \union up[Parent(t, j)]
                IN  up[Parent(t, i)]
Children(t, i) == {j \in DOMAIN t : Parent(t, j) = i}

Init ==
  /\ product \in Products /\ plan \in Plans(product)
  /\ known \in IF product = "oracle" THEN SUBSET UNION {IndexesOf(t) : t \in Tables} ELSE {{}}
  /\ ran = <<>> /\ nodes = {} /\ mappings = <<>> /\ lost = {} /\ stats = {}
  /\ costs = <<>> /\ dominant = 0

\* A mapping of node id, with the names it is found by.
Mapping(id, p, i, index) ==
  [id |-> id, of |-> i, table |-> p[i].table, alias |-> p[i].alias, index |-> index]

-----------------------------------------------------------------------------
\* MySQL explains a JSON tree, of which derived tables hold their subquery.  An id is
\* counted as the tree is visited, and the subquery of a derived table has one more.
Materialized(p, i) == p[i].op = "derived" /\ Children(p, i) # {}
NextId_Flat(p, i) == i - 1
NextId(p, i) == i - 1 + Cardinality({j \in 1 .. i - 1 : Materialized(p, j)})
InnerId(p, i) == IF i = 0 THEN Unknown
                 ELSE NextId(p, i) + (IF Materialized(p, i) THEN 1 ELSE 0)
DepthOf(p, i) == p[i].depth + Cardinality({j \in Above(p, i) : Materialized(p, j)})

VisitContainer(p, i) ==
  {[id |-> NextId(p, i), parent |-> InnerId(p, Parent(p, i)), depth |-> DepthOf(p, i), of |-> i]}

VisitTable(p, i) ==
  VisitContainer(p, i) \union
  IF ~Materialized(p, i) THEN {}
  ELSE {[id |-> NextId(p, i) + 1, parent |-> NextId(p, i), depth |-> DepthOf(p, i) + 1, of |-> 0]}

\* A table goes by its alias, as MySQL names it.
MySqlMappings(p) ==
  LET of(i) == [Mapping(NextId(p, i), p, i, p[i].index) EXCEPT !.table = p[i].alias]
  IN  FlattenSeq([i \in DOMAIN p |-> IF Reads(p, i) THEN <<of(i)>> ELSE <<>>])

ParseMySql ==
  /\ product = "mysql"
  /\ nodes' = UNION {IF Reads(plan, i) \/ plan[i].op = "derived" THEN VisitTable(plan, i)
                                                  ELSE VisitContainer(plan, i) : i \in DOMAIN plan}
  /\ mappings' = MySqlMappings(plan) /\ lost' = {}

\* The others explain rows of which each is a node: what a node of the plan is in rows.
Row(d, what, name) == [depth |-> d, what |-> what, name |-> name]
RowsOf(v, n) ==
  CASE n.op = "via" /\ v = "oracle" -> <<Row(0, "table", n.table), Row(1, "index", n.index)>>
    [] n.op = "bitmap" -> <<Row(0, "table", n.table), Row(1, "index", n.index)>>
    [] n.op = "both"   -> <<Row(0, "table", n.table), Row(1, "other", None)>>
                          \o SetToSeq({Row(2, "index", x) : x \in IndexesOf(n.table)})
    [] n.op = "only" /\ v = "oracle" -> <<Row(0, "index", n.index)>>
    [] n.op = "odd"    -> <<Row(0, "odd", n.table)>>
    [] n.op = "derived" -> <<Row(0, "derived", None)>>
    [] n.op \in {"join", "group"} -> <<Row(0, "other", None)>>
    [] OTHER -> <<Row(0, "table", n.table)>>
RowsOfPlan(v, p) ==
  FlattenSeq([i \in DOMAIN p |->
                [k \in DOMAIN RowsOf(v, p[i]) |->
                   [of |-> i, depth |-> p[i].depth + RowsOf(v, p[i])[k].depth,
                    what |-> RowsOf(v, p[i])[k].what, name |-> RowsOf(v, p[i])[k].name]]])

IndexesBelow(rows, r) == {c \in DOMAIN rows : rows[c].what = "index" /\ r \in Above(rows, c)}
OnlyIndex(rows, S) == IF Cardinality(S) = 1 THEN rows[CHOOSE c \in S : TRUE].name ELSE None

\* Postgres: a bitmap scan's index is merged into the access of its heap.
PostgresMappings(p, rows) ==
  LET index(r) == IF p[rows[r].of].op \in {"via", "only"} THEN p[rows[r].of].index
                  ELSE OnlyIndex(rows, IndexesBelow(rows, r))
      of(r)    == Mapping(r - 1, p, rows[r].of, index(r))
  IN  FlattenSeq([r \in DOMAIN rows |-> IF rows[r].what = "table" THEN <<of(r)>> ELSE <<>>])
PostgresLost(rows) == {r - 1 : r \in {r \in DOMAIN rows : rows[r].what = "odd"}}

\* Oracle: an index without a table above it is an access of the table the catalog tells.
Standalone(rows, r) ==
  rows[r].what = "index" /\ ~(Parent(rows, r) > 0 /\ rows[Parent(rows, r)].what = "table")
UnresolvedKeys(rows) == {rows[r].name : r \in {r \in DOMAIN rows : Standalone(rows, r)}}
OracleMappings(p, rows, resolved) ==
  LET index(r) == OnlyIndex(rows, {c \in Children(rows, r) : rows[c].what = "index"})
      of(r) == CASE rows[r].what = "table" -> <<Mapping(r - 1, p, rows[r].of, index(r))>>
                 [] Standalone(rows, r) /\ rows[r].name \in resolved
                      -> <<Mapping(r - 1, p, rows[r].of, rows[r].name)>>
                 [] OTHER -> <<>>
  IN  FlattenSeq([r \in DOMAIN rows |-> of(r)])
OracleLost_None(rows, resolved) == {}
OracleLost(rows, resolved) ==
  {r - 1 : r \in {r \in DOMAIN rows : Standalone(rows, r) /\ rows[r].name \notin resolved}}

\* SQL Server: the plans of a batch of several statements hang under a root of their own.
Batch(p) == IF Cardinality(Children(p, 0)) > 1 THEN 1 ELSE 0
SqlServerMappings(p) ==
  FlattenSeq([i \in DOMAIN p |-> IF Reads(p, i) /\ p[i].op # "odd"
                                 THEN <<Mapping(i - 1 + Batch(p), p, i, p[i].index)>> ELSE <<>>])
SqlServerLost(p) == {i - 1 + Batch(p) : i \in {i \in DOMAIN p : p[i].op = "odd"}}
SqlServerNodes(p) ==
  {[id |-> i - 1 + Batch(p), depth |-> p[i].depth + Batch(p), of |-> i,
    parent |-> IF Parent(p, i) = 0 THEN IF Batch(p) = 1 THEN 0 ELSE Unknown
               ELSE Parent(p, i) - 1 + Batch(p)] : i \in DOMAIN p}
  \union IF Batch(p) = 0 THEN {} ELSE {[id |-> 0, depth |-> 0, of |-> 0, parent |-> Unknown]}

RowNodes(rows) ==
  {[id |-> r - 1, depth |-> rows[r].depth, of |-> rows[r].of,
    parent |-> IF Parent(rows, r) = 0 THEN Unknown ELSE Parent(rows, r) - 1] : r \in DOMAIN rows}

ParsePostgres ==
  LET rows == RowsOfPlan("postgres", plan) IN
  /\ product = "postgres"
  /\ nodes' = RowNodes(rows) /\ lost' = PostgresLost(rows)
  /\ mappings' = PostgresMappings(plan, rows)

ParseOracle ==
  LET rows     == RowsOfPlan("oracle", plan)
      resolved == known \intersect UnresolvedKeys(rows)
  IN  /\ product = "oracle"
      /\ nodes' = RowNodes(rows) /\ lost' = OracleLost(rows, resolved)
      /\ mappings' = OracleMappings(plan, rows, resolved)

ParseSqlServer ==
  /\ product = "sqlserver"
  /\ nodes' = SqlServerNodes(plan) /\ lost' = SqlServerLost(plan)
  /\ mappings' = SqlServerMappings(plan)

Parse ==
  /\ nodes = {}
  /\ ParseMySql \/ ParsePostgres \/ ParseOracle \/ ParseSqlServer
  /\ UNCHANGED <<product, plan, known, ran, stats, costs, dominant>>

-----------------------------------------------------------------------------
\* The plan that ran, read from its text: lines with depths of their own.
\* A tree is built with a stack of the nodes that are still open.
BuildTree(lines) ==
  LET Add(s, i) == LET open == SelectSeq(s.open, LAMBDA j : lines[j].depth < lines[i].depth)
                   IN  [open |-> Append(open, i),
                        parents |-> Append(s.parents, IF open = <<>> THEN 0 ELSE Last(open))]
  IN  FoldLeft(Add, [open |-> <<>>, parents |-> <<>>], [i \in DOMAIN lines |-> i]).parents
Under(parents, i) ==
  {j \in DOMAIN parents :
     LET up[k \in 0 .. j] == IF k = 0 THEN {} ELSE {k} \union up[parents[k]] IN i \in up[parents[j]]}

\* applyActualPlanTableStats: the mapping takes the rows, and the index that ran if one did.
Stat(m, index, rows, access, in, out) ==
  [id |-> m.id, of |-> m.of, index |-> IF index = None THEN m.index ELSE index,
   rows |-> rows, access |-> access, in |-> in, out |-> out]

\* MySQL prints a filter as a node above its child.
Filters(p, i) == Cardinality({j \in Above(p, i) \union {i} : p[j].filter})
MySqlLines(p) ==
  FlattenSeq([i \in DOMAIN p |->
    (IF p[i].filter THEN <<[of |-> i, kind |-> "filter", depth |-> p[i].depth + Filters(p, i) - 1]>>
                    ELSE <<>>)
    \o <<[of |-> i, kind |-> IF Reads(p, i) THEN "tableAccess" ELSE "other",
          depth |-> p[i].depth + Filters(p, i)]>>])

\* The mapping of a name, of several the one with the index, or else the first.
ResolveMySql(p, l, ms) ==
  LET named   == SelectSeq(ms, LAMBDA m : m.table = p[l.of].alias)
      indexed == SelectSeq(named, LAMBDA m : m.index # None /\ m.index = p[l.of].index)
  IN  IF Len(named) > 1 /\ indexed # <<>> THEN indexed ELSE named

\* A line's rows go to its mapping, and those of a later line replace them; a filter's
\* go to the one access below it.
ResolveMySqlActualPlan(p, ms) ==
  LET lines   == MySqlLines(p)
      parents == BuildTree(lines)
      access  == {i \in DOMAIN lines : lines[i].kind = "tableAccess"}
      to(i)   == ResolveMySql(p, lines[i], ms)
      rowsOf(m) == {i \in access : to(i) # <<>> /\ Head(to(i)) = m}
      below(i)  == {j \in access \intersect Under(parents, i) : to(j) # <<>>}
      filters(m) == {i \in DOMAIN lines : /\ lines[i].kind = "filter"
                                          /\ Cardinality(below(i)) = 1
                                          /\ \A j \in below(i) : Head(to(j)) = m}
      stat(m) == LET r == Greatest(rowsOf(m))
                     f == Greatest(filters(m))
                 IN  Stat(m, None, lines[r].of, lines[r].of,
                          IF f = 0 THEN 0 ELSE lines[CHOOSE j \in below(f) : TRUE].of,
                          IF f = 0 THEN 0 ELSE lines[f].of)
  IN  {stat(m) : m \in {m \in Range(ms) : rowsOf(m) # {}}}

\* Oracle: a line belongs to a mapping when it is the only one of its name, and a
\* mapping has statistics when one line belongs to it.
OnlyMapping_Any(S) == IF S = {} THEN {} ELSE {CHOOSE m \in S : TRUE}
OnlyMapping(S) == IF Cardinality(S) = 1 THEN S ELSE {}
ResolveOracleActualPlan(p, ms) ==
  LET lines   == RowsOfPlan("oracle", p)
      parents == BuildTree(lines)
      isTable(i) == lines[i].what = "table"
      alone(i) == lines[i].what = "index"
                    /\ ~\E t \in DOMAIN lines : isTable(t) /\ i \in Under(parents, t)
      to(i) == OnlyMapping(IF isTable(i) THEN {m \in Range(ms) : m.table = lines[i].name}
                           ELSE IF alone(i) THEN {m \in Range(ms) : m.index = lines[i].name}
                           ELSE {})
      linesOf(m) == {i \in DOMAIN lines : m \in to(i)}
      stat(m) == LET i     == CHOOSE i \in linesOf(m) : TRUE
                     child == {c \in DOMAIN lines : parents[c] = i /\ lines[c].what = "index"}
                     n     == lines[i].of
                     index == IF Cardinality(child) = 1 THEN n ELSE 0
                 IN  Stat(m, IF index # 0 \/ alone(i) THEN p[n].index ELSE None, n,
                          IF alone(i) THEN 0 ELSE IF index # 0 THEN index
                          ELSE IF p[n].filter THEN 0 ELSE n,
                          IF p[n].filter /\ ~alone(i) THEN index ELSE 0,
                          IF p[n].filter THEN n ELSE 0)
  IN  {stat(m) : m \in {m \in Range(ms) : Cardinality(linesOf(m)) = 1}}

\* SQL Server: by table, of several by alias, of several by index.
ResolveSqlServer(n, ms) ==
  LET tables  == {m \in Range(ms) : m.table = n.table}
      aliases == {m \in tables : m.alias = n.alias}
      indexes == {m \in IF aliases # {} THEN aliases ELSE tables :
                    m.index # None /\ m.index = n.index}
  IN  CASE Cardinality(tables) = 1 -> tables
        [] Cardinality(aliases) = 1 -> aliases
        [] OTHER -> OnlyMapping(indexes)

ResolveSqlServerActualPlan(p, ms, counted) ==
  LET linesOf(m) == {i \in DOMAIN p : Reads(p, i) /\ m \in ResolveSqlServer(p[i], ms)}
      stat(m) == LET i    == CHOOSE i \in linesOf(m) : TRUE
                     read == IF counted THEN i ELSE 0
                 IN  Stat(m, p[i].index, i, IF counted THEN i ELSE IF p[i].filter THEN 0 ELSE i,
                          IF p[i].filter THEN read ELSE 0, IF p[i].filter THEN i ELSE 0)
  IN  {stat(m) : m \in {m \in Range(ms) : Cardinality(linesOf(m)) = 1}}

\* Postgres counts in the plan it explains.
PostgresStats(p, ms) ==
  {LET in == IF p[m.of].filter THEN m.of ELSE 0 IN Stat(m, None, m.of, m.of, in, in) : m \in Range(ms)}

\* The plan that runs may be another than the one explained.
Others(p) == {p} \union {SubSeq(p, 1, Len(p) - 1)} \union
             {[p EXCEPT ![i].op = "full", ![i].index = None] : i \in {i \in DOMAIN p : Reads(p, i)}}

\* The statement is analyzed after it was explained.
ExecuteMySql(p)     == product = "mysql" /\ stats' = ResolveMySqlActualPlan(p, mappings)
ExecuteOracle(p)    == product = "oracle" /\ stats' = ResolveOracleActualPlan(p, mappings)
ExecuteSqlServer(p) ==
  /\ product = "sqlserver"
  /\ \E counted \in BOOLEAN : stats' = ResolveSqlServerActualPlan(p, mappings, counted)
ExecutePostgres(p)  == product = "postgres" /\ p = plan /\ stats' = PostgresStats(p, mappings)

Execute ==
  /\ nodes # {} /\ ran = <<>>
  /\ \E p \in Others(plan) \ {<<>>} :
       /\ ran' = p
       /\ ExecuteMySql(p) \/ ExecuteOracle(p) \/ ExecuteSqlServer(p) \/ ExecutePostgres(p)
  /\ UNCHANGED <<product, plan, known, nodes, mappings, lost, costs, dominant>>

-----------------------------------------------------------------------------
\* A node's own cost is its cost without its children's; a node that has none costs
\* what its children do.
Total(f, S) == FoldSet(LAMBDA i, n : n + f[i], 0, S)
Inclusive(p, c) ==
  LET inc[k \in 0 .. Len(p) - 1] ==
        LET i == Len(p) - k IN
        IF c[i] # Unknown THEN c[i]
        ELSE Total([j \in Children(p, i) |-> inc[Len(p) - j]], Children(p, i))
  IN  [i \in DOMAIN p |-> inc[Len(p) - i]]
Exclusive_Inclusive(p, c) == Inclusive(p, c)
Exclusive(p, c) ==
  LET inc == Inclusive(p, c) IN
  [i \in DOMAIN p |-> LET below == Total(inc, Children(p, i))
                      IN  IF inc[i] > below THEN inc[i] - below ELSE 0]

\* The one of the greatest own cost that was visited first, children before their parent.
Before(p, i, j) == j \in Above(p, i) \/ (i < j /\ i \notin Above(p, j))
Dominant(p, own, S) ==
  LET best == {i \in S : \A j \in S : own[j] <= own[i]}
  IN  IF best = {} THEN 0 ELSE CHOOSE i \in best : \A j \in best \ {i} : Before(p, i, j)

\* findDominantCostPlanNode, of what the whole plan costs; MySQL takes of the plan
\* that ran the first table access that it can map.
FindDominant(p, c) ==
  LET own == Exclusive(p, c) IN Dominant(p, own, {i \in DOMAIN p : own[i] > 0})
FindDominantMySql(p, c, ms) ==
  LET own == Exclusive(p, c)
      i   == Dominant(p, own, {i \in DOMAIN p : Reads(p, i) /\ ResolveMySql(p, [of |-> i], ms) # <<>>})
  IN  IF i = 0 THEN 0 ELSE Head(ResolveMySql(p, [of |-> i], ms)).of

Weigh ==
  /\ nodes # {} /\ ran = <<>> /\ plan \in Weighed(product) /\ costs = <<>>
  /\ \E c \in [DOMAIN plan -> Costs \union {Unknown}] :
       /\ costs' = c
       /\ dominant' = IF product = "mysql" THEN FindDominantMySql(plan, c, mappings)
                                           ELSE FindDominant(plan, c)
  /\ UNCHANGED <<product, plan, known, ran, nodes, mappings, lost, stats>>

Done == (ran # <<>> \/ costs # <<>>) /\ UNCHANGED pvars
Next == Parse \/ Execute \/ Weigh \/ Done

-----------------------------------------------------------------------------
\* The normalized plan is a tree: its ids differ, every parent is there and above.
IsTree ==
  /\ \A a, b \in nodes : a # b => a.id # b.id
  /\ \A a \in nodes : IF a.parent = Unknown THEN a.depth = 0 /\ \A b \in nodes : b.depth = 0 => a = b
                      ELSE \E b \in nodes : b.id = a.parent /\ b.depth + 1 = a.depth /\ b.id < a.id
  /\ \A m \in Range(mappings) : \E a \in nodes : a.id = m.id /\ a.of = m.of

\* An access the plan has is either mapped or reported as lost.
PlanIsAccounted ==
  nodes # {} => \A i \in DOMAIN plan : Reads(plan, i) =>
                  \/ \E m \in Range(mappings) : m.of = i
                  \/ \E a \in nodes : a.of = i /\ a.id \in lost

\* MySQL tells accesses apart by alias and index only.
Apart(p) == product # "mysql" \/
            \A i, j \in DOMAIN p : i # j /\ Reads(p, i) /\ Reads(p, j) => p[i].alias # p[j].alias

\* The rows of an access are given to its own mapping; of a plan that ran otherwise, to
\* a mapping of the same table (planNodeMath.ts: "conservatively matched").
RowsOfTheirAccess ==
  \A s \in stats : /\ Apart(plan) /\ ran = plan => s.rows = s.of /\ s.access \in {0, s.of}
                   /\ Apart(plan) => /\ ran[s.rows].table = plan[s.of].table
                                     /\ s.index \in {None} \union IndexesOf(plan[s.of].table)

\* A filter's input and output are counted at one access and at a filter on it.
FilterOfTheirAccess ==
  \A s \in stats : Apart(plan) =>
     /\ s.in # 0 => s.out # 0 /\ ran[s.out].filter /\ (s.in = s.out \/ s.out \in Above(ran, s.in))
     /\ s.in # 0 => s.in = s.rows

\* No node costs more of its own than the dominant one.
DominantCostsMost ==
  costs # <<>> /\ (\A i \in DOMAIN plan : costs[i] # Unknown) =>
     LET own(i) == costs[i] - Total(costs, Children(plan, i)) IN
     \A i \in DOMAIN plan : own(i) > 0 /\ (product = "mysql" => Reads(plan, i))
                              => dominant # 0 /\ own(dominant) >= own(i)
=============================================================================
