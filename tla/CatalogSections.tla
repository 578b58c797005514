--------------------------- MODULE CatalogSections --------------------------
(***************************************************************************)
(* What a performance tuning context says of a table.  The provider of a   *)
(* vendor asks the catalog in several queries at once; each is answered at *)
(* a moment of its own, or fails, while somebody else changes the table.   *)
(* Without the first of them there is no section, a failure of another     *)
(* becomes a warning, and the rows are put together by the names they      *)
(* carry.                                                                  *)
(*                                                                         *)
(* A table is [cols, cons, idx, stats, units, changes]: its columns; its   *)
(* constraints [name, type, cols] of type "p", "u", "f" or "c", or "n" for *)
(* a check that Oracle makes of NOT NULL; its indexes [name, cols, inc,    *)
(* primary]; its statistics [id, cols]; how many allocation units it is    *)
(* stored in, and whether rows were changed since it was analyzed.  A      *)
(* figure of a column stands for itself: it is the column it was counted   *)
(* of.                                                                     *)
(***************************************************************************)
EXTENDS Integers, Sequences, FiniteSets, SequencesExt

CONSTANTS Catalogs(_, _), \* bound: the tables of a vendor, for a section
          Changed(_, _),  \* bound: what somebody else makes of a vendor's table
          Requested,      \* bound: the columns asked for
          MaxDdl,         \* bound: the statements of somebody else
          MaxFailures     \* bound: the queries that fail

VARIABLES vendor, section,  \* which provider is asked for which section
          table, ever,      \* the catalog, and all it was since the call
          ddl,              \* statements of somebody else
          pending, got,     \* the queries not answered yet, and the answers
          answer

cvars == <<vendor, section, table, ever, ddl, pending, got, answer>>

Providers == {"mysql", "postgres", "oracle", "sqlserver"}
Sections  == {"definition", "statistics", "columns", "health"}
NoColumn  == "none"
Unknown   == -1
NoTable   == [cols |-> {}, cons |-> {}, idx |-> {}, stats |-> {}, units |-> 0, changes |-> 0]
Nothing   == [ok |-> FALSE, failed |-> {}, cons |-> {}, idx |-> {}, made |-> {},
              rows |-> Unknown, total |-> Unknown, changes |-> Unknown, figures |-> {}]

\* The queries of a section; without the first there is no section.
First == CASE section = "definition" -> "columns"
           [] section \in {"statistics", "health"} -> "size"
           [] vendor = "mysql" -> "cardinality"
           [] vendor = "sqlserver" -> "lookup"
           [] OTHER -> "perColumn"
Others ==
  CASE section = "definition" ->
         {"constraints", "indexes"} \union
         CASE vendor = "postgres" -> {"partitioning"}
           [] vendor = "sqlserver" -> {"foreignKeys", "checks"}
           [] OTHER -> {"checks", "ddl"}
    [] section = "statistics" -> IF vendor \in {"oracle", "sqlserver"} THEN {"changes"} ELSE {}
    [] section = "health" -> IF vendor = "sqlserver" THEN {"changes"} ELSE {}
    [] section = "columns" -> IF vendor = "mysql" THEN {"histogram"} ELSE {}
Query(name) == <<name, NoColumn>>

Init ==
  /\ vendor \in Providers /\ section \in Sections
  /\ table \in Catalogs(vendor, section) /\ ever = {table} /\ ddl = 0
  /\ pending = {Query(q) : q \in {First} \union Others} /\ got = <<>>
  /\ answer = <<>>

\* Somebody else's statement, while the section is collected.
Ddl ==
  /\ ddl < MaxDdl /\ answer = <<>>
  /\ table' \in Changed(vendor, table) /\ ever' = ever \union {table'}
  /\ ddl' = ddl + 1
  /\ UNCHANGED <<vendor, section, pending, got, answer>>

-----------------------------------------------------------------------------
\* The rows of a query: one for each column of a constraint or index, or one that
\* holds them in order.
Typed(types) == {c \in table.cons : c.type \in types}
PerColumn(S) ==
  UNION {{[name |-> c.name, type |-> c.type, col |-> c.cols[i], pos |-> i] : i \in DOMAIN c.cols} : c \in S}
PerKey(S, withIncluded) ==
  UNION {{[name |-> x.name, primary |-> x.primary, col |-> (x.cols \o x.inc)[i], pos |-> i,
           included |-> i > Len(x.cols)] :
            i \in 1 .. Len(x.cols) + (IF withIncluded THEN Len(x.inc) ELSE 0)} : x \in S}
Leading(S) == {s.cols[1] : s \in S} \intersect Requested
Single(S)  == {s \in S : Len(s.cols) = 1}
SizeRow == IF table = NoTable THEN {}
           ELSE {[rows |-> 1, units |-> table.units, indexes |-> Cardinality(table.idx)]}

\* MySQL joins the columns of a key by its name, and a foreign key may have the name of
\* a unique key.
MySqlRows(q) ==
  CASE q = "constraints" ->
         UNION {{[r EXCEPT !.type = c.type] : r \in PerColumn({k \in Typed({"p", "u", "f"}) : k.name = c.name})} :
                  c \in Typed({"p", "u", "f"})}
    [] q = "checks" -> Typed({"c"})
    [] q = "indexes" -> PerKey(table.idx, FALSE)
    [] q = "size" -> SizeRow
    [] q = "cardinality" -> Leading(table.idx)
    [] q = "histogram" -> Leading(Single(table.stats))
    [] OTHER -> {table}

PostgresRows(q) ==
  CASE q = "constraints" -> Typed({"p", "u", "f", "c"})
    [] q = "indexes" -> {[name |-> x.name, primary |-> x.primary, keys |-> Len(x.cols),
                          entries |-> x.cols \o x.inc] : x \in table.idx}
    [] q = "size" -> SizeRow
    [] q = "perColumn" -> Leading(Single(table.stats))
    [] OTHER -> {}

\* Oracle has a row of changes when there were some.
OracleRows(q) ==
  CASE q = "constraints" -> PerColumn(Typed({"p", "u", "f"}))
    [] q = "checks" -> Typed({"c", "n"})
    [] q = "indexes" -> PerKey(table.idx, FALSE)
    [] q = "size" -> SizeRow
    [] q = "changes" -> {table.changes} \ {0}
    [] q = "perColumn" -> Leading(Single(table.stats))
    [] OTHER -> {table}

\* SQL Server aggregates without groups: a table that is not there has a row of NULLs.
SqlServerRows(q) ==
  CASE q = "constraints" -> PerColumn(Typed({"p", "u"}))
    [] q = "foreignKeys" -> PerColumn(Typed({"f"}))
    [] q = "checks" -> Typed({"c"})
    [] q = "indexes" -> PerKey(table.idx, TRUE)
    [] q = "size" -> IF section = "health" \/ table # NoTable THEN SizeRow
                     ELSE {[rows |-> Unknown, units |-> 1, indexes |-> Unknown]}
    [] q = "changes" -> {IF table.stats = {} THEN Unknown ELSE table.changes}
    [] q = "lookup" -> {s \in table.stats : s.cols[1] \in Requested}
    [] OTHER -> {}

RowsOf(q) ==
  IF q = "columns" THEN table.cols
  ELSE CASE vendor = "mysql" -> MySqlRows(q)
         [] vendor = "postgres" -> PostgresRows(q)
         [] vendor = "oracle" -> OracleRows(q)
         [] vendor = "sqlserver" -> SqlServerRows(q)

\* runCatalogQuery never rejects.
Failures == {q \in DOMAIN got : ~got[q].ok}
Keep(q, r) == got' = [p \in DOMAIN got \union {q} |-> IF p = q THEN r ELSE got[p]]

RunCatalogQuery(q) ==
  /\ q \in pending /\ q[2] = NoColumn /\ q[1] # "lookup"
  /\ pending' = pending \ {q}
  /\ \/ Keep(q, [ok |-> TRUE, rows |-> RowsOf(q[1])])
     \/ Cardinality(Failures) < MaxFailures /\ Keep(q, [ok |-> FALSE, rows |-> {}])
  /\ UNCHANGED <<vendor, section, table, ever, ddl, answer>>

\* SQL Server: of the statistics that a column leads the one of the fewest columns is
\* taken, of several the first row, and two more queries go by its id.
Best_Within(rows, c) == {s \in rows : c \in ToSet(s.cols)}
Best(rows, c) ==
  LET mine == {s \in rows : s.cols[1] = c} IN {s \in mine : \A t \in mine : Len(s.cols) <= Len(t.cols)}

LookUpStatistics ==
  LET rows == RowsOf("lookup")
      led  == {s.cols[1] : s \in rows} IN
  /\ Query("lookup") \in pending
  /\ \/ \E best \in [led -> rows] :
          /\ \A c \in led : best[c] \in Best(rows, c)
          /\ Keep(Query("lookup"), [ok |-> TRUE, rows |-> {<<c, best[c].id>> : c \in led}])
          /\ pending' = {<<q, c>> : q \in {"histogram", "properties"}, c \in led}
     \/ /\ Cardinality(Failures) < MaxFailures
        /\ Keep(Query("lookup"), [ok |-> FALSE, rows |-> {}]) /\ pending' = {}
  /\ UNCHANGED <<vendor, section, table, ever, ddl, answer>>

IdOf(c) == (CHOOSE r \in got[Query("lookup")].rows : r[1] = c)[2]
ReadStatistics(q) ==
  /\ q \in pending /\ q[2] # NoColumn
  /\ pending' = pending \ {q}
  /\ \/ Keep(q, [ok |-> TRUE, rows |-> {s.cols[1] : s \in {s \in table.stats : s.id = IdOf(q[2])}}])
     \/ Cardinality(Failures) < MaxFailures /\ Keep(q, [ok |-> FALSE, rows |-> {}])
  /\ UNCHANGED <<vendor, section, table, ever, ddl, answer>>

-----------------------------------------------------------------------------
\* Rows of one name are put together, their columns in the order of their positions; of
\* rows that tie, either is the first and gives the type.
Rows(q)  == got[Query(q)].rows
Ok(q)    == got[Query(q)].ok
InOrder(rows) == LET by == SetToSortSeq(rows, LAMBDA a, b : a.pos < b.pos)
                 IN  [i \in DOMAIN by |-> by[i].col]
Named(rows, n) == {r \in rows : r.name = n}
TypeOf(rows, first) == LET types == {r.type : r \in rows}
                       IN  IF first \in types THEN first ELSE CHOOSE t \in types : TRUE
Grouped_Unordered(rows, first) ==
  {[name |-> n, type |-> TypeOf(Named(rows, n), first),
    cols |-> LET own == SetToSeq(Named(rows, n)) IN [i \in DOMAIN own |-> own[i].col]] : n \in {r.name : r \in rows}}
Grouped(rows, first) ==
  {[name |-> n, type |-> TypeOf(Named(rows, n), first), cols |-> InOrder(Named(rows, n))] :
     n \in {r.name : r \in rows}}
GroupedKeys(rows, primaries) ==
  {LET own == Named(rows, n) IN
   [name |-> n, primary |-> n \in primaries, cols |-> InOrder({r \in own : ~r.included}),
    inc |-> InOrder({r \in own : r.included})] : n \in {r.name : r \in rows}}

MySqlConstraints(first) == Grouped(Rows("constraints"), first)
MySqlChecks == Rows("checks")
MySqlIndexes == GroupedKeys(Rows("indexes"), {"PRIMARY"})

PostgresConstraints == Rows("constraints")
PostgresIndexes ==
  {[name |-> x.name, primary |-> x.primary, cols |-> SubSeq(x.entries, 1, x.keys),
    inc |-> SubSeq(x.entries, x.keys + 1, Len(x.entries))] : x \in Rows("indexes")}

OracleConstraints(first) == Grouped(Rows("constraints"), first)
OracleChecks == {c \in Rows("checks") : c.type # "n"}
OracleIndexes(cons) ==
  GroupedKeys(Rows("indexes"), {c.name : c \in {k \in cons : k.type = "p"}})

SqlServerConstraints(first) == Grouped(Rows("constraints") \union Rows("foreignKeys"), first)
SqlServerChecks == Rows("checks")
SqlServerIndexes ==
  GroupedKeys(Rows("indexes"), {r.name : r \in {x \in Rows("indexes") : x.primary}})

\* The indexes that a rendered definition makes: the keys' own, and all that have not
\* the name of a key.
Keys(cons) == {c \in cons : c.type \in {"p", "u"}}
Rendered_All(cons, idx) ==
  {[name |-> c.name, cols |-> c.cols, inc |-> <<>>, key |-> TRUE] : c \in Keys(cons)} \union
  {[name |-> x.name, cols |-> x.cols, inc |-> x.inc, key |-> FALSE] : x \in idx}
PostgresDdl(cons, idx) ==
  {[name |-> c.name, cols |-> c.cols, inc |-> <<>>, key |-> TRUE] : c \in Keys(cons)} \union
  {[name |-> x.name, cols |-> x.cols, inc |-> x.inc, key |-> FALSE] :
     x \in {y \in idx : \A c \in Keys(cons) : c.name # y.name}}
SqlServerDdl(cons, idx) == PostgresDdl(cons, idx)
\* The database's own.
OwnDdl == {[name |-> x.name, cols |-> x.cols, inc |-> x.inc, key |-> FALSE] :
             x \in UNION {t.idx : t \in Rows("ddl")}}

Warned == {q[1] : q \in {p \in Failures : p # Query(First)}}
Definition(cons, idx, made) ==
  [Nothing EXCEPT !.ok = Rows("columns") # {}, !.failed = Warned, !.cons = cons, !.idx = idx, !.made = made]

MySqlDefinition(first) ==
  Definition(MySqlConstraints(first) \union MySqlChecks, MySqlIndexes, OwnDdl)
PostgresDefinition ==
  Definition(PostgresConstraints, PostgresIndexes, PostgresDdl(PostgresConstraints, PostgresIndexes))
OracleDefinition(first) ==
  LET cons == OracleConstraints(first) \union OracleChecks
  IN  Definition(cons, OracleIndexes(cons), OwnDdl)
SqlServerDefinition(first) ==
  LET cons == SqlServerConstraints(first) \union SqlServerChecks
  IN  Definition(cons, SqlServerIndexes, SqlServerDdl(cons, SqlServerIndexes))

\* Sizes: a table is 2, each of its indexes 1.
Statistics(rows, total, changes) ==
  [Nothing EXCEPT !.ok = Rows("size") # {}, !.failed = Warned,
                  !.rows = rows, !.total = total, !.changes = changes]
Size == CHOOSE r \in Rows("size") : TRUE
ChangesRow == IF Rows("changes") = {} THEN Unknown ELSE CHOOSE n \in Rows("changes") : TRUE

MySqlTableStatistics    == Statistics(Size.rows, 2 + Size.indexes, Unknown)
PostgresTableStatistics == Statistics(Size.rows, 2 + Size.indexes, Unknown)
\* No index has no size.
OracleTableStatistics ==
  Statistics(Size.rows, IF Size.indexes = 0 THEN Unknown ELSE 2 + Size.indexes, ChangesRow)
\* The rows are summed for each of the allocation units.
SqlServerTableStatistics_Zero ==
  Statistics(IF Size.rows = Unknown THEN 0 ELSE Size.rows * Size.units,
             IF Size.indexes = Unknown THEN Unknown ELSE 2 + Size.indexes, ChangesRow)
SqlServerTableStatistics ==
  Statistics(IF Size.rows = Unknown THEN Unknown ELSE Size.rows * Size.units,
             IF Size.indexes = Unknown THEN Unknown ELSE 2 + Size.indexes, ChangesRow)

ColumnFigures(figures) == [Nothing EXCEPT !.ok = TRUE, !.failed = Warned, !.figures = figures]
MySqlColumnStatistics ==
  ColumnFigures({<<c, c>> : c \in Rows("cardinality") \union Rows("histogram")})
PostgresColumnStatistics == ColumnFigures({<<c, c>> : c \in Rows("perColumn")})
OracleColumnStatistics   == ColumnFigures({<<c, c>> : c \in Rows("perColumn")})
SqlServerColumnStatistics ==
  ColumnFigures(UNION {{<<q[2], c>> : c \in got[q].rows} : q \in {p \in DOMAIN got : p[1] = "histogram"}})

\* Physical health of a table that is not there is known to be nothing.
Health == [Nothing EXCEPT !.ok = TRUE, !.failed = Warned,
                          !.rows = IF Rows("size") = {} THEN Unknown ELSE Size.rows]

Sectioned(first) ==
  CASE section = "definition" ->
         (CASE vendor = "mysql" -> MySqlDefinition(first) [] vendor = "postgres" -> PostgresDefinition
            [] vendor = "oracle" -> OracleDefinition(first) [] vendor = "sqlserver" -> SqlServerDefinition(first))
    [] section = "statistics" -> IF Rows("size") = {} THEN Nothing ELSE
         (CASE vendor = "mysql" -> MySqlTableStatistics [] vendor = "postgres" -> PostgresTableStatistics
            [] vendor = "oracle" -> OracleTableStatistics [] vendor = "sqlserver" -> SqlServerTableStatistics)
    [] section = "columns" ->
         (CASE vendor = "mysql" -> MySqlColumnStatistics [] vendor = "postgres" -> PostgresColumnStatistics
            [] vendor = "oracle" -> OracleColumnStatistics [] vendor = "sqlserver" -> SqlServerColumnStatistics)
    [] section = "health" -> Health

\* All of them have settled.
Answer ==
  /\ pending = {} /\ answer = <<>>
  /\ \E first \in {"u", "f"} :
       answer' = <<IF Ok(First) THEN Sectioned(first) ELSE Nothing>>
  /\ UNCHANGED <<vendor, section, table, ever, ddl, pending, got>>

Next == Ddl \/ (\E q \in pending : RunCatalogQuery(q) \/ ReadStatistics(q)) \/ LookUpStatistics \/ Answer

-----------------------------------------------------------------------------
Shown  == IF answer = <<>> THEN Nothing ELSE answer[1]
Always(f) == {x \in table[f] : \A t \in ever : x \in t[f]}
Clash(c) == \E t \in ever : \E d \in t.cons : d.name = c.name /\ d.type # c.type

\* A constraint or an index that the table had all the time is shown with its columns
\* in order, or a warning names the query that failed; Oracle shows a primary key's
\* index as such only if it has its name, and MySQL mixes keys of one name.
ShownOrWarned ==
  Shown.ok /\ section = "definition" =>
    /\ \A c \in Always("cons") : c.type # "n" /\ ~Clash(c) =>
         c \in Shown.cons \/ Shown.failed \intersect {"constraints", "foreignKeys", "checks"} # {}
    /\ \A x \in Always("idx") :
         \/ \E y \in Shown.idx : /\ y.name = x.name /\ y.cols = x.cols
                                 /\ vendor \in {"postgres", "sqlserver"} => y.inc = x.inc
                                 /\ vendor # "oracle" => y.primary = x.primary
         \/ "indexes" \in Shown.failed

\* What is shown of a table was there since the call, with its own columns.
NothingInvented ==
  Shown.ok => /\ \A c \in Shown.cons : Clash(c) \/ \E t \in ever : c \in t.cons
              /\ \A y \in Shown.idx : \E t \in ever : \E x \in t.idx :
                   /\ y.name = x.name /\ y.cols = x.cols
                   /\ y.primary => x.primary \/ (vendor = "oracle" /\ ddl > 0)
              /\ section = "definition" => ever # {NoTable}

\* A definition whose queries all answered, of a table that nobody changed, makes each
\* of its indexes once, but for the columns that a key's index includes.
DdlIsWhole ==
  Shown.ok /\ section = "definition" /\ Shown.failed = {} /\ ddl = 0 =>
    /\ \A x \in table.idx : \E m \in Shown.made : /\ m.name = x.name /\ m.cols = x.cols
                                                  /\ m.key \/ m.inc = x.inc
    /\ \A m, n \in Shown.made : m.name = n.name => m = n

\* The figures of a table were right at some time, or are not known; SQL Server counts
\* the rows of a table once for each allocation unit, and knows nothing of one that is
\* not there.
FiguresWereRight ==
  Shown.ok /\ section \in {"statistics", "health"} =>
    /\ Shown.rows # Unknown => (ever # {NoTable} /\ (Shown.rows = 1 \/ vendor = "sqlserver"))
    /\ Shown.total # Unknown => \E t \in ever : Shown.total = 2 + Cardinality(t.idx)
    /\ Shown.changes # Unknown => \E t \in ever : t.changes = Shown.changes
    /\ section = "statistics" /\ ever = {NoTable} => vendor = "sqlserver" /\ Shown.rows = Unknown

\* The statistics of a column were counted of it, unless SQL Server's were dropped and
\* their id given to others, and a column that had some all the time has them or a
\* warning.
FiguresOfTheirColumn ==
  Shown.ok /\ section = "columns" =>
    /\ \A f \in Shown.figures : f[1] = f[2] \/ (vendor = "sqlserver" /\ ddl > 0)
    /\ \A c \in Requested :
         (\E s \in Always("stats") : s.cols = <<c>>) =>
            (\E f \in Shown.figures : f[1] = c) \/ Shown.failed # {} \/ (vendor = "sqlserver" /\ ddl > 0)

=============================================================================
