----------------------------- MODULE SchemaTree -----------------------------
(***************************************************************************)
(* The resource tree of a relational database: getInfomationSchemas of the *)
(* five SQL drivers asks the catalog in one query after another while      *)
(* somebody else creates and drops tables and constraints, and hangs what  *)
(* it is told on the tables it knows by name.  The ER diagrams and the     *)
(* table definitions of a prompt are made from that tree.                  *)
(*                                                                         *)
(* A foreign key is a record [name, schema, table, cols, rschema, rtable,  *)
(* rcols], a unique key [name, schema, table, cols]; a name is a number,   *)
(* 0 for no name.  Every table has the same columns.  In the tree a table  *)
(* goes by the name the driver gave it.                                    *)
(***************************************************************************)
EXTENDS Naturals, Sequences, FiniteSets, SequencesExt

CONSTANTS Schemas, Tables, Columns,
          Lower(_),       \* the schema's name in lower case
          QuoteIdent(_),  \* Postgres: the table's name, in quotes if it needs them
          Qualified(_, _), \* Postgres: schema and table as a definition tells them
          ForeignKeys, UniqueKeys,   \* bound: the constraints there may be
          Held,           \* bound: how many foreign keys there are to begin with
          SearchNames,    \* current schema, database, user and "public"
          Filters,        \* bound: resourceFilter, as the accepted schemas and tables
          MaxDdl          \* bound: the statements of somebody else

VARIABLES vendor, filter,
          tables, fks, uks,    \* the catalog
          ddl,                 \* statements executed so far
          step,                \* which query is the next
          schemas, default,    \* the tree: schemas in order, the default one,
          rest,                \* the schemas whose tables are not read yet,
          known, columns,      \* tables <<schema, table>>, with their columns,
          to, from, unique,    \* foreignKeys and uniqueKeys of the default schema
          cached,              \* is the tree in SharedDbRes?
          everFk, everUk       \* history: constraints the catalog had since

svars == <<vendor, filter, tables, fks, uks, ddl, step, schemas, default, rest,
           known, columns, to, from, unique, cached, everFk, everUk>>
catalog == <<tables, fks, uks, ddl, everFk, everUk>>

Engines == {"mysql", "postgres", "sqlserver", "oracle", "sqlite"}
None    == "none"
Empty   == [x \in {} |-> None]
\* SQLite has one schema.
Existing == IF vendor = "sqlite" THEN {SearchNames[1]} ELSE Schemas
On(f)    == {<<f.schema, f.table>>, <<f.rschema, f.rtable>>}

Init ==
  /\ vendor \in Engines /\ filter \in Filters
  /\ tables = Existing \X Tables
  /\ fks \in {F \in SUBSET ForeignKeys : Cardinality(F) <= Held
                                           /\ \A f \in F : On(f) \subseteq tables}
  /\ uks = {u \in UniqueKeys : <<u.schema, u.table>> \in tables}
  /\ ddl = 0
  /\ step = "schemas" /\ schemas = <<>> /\ default = None /\ rest = <<>>
  /\ known = {} /\ columns = {} /\ to = Empty /\ from = Empty /\ unique = {}
  /\ cached = FALSE
  /\ everFk = fks /\ everUk = uks

-----------------------------------------------------------------------------
\* Somebody else's statements.
Create(t) ==
  /\ ddl < MaxDdl /\ t \notin tables
  /\ t[1] \in Existing
  /\ tables' = tables \union {t} /\ UNCHANGED <<fks, uks>>

Drop(t) ==
  /\ ddl < MaxDdl /\ t \in tables
  /\ tables' = tables \ {t}
  /\ fks' = {f \in fks : t \notin On(f)}
  /\ uks' = {u \in uks : <<u.schema, u.table>> # t}

Constrain(f) ==
  /\ ddl < MaxDdl /\ f \notin fks /\ On(f) \subseteq tables
  /\ fks' = fks \union {f} /\ UNCHANGED <<tables, uks>>

Ddl ==
  /\ step # "done"
  /\ (\E t \in Schemas \X Tables : Create(t) \/ Drop(t)) \/ (\E f \in ForeignKeys : Constrain(f))
  /\ ddl' = ddl + 1 /\ everFk' = everFk \union fks' /\ everUk' = everUk \union uks'
  /\ UNCHANGED <<vendor, filter, step, schemas, default, rest, known, columns, to, from,
                 unique, cached>>

-----------------------------------------------------------------------------
Accepted(s) == vendor = "sqlite" \/ s \in filter.schemas

\* resetDefaultSchema: the first of the searched names that there is becomes the
\* default schema and goes to the front; without one it is the first schema.
DefaultOf(list) ==
  LET found == {n \in DOMAIN SearchNames : SearchNames[n] \in ToSet(list)}
  IN  IF found # {} THEN SearchNames[Min(found)] ELSE IF list # <<>> THEN list[1] ELSE None

ToFront(list, s) ==
  IF list = <<>> THEN list
  ELSE <<s>> \o RemoveAt(list, CHOOSE i \in DOMAIN list : list[i] = s)

\* getSchemas, in any order: MySQL, Postgres and Oracle sort by a collation.
GetSchemas ==
  /\ step = "schemas"
  /\ \E list \in SetToSeqs({s \in Existing : Accepted(s)}) :
       /\ default' = DefaultOf(list)
       /\ schemas' = ToFront(list, default')
  /\ rest' = schemas'
  /\ step' = "tables"
  /\ UNCHANGED <<vendor, filter, known, columns, to, from, unique, cached, catalog>>

\* The name of a table in the tree.
Ident(t) == IF vendor = "postgres" THEN QuoteIdent(t) ELSE t

\* filterTables.
TablesOf(s) ==
  {<<s, Ident(t[2])>> : t \in {u \in tables : u[1] = s /\ u[2] \in filter.tables}}

\* getTables of the next schema.
GetTables ==
  /\ vendor # "sqlite" /\ step = "tables" /\ rest # <<>>
  /\ known' = known \union TablesOf(Head(rest))
  /\ step' = "columns"
  /\ UNCHANGED <<vendor, filter, schemas, default, rest, columns, to, from, unique, cached,
                 catalog>>

\* SQLite tells tables and columns in one query, but no column with its table's name.
GetTablesAndColumns ==
  /\ vendor = "sqlite" /\ step = "tables" /\ rest # <<>>
  /\ known' = TablesOf(Head(rest))
  /\ columns' = {x \in known' \X Columns : x[1][2] # x[2]}
  /\ step' = "foreign" /\ rest' = Tail(rest)
  /\ UNCHANGED <<vendor, filter, schemas, default, to, from, unique, cached, catalog>>

\* setColumns: the columns of a table the tree does not know are left out.
SetColumns ==
  /\ step = "columns"
  /\ columns' = columns \union
       {x \in {<<t[1], Ident(t[2])>> : t \in {u \in tables : u[1] = Head(rest)}} \X Columns :
          x[1] \in known}
  /\ rest' = Tail(rest) /\ step' = "tables"
  /\ UNCHANGED <<vendor, filter, schemas, default, known, to, from, unique, cached, catalog>>

\* Without a default schema there are no keys to ask for.
TablesRead ==
  /\ step = "tables" /\ rest = <<>>
  /\ step' = IF default = None THEN "done" ELSE "foreign"
  /\ cached' = (default = None)
  /\ UNCHANGED <<vendor, filter, schemas, default, rest, known, columns, to, from, unique,
                 catalog>>

-----------------------------------------------------------------------------
Folded(s) == Lower(s) = Lower(default)

\* Mutant: the columns of both tables are joined by the constraint alone.
Pairs_Crossed(f, rtable) ==
  {[name |-> IF vendor = "sqlite" THEN 0 ELSE f.name, table |-> f.table, col |-> c,
    rtable |-> rtable, rcol |-> rc] : c \in Range(f.cols), rc \in Range(f.rcols)}

\* A row of the answer for each pair of columns.
Pairs(f, rtable) ==
  {[name |-> IF vendor = "sqlite" THEN 0 ELSE f.name, table |-> f.table, col |-> f.cols[i],
    rtable |-> rtable, rcol |-> f.rcols[i]] : i \in DOMAIN f.cols}

\* MySQL and SQL Server fold the case of the schema; Oracle does not.
MySqlRows  == UNION {Pairs(f, f.rtable) : f \in {g \in fks : Folded(g.schema)}}
OracleRows == UNION {Pairs(f, f.rtable) : f \in {g \in fks : g.schema = default}}

\* Postgres: the definition of a constraint with one column; it names a table
\* outside of the search path with its schema.
PostgresRows ==
  UNION {Pairs(f, IF f.rschema = SearchNames[1] THEN QuoteIdent(f.rtable)
                  ELSE Qualified(f.rschema, f.rtable)) :
           f \in {g \in fks : Folded(g.schema) /\ Len(g.cols) = 1}}

\* SQLite: not those of a table to itself.
SqliteRows == UNION {Pairs(f, f.rtable) : f \in {g \in fks : g.table # g.rtable}}

ForeignRows ==
  CASE vendor \in {"mysql", "sqlserver"} -> MySqlRows
    [] vendor = "postgres" -> PostgresRows
    [] vendor = "oracle"   -> OracleRows
    [] vendor = "sqlite"   -> SqliteRows

\* Postgres and Oracle order them by the constraint's name.
Orders(rows) ==
  {q \in SetToSeqs(rows) : vendor \in {"postgres", "oracle"} =>
       \A i, j \in DOMAIN q : i < j => q[i].name <= q[j].name}

InTree(t, c) == <<<<default, t>>, c>> \in columns

\* Of the rows in places with one key the last stays.
LastOf(q, places, key(_)) ==
  [k \in {key(q[i]) : i \in places} |->
     q[CHOOSE i \in places : key(q[i]) = k /\ \A j \in places : key(q[j]) = k => j <= i]]

Child(r)  == <<r.table, r.col>>
Parent(r) == <<r.rtable, r.rcol>>

Referring(r) == InTree(r.table, r.col)
Referred(r)  == InTree(r.rtable, r.rcol)

\* setForinKeys: referenceTo has one entry for a column of the referring table,
\* referencedFrom one for a column of the other one.
SetForeignKeys ==
  /\ step = "foreign"
  /\ \E rows \in Orders(ForeignRows) :
       /\ to'   = LastOf(rows, {i \in DOMAIN rows : Referring(rows[i])}, Child)
       /\ from' = LastOf(rows, {i \in DOMAIN rows : Referred(rows[i])}, Parent)
  /\ step' = "unique"
  /\ UNCHANGED <<vendor, filter, schemas, default, rest, known, columns, unique, cached, catalog>>

\* Postgres tells the keys of all tables that have a namesake in the schema.
PostgresUnique == {u \in uks : \E t \in tables : Folded(t[1]) /\ t[2] = u.table}

\* SQL Server adds the columns of all constraints with that name.
SqlServerUnique ==
  {[u EXCEPT !.cols = UNION {w.cols : w \in {x \in uks : x.name = u.name}}] :
     u \in {x \in uks : Folded(x.schema)}}

OracleUnique == {u \in uks : u.schema = default}

UniqueRows ==
  CASE vendor = "postgres"  -> PostgresUnique
    [] vendor = "sqlserver" -> SqlServerUnique
    [] vendor = "mysql"     -> {u \in uks : Folded(u.schema)}
    [] vendor = "oracle"    -> OracleUnique
    [] vendor = "sqlite"    -> uks

\* setUniqueKeys, and the tree goes to SharedDbRes.
SetUniqueKeys ==
  /\ step = "unique"
  /\ unique' = {u \in UniqueRows : <<default, u.table>> \in known}
  /\ step' = "done" /\ cached' = TRUE
  /\ UNCHANGED <<vendor, filter, schemas, default, rest, known, columns, to, from, catalog>>

\* A query is rejected: so is getInfomationSchemas, and the cache keeps what it had.
QueryFails ==
  /\ step \notin {"done", "failed"}
  /\ step' = "failed"
  /\ UNCHANGED <<vendor, filter, schemas, default, rest, known, columns, to, from, unique,
                 cached, catalog>>

Next == \/ Ddl \/ GetSchemas \/ GetTables \/ GetTablesAndColumns \/ SetColumns \/ TablesRead
        \/ SetForeignKeys \/ SetUniqueKeys \/ QueryFails

Spec == Init /\ [][Next]_svars

-----------------------------------------------------------------------------
\* The ER diagrams.  A relation is a row of the tree's foreign keys.
InDefault == {t[2] : t \in {u \in known : u[1] = default}}

\* createERDiagramParams: the keys of the chosen tables to and from chosen ones.
\* Mutant: only what a table refers to is looked at.
Relations_Outward(chosen) ==
  {to[k] : k \in {j \in DOMAIN to : j[1] \in chosen /\ to[j].rtable \in chosen /\ Referred(to[j])}}

Relations(chosen) ==
  {to[k] : k \in {j \in DOMAIN to : j[1] \in chosen /\ to[j].rtable \in chosen /\ Referred(to[j])}}
  \union
  {from[k] : k \in {j \in DOMAIN from : j[1] \in chosen /\ from[j].table \in chosen
                                          /\ Referring(from[j])}}

\* createFullSchemaERDiagramParams.
WholeSchema == Relations(InDefault)

\* createSimpleERDiagramParams: what a table refers to, and what refers to it.
Around(t) ==
  {to[k] : k \in {j \in DOMAIN to : j[1] = t /\ Referred(to[j])}}
  \union
  {from[k] : k \in {j \in DOMAIN from : j[1] = t /\ Referring(from[j])}}

\* createRdsTableDefinitionsForPrompt: the tables of a query, and of each those
\* next to it in its schema.
DefinedFor(t) ==
  {t} \union {to[k].rtable : k \in {j \in DOMAIN to : j[1] = t /\ to[j].rtable \in InDefault}}
      \union {from[k].table : k \in {j \in DOMAIN from : j[1] = t /\ from[j].table \in InDefault}}
-----------------------------------------------------------------------------
\* A row says what the constraint f does.
Says(r, f) ==
  \E i \in DOMAIN f.cols : /\ r.table = Ident(f.table) /\ r.col = f.cols[i]
                           /\ r.rtable = Ident(f.rtable) /\ r.rcol = f.rcols[i]

\* What the tree cannot tell: a schema whose name differs in case only, and a
\* parent table in another schema, which goes by its bare name.
Ambiguous(f) == f.schema # default \/ f.rschema # default

\* A relation of a diagram, or of the definitions for a prompt, is a foreign key of
\* the default schema that the catalog had since the load began, even if tables
\* and constraints come and go between the queries; but for schemas that differ
\* in case only and keys across schemas, where it may name a namesake.
RelationsAreTrue ==
  step = "done" =>
    \A r \in WholeSchema :
      \/ \E f \in everFk : ~Ambiguous(f) /\ Says(r, f)
      \/ \E f \in everFk : /\ Ambiguous(f) /\ Folded(f.schema) /\ Says(r, f)
                           /\ vendor # "oracle" \/ f.schema = default
                           /\ vendor # "postgres" \/ f.rschema = SearchNames[1]

\* A pair of columns that the queries of the vendor do not tell, or not by the
\* name the table has in the tree.
Untold(f, i) ==
  \/ vendor = "postgres" /\ (Len(f.cols) > 1 \/ QuoteIdent(f.table) # f.table
                              \/ default # SearchNames[1])
  \/ vendor = "sqlite" /\ (f.table = f.rtable \/ f.cols[i] = f.table \/ f.rcols[i] = f.rtable)

\* Other rows of the answer that take the places of a pair in both maps.
Displaced(f, i) ==
  LET others == {r \in ForeignRows : ~(Says(r, f) /\ r.col = f.cols[i] /\ r.rcol = f.rcols[i])} IN
  /\ \E r \in others : r.table = f.table /\ r.col = f.cols[i]
  /\ \E r \in others : r.rtable = Ident(f.rtable) /\ r.rcol = f.rcols[i]

\* A diagram of the whole schema has every relation between its tables, when
\* nobody changed the schema during the load: what one map has lost to another
\* key, the other one has, unless both places are taken.
EveryRelation ==
  step = "done" /\ ddl = 0 =>
    \A f \in {g \in fks : ~Ambiguous(g) \/ vendor = "sqlite"} :
      \A i \in DOMAIN f.cols :
        \/ {f.table, f.rtable} \subseteq filter.tables =>
              \E r \in WholeSchema : /\ Says(r, f) /\ r.col = f.cols[i] /\ r.rcol = f.rcols[i]
        \/ Untold(f, i) \/ Displaced(f, i)

\* The diagram around a table has all it refers to that the whole one has, and of
\* the keys to it at least one for each column, unless the last of them is from a
\* table or column the tree does not know.
AroundIsPart ==
  step = "done" =>
    \A t \in InDefault :
      /\ Around(t) \subseteq WholeSchema
      /\ \A r \in WholeSchema : r.rtable = t =>
            (\E q \in Around(t) : Parent(q) = Parent(r)) \/ ~Referring(from[Parent(r)])
      /\ \A r \in Around(t) : {r.table, r.rtable} \subseteq DefinedFor(t)

\* The unique keys of a table are its own: rows are compared by them.  But
\* Postgres adds those of a namesake in another schema, and SQL Server the
\* columns of another constraint of that name.
KeysAreOwn ==
  step = "done" =>
    \A u \in unique :
      \/ u \in everUk /\ (u.schema = default \/ Folded(u.schema))
      \/ vendor = "postgres" /\ u \in everUk
      \/ vendor = "sqlserver" /\ \E w, x \in everUk : /\ w.name = x.name /\ w # x /\ w.name = u.name
                                                   /\ w.table = u.table /\ w.cols \subseteq u.cols

\* The shared cache is written by a load that has come to its end, and a column
\* is only there below a table that is.
TreeIsWhole ==
  /\ cached <=> step = "done"
  /\ \A x \in columns : x[1] \in known
  /\ step = "done" /\ ddl = 0 /\ vendor # "sqlite" => \A t \in known : {t} \X Columns \subseteq columns
=============================================================================
