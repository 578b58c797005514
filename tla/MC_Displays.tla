----------------------------- MODULE MC_Displays -----------------------------
(***************************************************************************)
(* What is shown of a relational database: the charts of the dashboard,    *)
(* sampled by MySQL with the timers and sessions of its client             *)
(* (DashboardSampling, extended) and by the providers of the other vendors *)
(* (VendorSampling), and the resource tree with its ER diagrams            *)
(* (SchemaTree); and of AWS: the metric dashboards of one resource and of  *)
(* a service (MetricDashboards).  A driver has the provider of its own     *)
(* vendor, and these share nothing, so a behaviour is one of one part.     *)
(***************************************************************************)
EXTENDS DashboardSampling

\* The other vendors, the bounds of their samples and of the server, and the sets of
\* metrics a sample may be asked for.
CONSTANTS Vendors, MaxSamples(_), Wanted, MaxResets, MaxChanges, MaxChecks

ASSUME VendorAssumption ==
  /\ Vendors \subseteq {"postgres", "sqlserver", "oracle", "sqlite"}
  /\ \A v \in Vendors : MaxSamples(v) \in Nat

\* The tree: the schemas, tables and constraints there may be, and their names.
CONSTANTS Schemas, Tables, Columns, Lower(_), QuoteIdent(_), Qualified(_, _),
          ForeignKeys, UniqueKeys, Held, SearchNames, Filters, MaxDdl

\* Names are strings; a constraint of a catalog has as many columns on both sides; a
\* quoted or a qualified name is not also the name of a table.
ASSUME TreeAssumption ==
  /\ Schemas \subseteq STRING \ {"none"} /\ IsFiniteSet(Schemas) /\ IsFiniteSet(ForeignKeys)
  /\ SearchNames \in Seq(STRING \ {"none"}) /\ SearchNames # <<>>
  /\ \A f \in ForeignKeys : f.cols \in Seq(Columns) /\ f.rcols \in [DOMAIN f.cols -> Columns]
  /\ UniqueKeys \subseteq [name : Nat, schema : Schemas, table : Tables, cols : SUBSET Columns]
  /\ \A t, u \in Tables : QuoteIdent(t) = u => t = u
  /\ \A s \in Schemas, t, u \in Tables : Qualified(s, t) # QuoteIdent(u)

\* The dashboards of AWS: resources, metrics configurations, and the limits of an overview.
CONSTANTS Subject, Filter, StorageType, PageSize, MaxViews, MaxConfigured,
          MaxCandidates, Concurrency, TopLimits, Resource

\* A configuration is listed by its number, a page has room for one, the limits that may
\* be selected are positive, the indexes of a table have capacities, and the series of an
\* account a metric and dimensions.
ASSUME DashboardsAssumption ==
  /\ Filter \subseteq Nat \ {0} /\ PageSize \in Nat \ {0}
  /\ MaxCandidates \in Nat /\ Concurrency \in Nat
  /\ TopLimits \in Seq(Nat \ {0}) /\ TopLimits # <<>>
  /\ \A s \in Subject :
       /\ s.kind \in {"table", "queue", "account"}
       /\ s.kind = "table" =>
            s.gsis \in Seq([Provisioned : SUBSET {"read", "write"},
                           OnDemandMax : SUBSET {"read", "write"}])
       /\ s.kind = "account" =>
            s.series \subseteq [metric : STRING, dimensions : SUBSET STRING]

VARIABLES on,
          vendor, life, growth, reads, context, resolved, checks, known, seen,
          sample, begun, last, before, points, switched,
          driver, filter, tables, fks, uks, ddl, step, schemas, default, rest, named,
          columns, to, from, unique, cached, everFk, everUk,
          subject, observed, board,
          configs, recent, changes, selection, view, storage, bucket, views, steady,
          ever,
          service, custom, resources, turn, task, result, comparison

\* Where samples are of several queries and may fail in each, two are enough; a sample
\* of which the waits fail is as good as one of the counters alone.
MCMaxSamples(v) == IF v \in {"postgres", "sqlite"} THEN 3 ELSE 2

\* Two schemas whose names differ in case, a table that Postgres quotes, and foreign
\* keys that share a column or a parent, have two columns, refer to their own table,
\* are of the other schema, or cross to it.
MCLower(s) == IF s = "Shop" THEN "shop" ELSE s
MCQuoteIdent(t) == IF t = "c" THEN "'c'" ELSE t
MCQualified(s, t) == s \o "." \o MCQuoteIdent(t)
MCSearchNames == <<"shop">>

Refers(n, s, t, c, rs, rt, rc) ==
  [name |-> n, schema |-> s, table |-> t, cols |-> c, rschema |-> rs, rtable |-> rt, rcols |-> rc]

MCForeignKeys ==
  {Refers(1, "shop", "a", <<"k">>, "shop", "b", <<"k">>),
   Refers(2, "shop", "c", <<"k">>, "shop", "b", <<"k">>),
   Refers(3, "shop", "a", <<"k">>, "shop", "c", <<"k">>),
   Refers(4, "shop", "a", <<"a", "k">>, "shop", "b", <<"k", "a">>),
   Refers(5, "shop", "b", <<"a">>, "shop", "b", <<"k">>),
   Refers(6, "Shop", "a", <<"k">>, "Shop", "b", <<"a">>),
   Refers(7, "shop", "b", <<"k">>, "Shop", "a", <<"k">>)}
MCUniqueKeys == {[name |-> 1, schema |-> "shop", table |-> "a", cols |-> {"k"}],
                 [name |-> 1, schema |-> "Shop", table |-> "b", cols |-> {"a"}]}
MCFilters == {[schemas |-> {}, tables |-> {"a", "b", "c"}],
              [schemas |-> {"shop", "Shop"}, tables |-> {"a", "b", "c"}],
              [schemas |-> {"Shop"}, tables |-> {"a", "c"}]}

\* Dashboards of AWS: tables with at most one index, both kinds of queues, an
\* account with two metrics; a bucket of three metrics configurations; and an
\* overview of up to four resources of which three are compared by two workers.
Both == {"read", "write"}
Capacity == [Provisioned : {{}, Both}, OnDemandMax : {{}, {"read"}, Both}]
MCTables == [kind : {"table"}, mode : {"none", "PROVISIONED", "PAY_PER_REQUEST"},
             own : Capacity, gsis : {<<>>} \union {<<c>> : c \in Capacity},
             ttl : {"ENABLED", "ENABLING", "DISABLED"}]
MCQueues == [kind : {"queue"}, fifo : BOOLEAN]
MCAccounts == [kind : {"account"},
               series : SUBSET [metric : {"Open", "Send"}, dimensions : {{}, {"ConfigurationSet"}}]]
MCSubject == MCTables \union MCQueues \union MCAccounts
MCTopLimits == <<2, 3>>
MCResource == [region : {"near", "far"}, types : {{"standard"}}]
                \union [region : {"far"}, types : {{}}]
                \union [region : {"none"}, types : {{"standard"}}]

Vendor == INSTANCE VendorSampling
          WITH work <- growth, asked <- begun, previous <- before
Tree == INSTANCE SchemaTree WITH vendor <- driver, known <- named
Dashboards == INSTANCE MetricDashboards WITH MaxChanges <- MaxConfigured

vendorVars == <<vendor, life, growth, reads, context, resolved, checks, known, seen,
                sample, begun, last, before, points, switched>>
treeVars == <<driver, filter, tables, fks, uks, ddl, step, schemas, default, rest, named,
              columns, to, from, unique, cached, everFk, everUk>>
panelVars == <<subject, observed, board>>
bucketVars == <<configs, recent, changes, selection, view, storage, bucket, views,
                steady, ever>>
overviewVars == <<service, custom, resources, turn, task, result, comparison>>
awsVars == <<panelVars, bucketVars, overviewVars>>

\* A part that is off stays in one state.
MCInit == /\ on \in {"mysql", "others", "tree", "panels", "bucket", "overview"}
          /\ Init /\ Vendor!Init /\ Tree!Init
          /\ on = "others" \/ vendor = "postgres"
          /\ on = "tree" \/ (driver = "mysql" /\ fks = {} /\ filter.schemas = {})
          /\ Dashboards!PanelsInit /\ (on = "panels" \/ subject = [kind |-> "queue", fifo |-> FALSE])
          /\ Dashboards!BucketInit /\ recent \subseteq {2}
          /\ on = "bucket" \/ (configs = {} /\ recent = {})
          /\ Dashboards!OverviewInit
          /\ on = "overview" \/ (resources = <<>> /\ service = "s3" /\ ~custom)

MCNext ==
  \/ on = "mysql" /\ Next /\ UNCHANGED <<on, vendorVars, treeVars, awsVars>>
  \/ on = "others" /\ Vendor!Next /\ UNCHANGED <<on, vars, treeVars, awsVars>>
  \/ on = "tree" /\ Tree!Next /\ UNCHANGED <<on, vars, vendorVars, awsVars>>
  \/ /\ UNCHANGED <<on, vars, vendorVars, treeVars>>
     /\ \/ on = "panels" /\ Dashboards!PanelsNext /\ UNCHANGED <<bucketVars, overviewVars>>
        \/ on = "bucket" /\ Dashboards!BucketNext /\ UNCHANGED <<panelVars, overviewVars>>
        \/ on = "overview" /\ Dashboards!OverviewNext /\ UNCHANGED <<panelVars, bucketVars>>

MCSpec == MCInit /\ [][MCNext]_<<on, vars, vendorVars, treeVars, awsVars>>

-----------------------------------------------------------------------------
\* For the vendors that have their own providers too, a chart of native rates shows
\* rates, one of counters their growth in one life of the server, what it shows as a
\* reset was one, and a change of a SQLite file between two samples is shown
\* (VendorSampling).
SamplesAreTrue ==
  on = "others" => /\ Vendor!GrowthOfOneLife /\ Vendor!KindsMatch
                   /\ Vendor!ResetsAreReal /\ Vendor!ChangesAreSeen

\* The relations of an ER diagram are foreign keys that there were, the diagram of a
\* schema leaves none out but for those the drivers cannot tell, the one around a table
\* is a part of it, and unique keys are of their own table, although the catalog may
\* change between the queries (SchemaTree).  A metric dashboard asks once for each series
\* of its own subject, at its own region, and says of it what is known
\* (MetricDashboards).
ViewsAreTrue ==
  /\ on = "tree" => /\ Tree!RelationsAreTrue /\ Tree!EveryRelation /\ Tree!AroundIsPart
                    /\ Tree!KeysAreOwn /\ Tree!TreeIsWhole
  /\ on = "panels" => Dashboards!ReadOnce /\ Dashboards!LimitsBind /\ Dashboards!EventsWereSeen
  /\ on = "bucket" => Dashboards!AsksWhatItShows /\ Dashboards!ConfigurationIsKnown
  /\ on = "overview" => Dashboards!EachIsCompared
=============================================================================
