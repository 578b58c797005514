---------------------------- MODULE DynamoEvidence ----------------------------
(***************************************************************************)
(* What a DynamoDB tuning context says, and whether the validator of the   *)
(* contexts accepts it.  DynamoContext is about the stages of the call and *)
(* its limits; here a table is described, CloudWatch sends the datapoints  *)
(* of its metrics page by page, a read is observed, and the context is put *)
(* together and handed to validateDynamoDbPerformanceTuningContext.        *)
(*                                                                         *)
(* An optional value is a sequence of at most one.                         *)
(***************************************************************************)
EXTENDS Naturals, Sequences, FiniteSets, SequencesExt

CONSTANTS Described, \* bound: the tables as DescribeTable tells of them
          Requests,  \* bound: [kind, index, monitoring, way, read, cut], what the calls ask
                     \* for, what is read and whether the context must be cut
          Points(_)  \* bound: the datapoints a series may have, {} if it never has any

VARIABLES phase,     \* "start", "ask", "metrics", "assemble" or "end"
          wanted,    \* the request
          table,     \* the table context
          target,    \* the keys the request goes by, <<>> or one
          measured,  \* of each series asked for, the datapoints CloudWatch has
          left,      \* ... those to come
          got,       \* ... those that came, page after page
          evidence   \* the context, <<>> or one

evars == <<phase, wanted, table, target, measured, left, got, evidence>>

\* What find gives, of what there is at most one.
One(S) == CHOOSE x \in S : TRUE

-----------------------------------------------------------------------------
\* DescribeTable, made a table context.
TypeOf(attributes, name) ==
  LET known == {a \in ToSet(attributes) : a.name = name}
  IN  IF known = {} THEN "S" ELSE One(known).type

KeysOf(keys, type) == {k \in ToSet(keys) : k.type = type}
Attribute(attributes, key) == [name |-> key.name, type |-> TypeOf(attributes, key.name)]

\* The partition key and, with it, the sort key; <<>> without a partition key.
mapKeySchema(keys, attributes) ==
  IF KeysOf(keys, "HASH") = {} THEN <<>>
  ELSE <<Attribute(attributes, One(KeysOf(keys, "HASH")))>>
       \o (IF KeysOf(keys, "RANGE") = {} THEN <<>>
           ELSE <<Attribute(attributes, One(KeysOf(keys, "RANGE")))>>)

\* Without a partition key, the first key there is, or "unknown", stands for it.
KeySchema(keys, attributes) ==
  IF KeysOf(keys, "HASH") # {} THEN mapKeySchema(keys, attributes)
  ELSE <<[name |-> IF keys = <<>> THEN "unknown" ELSE keys[1].name, type |-> "S"]>>

\* Indexes without a name are left out.
mapIndexes(indexes, attributes) ==
  {[name |-> ix.name[1], keys |-> KeySchema(ix.keys, attributes), count |-> ix.count] :
     ix \in {ix \in ToSet(indexes) : ix.name # <<>>}}

resolveDynamoDbBillingMode(mode, capacity) ==
  CASE mode \in {<<"PROVISIONED">>, <<"PAY_PER_REQUEST">>} -> mode[1]
    [] mode = <<>> /\ capacity # <<>> -> "PROVISIONED"
    [] OTHER -> "unknown"

\* Attribute definitions without a name are left out.
mapTableContext(raw) ==
  [name |-> raw.name, billing |-> resolveDynamoDbBillingMode(raw.mode, raw.capacity),
   keys |-> KeySchema(raw.keys, raw.attributes),
   attributes |-> {a \in ToSet(raw.attributes) : a.name # ""},
   local  |-> mapIndexes(raw.local, raw.attributes),
   global |-> mapIndexes(raw.global, raw.attributes),
   capped |-> raw.capped, count |-> raw.count]

Named(indexes, name) == {ix \in indexes : ix.name = name}

\* Mutant: a local index is taken for a global one.
resolveTargetKeySchema_AllGlobal(t, index) ==
  LET found == Named(t.global \union t.local, index[1])
  IN  IF index = <<>> THEN <<[keys |-> t.keys, type |-> "table"]>>
      ELSE IF found # {} THEN <<[keys |-> One(found).keys, type |-> "GSI"]>>
      ELSE <<>>

\* The keys that decide how the request is carried out, <<>> if the table has no
\* such index.
resolveTargetKeySchema(t, index) ==
  LET gsi == Named(t.global, index[1])
      lsi == Named(t.local, index[1])
  IN  IF index = <<>> THEN <<[keys |-> t.keys, type |-> "table"]>>
      ELSE IF gsi # {} THEN <<[keys |-> One(gsi).keys, type |-> "GSI"]>>
      ELSE IF lsi # {} THEN <<[keys |-> One(lsi).keys, type |-> "LSI"]>>
      ELSE <<>>

-----------------------------------------------------------------------------
\* The series that are asked of CloudWatch, of which the n-th has the id "m<n-1>".
Throttles == <<"ReadThrottleEvents", "ReadKeyRangeThroughputThrottleEvents",
               "ReadProvisionedThroughputThrottleEvents", "ReadAccountLimitThrottleEvents",
               "ReadMaxOnDemandThroughputThrottleEvents">>
Spec(metric, statistic, scope) == [metric |-> metric, statistic |-> statistic, scope |-> scope]
Sums(metrics, scope) == [i \in DOMAIN metrics |-> Spec(metrics[i], "Sum", scope)]

addCapacityScope(t, scope) ==
  <<Spec("ConsumedReadCapacityUnits", "Sum", scope)>>
  \o (IF t.billing = "PROVISIONED" THEN <<Spec("ProvisionedReadCapacityUnits", "Average", scope)>> ELSE <<>>)
  \o (IF t.capped THEN <<Spec("OnDemandMaxReadRequestUnits", "Average", scope)>> ELSE <<>>)
  \o Sums(Throttles, scope)

operationSpecs ==
  [i \in 1 .. 3 |-> Spec("SuccessfulRequestLatency", <<"p50", "p90", "p99">>[i], "operation")]
  \o Sums(<<"ThrottledRequests", "SystemErrors", "ReturnedItemCount">>, "operation")

\* A local index has no metrics of its own.
buildSeriesSpecs(t, type) ==
  addCapacityScope(t, "table")
  \o (IF type = "GSI" THEN addCapacityScope(t, "gsi") ELSE <<>>)
  \o operationSpecs

\* The place of a datapoint by time; those of one time stay as they came.
Place(points, i) ==
  Cardinality({j \in DOMAIN points : \/ points[j].time < points[i].time
                                     \/ points[j].time = points[i].time /\ j <= i})
ByTime(points) ==
  [n \in DOMAIN points |-> points[CHOOSE i \in DOMAIN points : Place(points, i) = n]]

\* The datapoints of all pages, each a time with its value, by time.
Series(spec, points) ==
  [metric |-> spec.metric, scope |-> spec.scope, statistic |-> spec.statistic,
   times  |-> [i \in DOMAIN points |-> ByTime(points)[i].time],
   values |-> [i \in DOMAIN points |-> ByTime(points)[i].value],
   noData |-> points = <<>>]

-----------------------------------------------------------------------------
\* The diagnostics, each with whether it makes the context partial.
Note(code, affects) == [code |-> code, affects |-> affects]

\* What was throttled: a metric of which some series has more than zero.
applyThrottleDiagnostics(series) ==
  {Note(code, FALSE) : code \in
     {m \in ToSet(Throttles) : \E i \in DOMAIN series :
        series[i].metric = m /\ ~series[i].noData /\ \E j \in DOMAIN series[i].values : series[i].values[j] > 0}}

PathOf(way, index) ==
  CASE way = "unknown" -> "unknown"
    [] way = "query" -> IF index = <<>> THEN "tableQuery" ELSE "indexQuery"
    [] OTHER -> IF index = <<>> THEN "tableScan" ELSE "indexScan"

patternNotes(path) ==
  CASE path = "unknown"   -> {Note("ACCESS_PATTERN_UNRESOLVED", TRUE)}
    [] path = "tableScan" -> {Note("FULL_TABLE_SCAN", FALSE)}
    [] path = "indexScan" -> {Note("FULL_INDEX_SCAN", FALSE)}
    [] OTHER -> {}

\* Mutant: the rate of a read that evaluated nothing.
buildObservation_Rate(read, kind) ==
  [bounded |-> read.more, evaluated |-> IF kind = "partiql" THEN <<>> ELSE read.scanned,
   rate |-> IF kind = "partiql" \/ read.scanned = <<>> THEN <<>>
            ELSE <<[of |-> read.scanned[1], passed |-> read.returned]>>]

\* PartiQL does not tell how many items it evaluated.
buildObservation(read, kind) ==
  [bounded |-> read.more, evaluated |-> IF kind = "partiql" THEN <<>> ELSE read.scanned,
   rate |-> IF kind = "partiql" \/ read.scanned \in {<<>>, <<0>>} THEN <<>>
            ELSE <<[of |-> read.scanned[1], passed |-> read.returned]>>]

\* The last datapoints of a series, and the sizes of the target only: what
\* applyPayloadLimit leaves of a context that is too large (RecentPoints for 60).
RecentPoints == 1
Recent(s) == SubSeq(s, IF Len(s) > RecentPoints THEN Len(s) - RecentPoints + 1 ELSE 1, Len(s))
RecentOnly(s) == [s EXCEPT !.times = Recent(s.times), !.values = Recent(s.values)]
Sizeless(indexes, index) ==
  {IF <<ix.name>> = index THEN ix ELSE [ix EXCEPT !.count = <<>>] : ix \in indexes}
TargetSizes(t, index) ==
  [t EXCEPT !.local = Sizeless(t.local, index), !.global = Sizeless(t.global, index)]
applyPayloadLimit(context, cut) ==
  IF cut = "none" THEN context
  ELSE [context EXCEPT
          !.series = [i \in DOMAIN context.series |-> RecentOnly(context.series[i])],
          !.table = IF cut = "sizes" THEN TargetSizes(context.table, context.index) ELSE context.table,
          !.status = "partial", !.notes = context.notes \union {Note("COLLECTION_TRUNCATED", TRUE)}]

StatusOf(gaps, notes) == IF gaps # {} \/ \E n \in notes : n.affects THEN "partial" ELSE "complete"

Completed(context) == [context EXCEPT !.status = StatusOf(context.gaps, context.notes)]

\* The context of a request, with the series that came and the gaps there are.
Context(series, gaps, path) ==
  [index |-> wanted.index, language |-> wanted.kind,
   statement |-> IF wanted.kind = "partiql" THEN "select" ELSE "query",
   path |-> path, certain |-> path # "unknown", table |-> table, series |-> series,
   observation |-> [i \in DOMAIN wanted.read |-> buildObservation(wanted.read[i], wanted.kind)],
   status |-> "none",
   gaps |-> gaps \union (IF path = "unknown" THEN {"accessPattern"} ELSE {}),
   notes |-> patternNotes(path) \union applyThrottleDiagnostics(series)
             \union {Note("CLOUDWATCH_NO_DATA", FALSE) : i \in {i \in DOMAIN series : series[i].noData}}
             \union {Note("SECTION_COLLECTION_FAILED", TRUE) : g \in gaps}
             \union {Note("OBSERVATION_BOUNDED", FALSE) : i \in {i \in DOMAIN wanted.read : wanted.read[i].more}}
             \union (IF table.count # <<>> THEN {Note("APPROXIMATE_TABLE_METADATA", FALSE)} ELSE {})
             \union (IF wanted.monitoring THEN {} ELSE {Note("MONITORING_COLLECTION_SKIPPED", FALSE)})]

-----------------------------------------------------------------------------
\* validateDynamoDbPerformanceTuningContext, part by part.
Codes == ToSet(Throttles) \union
  {"FULL_TABLE_SCAN", "FULL_INDEX_SCAN", "POST_READ_FILTER", "ACCESS_PATTERN_UNRESOLVED",
   "HIGH_SCANNED_TO_RETURNED", "OBSERVATION_BOUNDED", "APPROXIMATE_TABLE_METADATA",
   "CLOUDWATCH_NO_DATA", "MONITORING_COLLECTION_SKIPPED", "SECTION_COLLECTION_FAILED",
   "COLLECTION_TRUNCATED"}

validateService(c) == c.table.name # "" /\ c.index # <<"">>
validateStatement(c) ==
  c.language \in {"partiql", "query"} /\ c.statement \in {"select", "query"}

\* "Unknown confidence cannot claim a known access path."
validateAccessPattern(c) ==
  /\ c.path \in {"tableQuery", "indexQuery", "tableScan", "indexScan", "unknown"}
  /\ ~c.certain => c.path = "unknown"

validAttribute(a) == a.name # "" /\ a.type \in {"S", "N", "B"}
validateKeySchema(keys) == keys # <<>> /\ \A i \in DOMAIN keys : validAttribute(keys[i])
validateIndex(i) == i.name # "" /\ validateKeySchema(i.keys)
validateTable(t) ==
  /\ t.name # "" /\ t.billing \in {"PROVISIONED", "PAY_PER_REQUEST", "unknown"}
  /\ validateKeySchema(t.keys)
  /\ \A a \in t.attributes : validAttribute(a)
  /\ \A ix \in t.local \union t.global : validateIndex(ix)

\* A pass rate is a ratio in [0, 1], "undefined when evaluatedItemCount is undefined".
isRatio(rate) == rate.of # 0 /\ rate.passed <= rate.of
validateObservation(o) ==
  \A i \in DOMAIN o.rate : isRatio(o.rate[i]) /\ o.evaluated # <<>>

validateCloudWatchSeries(s) ==
  /\ s.scope \in {"table", "gsi", "operation"}
  /\ Len(s.times) = Len(s.values)
  /\ s.noData <=> s.times = <<>>
  /\ \A i \in DOMAIN s.times : i > 1 => s.times[i - 1] <= s.times[i]

validateCollection(c) ==
  /\ \A n \in c.notes : n.code \in Codes
  /\ c.gaps \subseteq {"accessPattern", "tableDefinition", "cloudWatchMetrics"}
  /\ c.status = "partial" <=> c.gaps # {} \/ \E n \in c.notes : n.affects

validates(c) ==
  /\ validateService(c) /\ validateStatement(c) /\ validateAccessPattern(c)
  /\ validateTable(c.table) /\ validateCollection(c)
  /\ \A i \in DOMAIN c.observation : validateObservation(c.observation[i])
  /\ \A i \in DOMAIN c.series : validateCloudWatchSeries(c.series[i])

-----------------------------------------------------------------------------
Init == /\ phase = "start" /\ wanted \in Requests
        /\ table \in {mapTableContext(raw) : raw \in Described}
        /\ target = <<>> /\ measured = <<>> /\ left = <<>> /\ got = <<>> /\ evidence = <<>>

\* A request for an index the table does not have is refused.
Resolve ==
  /\ phase = "start"
  /\ target' = resolveTargetKeySchema(table, wanted.index)
  /\ phase' = IF target' = <<>> THEN "end" ELSE IF wanted.monitoring THEN "ask" ELSE "assemble"
  /\ UNCHANGED <<wanted, table, measured, left, got, evidence>>

\* The metrics are asked for; CloudWatch has some of the datapoints they may have.
Ask ==
  /\ phase = "ask" /\ phase' = "metrics"
  /\ \E specs \in {buildSeriesSpecs(table, target[1].type)} :
       /\ \E some \in SUBSET UNION {{i} \X Points(specs[i]) : i \in DOMAIN specs} :
            measured' = [i \in DOMAIN specs |-> {p \in Points(specs[i]) : <<i, p>> \in some}]
       /\ left' = measured'
       /\ got' = [i \in DOMAIN specs |-> <<>>]
  /\ UNCHANGED <<wanted, table, target, evidence>>

\* Mutant: the datapoints of a page take the place of those of the page before.
Page_Last ==
  /\ phase = "metrics"
  /\ \E i \in DOMAIN left : \E some \in SUBSET left[i] \ {{}} : \E sent \in SetToSeqs(some) :
       /\ left' = [left EXCEPT ![i] = @ \ some]
       /\ got' = [got EXCEPT ![i] = sent]
  /\ UNCHANGED <<phase, wanted, table, target, measured, evidence>>

\* A page has datapoints of a series, in an order that need not be that of time;
\* those of other series in the same page do not meet them.
Page ==
  /\ phase = "metrics"
  /\ \E i \in DOMAIN left : \E some \in SUBSET left[i] \ {{}} : \E sent \in SetToSeqs(some) :
       /\ left' = [left EXCEPT ![i] = @ \ some]
       /\ got' = [got EXCEPT ![i] = @ \o sent]
  /\ UNCHANGED <<phase, wanted, table, target, measured, evidence>>

Put(context) == /\ evidence' = <<applyPayloadLimit(Completed(context), wanted.cut)>>
                /\ phase' = "end"
                /\ UNCHANGED <<wanted, table, target, measured, left, got>>
Path == PathOf(wanted.way, wanted.index)

\* A page that fails ends the collection: what came before is not used.
MetricsFail == phase = "metrics" /\ Put(Context(<<>>, {"cloudWatchMetrics"}, Path))

\* After the last page, which has no token.
Assemble ==
  /\ phase = "metrics" /\ \A i \in DOMAIN left : left[i] = {}
  /\ \E specs \in {buildSeriesSpecs(table, target[1].type)} :
       Put(Context([i \in DOMAIN specs |-> Series(specs[i], got[i])], {}, Path))

Unmonitored ==
  /\ phase = "assemble"
  /\ \E gaps \in {{}, {"tableDefinition"}} : Put(Context(<<>>, gaps, Path))

Next == Resolve \/ Ask \/ Page \/ MetricsFail \/ Assemble \/ Unmonitored

-----------------------------------------------------------------------------
\* What collect returns is a context that the validator of contexts accepts, cut
\* to its limits or not, whatever the table is said to be like.
EvidenceAccepted == \A i \in DOMAIN evidence : validates(evidence[i])

\* The datapoints a series of a context tells of.
PointsOf(s) == {[time |-> s.times[j], value |-> s.values[j]] : j \in DOMAIN s.times}

\* Every series holds the datapoints CloudWatch has for it and no others, each
\* value with its own time, however they were spread over pages; and it is asked
\* for once.
OwnDatapoints ==
  phase = "end" /\ measured # <<>> /\ wanted.cut = "none" =>
    \A c \in ToSet(evidence) : c.gaps \subseteq {"accessPattern"} =>
      /\ Len(c.series) = Len(measured)
      /\ \A i \in DOMAIN c.series :
           /\ PointsOf(c.series[i]) = measured[i]
           /\ Len(c.series[i].times) = Cardinality(measured[i])
      /\ \A i, j \in DOMAIN c.series : i # j => \/ c.series[i].metric # c.series[j].metric
                                              \/ c.series[i].scope # c.series[j].scope
                                              \/ c.series[i].statistic # c.series[j].statistic

\* Throttling is told of when, and only when, CloudWatch counted some, be it of
\* the table or of its index; that it sent nothing is told and is not a count of 0.
ThrottlingTold ==
  phase = "end" /\ measured # <<>> =>
    \A c \in ToSet(evidence) : c.gaps \subseteq {"accessPattern"} =>
      \A m \in ToSet(Throttles) :
        Note(m, FALSE) \in c.notes
          <=> \E i \in DOMAIN measured : /\ c.series[i].metric = m
                                         /\ \E p \in measured[i] : p.value > 0

\* The request goes by the keys of what it names, and only an index with metrics
\* of its own is asked for them.
GoesByItsKeys ==
  \A t \in ToSet(target) :
    /\ wanted.index = <<>> => t.keys = table.keys
    /\ wanted.index # <<>> =>
         \E ix \in table.local \union table.global :
           <<ix.name>> = wanted.index /\ ix.keys = t.keys
    /\ phase = "end" => \A c \in ToSet(evidence) : \A i \in DOMAIN c.series :
         c.series[i].scope = "gsi" =>
           \E ix \in table.global : <<ix.name>> = wanted.index
=============================================================================
