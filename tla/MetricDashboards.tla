-------------------------- MODULE MetricDashboards --------------------------
(***************************************************************************)
(* The metric dashboards of AWS: which series of CloudWatch each asks for  *)
(* (the adapters' resolveTarget and resolveDashboard).                     *)
(*                                                                         *)
(* panels     of a DynamoDB table, an SQS queue and the SES account, shown *)
(*            for one selection after another                              *)
(* bucket     of an S3 bucket: its region is looked up, then its storage   *)
(*            types and its metrics configurations are listed next to each *)
(*            other, page by page, while configurations come and go; shown *)
(*            for the configuration that is selected, which may be one of  *)
(*            an earlier view                                              *)
(* overview   of a service: the first resources by name are compared.  S3  *)
(*            looks up the storage types of each bucket in its own region  *)
(*            first, with a few workers next to each other                 *)
(*            (mapWithConcurrency); SQS and DynamoDB compare as they are   *)
(*                                                                         *)
(* A view is of one of the three, which share nothing.                     *)
(***************************************************************************)
EXTENDS Integers, Sequences, SequencesExt, Functions, FiniteSets, FiniteSetsExt

CONSTANTS Subject,       \* the tables, queues and accounts a view may be of
          Filter,        \* ids of metrics configurations, positive, listed in their order
          StorageType,   \* storage types CloudWatch may have of the bucket
          PageSize,      \* configurations on a page
          MaxViews,      \* bound: times the target of a bucket is resolved
          MaxChanges,    \* bound: configurations created or deleted
          MaxCandidates, \* MAX_OVERVIEW_CANDIDATES
          Concurrency,   \* DISCOVERY_CONCURRENCY
          TopLimits,     \* the limits that can be selected, the last the default
          Resource       \* a bucket: its region in the resource tree, "none" if
                         \* that has none, and the storage types of CloudWatch

VARIABLES subject,   \* the resource, and CloudWatch's series of the account
          observed,  \* SES: the metric names found when the target was resolved, or Pending
          board,     \* the panels that are shown, {} at first
          configs,   \* the bucket's metrics configurations
          recent,    \* the filters CloudWatch has recent series of
          changes,
          selection, \* the selected configuration, 0 at first
          view,      \* what resolveTarget has found
          storage,   \* the storage types found, Asked until then
          bucket,    \* the dashboard that is shown
          views,
          steady,    \* history: configured throughout the listing
          ever,      \* history: configured at some time of the listing
          service,   \* "s3" or another
          custom,    \* a custom endpoint is configured
          resources, \* of the service, by name: each with its region and types
          turn,      \* mapWithConcurrency: nextIndex
          task,      \* what each worker is at, 0 before its first and after its last
          result,    \* the types found of each candidate, Pending until then
          comparison \* the overview that is shown

-----------------------------------------------------------------------------
(***************************************************************************)
(* The panels of one resource                                              *)
(***************************************************************************)
Pending == {"pending"}
Operations == {"Query", "Scan", "ExecuteStatement"}

Series(metric, statistic, dimensions) ==
  [metric |-> metric, statistic |-> statistic, dimensions |-> dimensions]

\* One series of each metric of names, all of the same statistic.
Each(names, statistic, dimensions) ==
  [i \in DOMAIN names |-> Series(names[i], statistic, dimensions)]

\* Its queries are a function of the lines.
Panel(id, queries) == [id |-> id, queries |-> queries]

-----------------------------------------------------------------------------
(***************************************************************************)
(* DynamoDB                                                                *)
(***************************************************************************)
TableDimensions == {<<"TableName", "t">>}
GsiDimensions(i) == TableDimensions \union {<<"GlobalSecondaryIndexName", i>>}

OperationDimensions(operation) ==
  TableDimensions \union {<<"Operation", operation>>}
    \union (IF operation = "ExecuteStatement" THEN {<<"Verb", "PartiQLSelect">>} ELSE {})

\* The table, and each of its indexes.
Scopes(t) == 0..Len(t.gsis)
Sides == {"read", "write"}
ScopeDimensions(i) == IF i = 0 THEN TableDimensions ELSE GsiDimensions(i)

\* A read and a write series of each scope.
ReadWrite(t, read, write) ==
  [line \in Scopes(t) \X Sides |->
     Series(IF line[2] = "read" THEN read ELSE write, "Sum", ScopeDimensions(line[1]))]

\* resolveDynamoDbBillingMode: without a mode, a table with capacities is
\* provisioned.
BillingMode(t) ==
  IF t.mode # "none" THEN t.mode
  ELSE IF t.own.Provisioned # {} THEN "PROVISIONED" ELSE "unknown"

\* Mutant: the limits of both modes are asked for.
Binding_AnyMode(t) == {"Provisioned", "OnDemandMax"}

\* The limits of the table's billing mode.
Binding(t) ==
  CASE BillingMode(t) = "PROVISIONED"     -> {"Provisioned"}
    [] BillingMode(t) = "PAY_PER_REQUEST" -> {"OnDemandMax"}
    [] OTHER -> {}

LimitMetric(prefix, side) ==
  CASE prefix = "Provisioned" /\ side = "read"  -> "ProvisionedReadCapacityUnits"
    [] prefix = "Provisioned" /\ side = "write" -> "ProvisionedWriteCapacityUnits"
    [] prefix = "OnDemandMax" /\ side = "read"  -> "OnDemandMaxReadRequestUnits"
    [] prefix = "OnDemandMax" /\ side = "write" -> "OnDemandMaxWriteRequestUnits"

\* addLimitQueries: the sides that have a limit.
LimitsOf(t, i, prefix) == IF i = 0 THEN t.own[prefix] ELSE t.gsis[i][prefix]

LimitQueries(t) ==
  [line \in {x \in Binding(t) \X Scopes(t) \X Sides : x[3] \in LimitsOf(t, x[2], x[1])} |->
     Series(LimitMetric(line[1], line[3]), "Average", ScopeDimensions(line[2]))]

\* buildPanels
TablePanels(t, operation) ==
  LET dims == OperationDimensions(operation)
  IN  {Panel("consumed-capacity",
             ReadWrite(t, "ConsumedReadCapacityUnits", "ConsumedWriteCapacityUnits")),
       Panel("throttling", ReadWrite(t, "ReadThrottleEvents", "WriteThrottleEvents")),
       Panel("request-latency",
         [i \in 1..3 |-> Series("SuccessfulRequestLatency", <<"p50", "p90", "p99">>[i], dims)]),
       Panel("request-errors",
         Each(<<"SystemErrors", "ConditionalCheckFailedRequests", "TransactionConflict">>,
              "Sum", dims))}
      \union (IF DOMAIN LimitQueries(t) # {} THEN {Panel("capacity-limits", LimitQueries(t))}
              ELSE {})
      \union (IF operation \in {"Query", "Scan"}
              THEN {Panel("returned-items", Each(<<"ReturnedItemCount">>, "Sum", dims))} ELSE {})
      \union (IF t.ttl \in {"ENABLED", "ENABLING"}
              THEN {Panel("ttl-deletions",
                          Each(<<"TimeToLiveDeletedItemCount">>, "Sum", TableDimensions))} ELSE {})

-----------------------------------------------------------------------------
(***************************************************************************)
(* SQS and SES                                                             *)
(***************************************************************************)
\* standardPanels, and the panel of a FIFO queue.
QueuePanels(q) ==
  LET dims == {<<"QueueName", "q">>}
  IN  {Panel("backlog", Each(<<"ApproximateNumberOfMessagesVisible",
               "ApproximateNumberOfMessagesNotVisible", "ApproximateNumberOfMessagesDelayed">>,
               "Maximum", dims)),
       Panel("oldest-message", Each(<<"ApproximateAgeOfOldestMessage">>, "Maximum", dims)),
       Panel("message-flow", Each(<<"NumberOfMessagesSent", "NumberOfMessagesReceived",
               "NumberOfMessagesDeleted", "NumberOfEmptyReceives">>, "Sum", dims)),
       Panel("message-size", <<Series("SentMessageSize", "Average", dims),
                               Series("SentMessageSize", "Maximum", dims)>>)}
      \union (IF q.fifo
              THEN {Panel("fifo",
                      <<Series("ApproximateNumberOfGroupsWithInflightMessages", "Maximum", dims),
                        Series("NumberOfDeduplicatedSentMessages", "Sum", dims)>>)} ELSE {})

\* Mutant: a metric with dimensions counts as one of the account.
MetricNames_AnyDimensions(series) == {s.metric : s \in series}

\* discoverMetricNames with exactDimensions and none to match.
MetricNames(series) == {s.metric : s \in {x \in series : x.dimensions = {}}}

OptionalEvents == <<"Open", "Click", "Subscription", "RenderingFailure">>

\* The panel of the optional events that were observed has a line for each.
AccountPanels(names) ==
  LET lines == {i \in DOMAIN OptionalEvents : OptionalEvents[i] \in names}
  IN  {Panel("sending-volume", Each(<<"Send", "Delivery">>, "Sum", {})),
       Panel("delivery-problems",
             Each(<<"Bounce", "Complaint", "Reject", "DeliveryDelay">>, "Sum", {})),
       Panel("reputation",
             Each(<<"Reputation.BounceRate", "Reputation.ComplaintRate">>, "Average", {}))}
      \union (IF lines # {}
              THEN {Panel("observed-events",
                      [i \in lines |-> Series(OptionalEvents[i], "Sum", {})])} ELSE {})

-----------------------------------------------------------------------------
PanelsInit == subject \in Subject /\ observed = Pending /\ board = {}

\* resolveTarget: only SES asks CloudWatch, and a request that fails finds none.
ResolveTarget ==
  /\ observed = Pending
  /\ \/ observed' = {}
     \/ subject.kind = "account" /\ observed' = MetricNames(subject.series)
  /\ UNCHANGED <<subject, board>>

\* resolveDashboard; another operation may be selected at any time.
ResolveDashboard(operation) ==
  /\ observed # Pending
  /\ board' = CASE subject.kind = "table"   -> TablePanels(subject, operation)
                [] subject.kind = "queue"   -> QueuePanels(subject)
                [] subject.kind = "account" -> AccountPanels(observed)
  /\ UNCHANGED <<subject, observed>>

PanelsNext == ResolveTarget \/ \E operation \in Operations : ResolveDashboard(operation)

-----------------------------------------------------------------------------
OnBoard == board # {}
Lines(p) == DOMAIN p.queries
Queries == UNION {{p.queries[i] : i \in Lines(p)} : p \in board}

\* Each series is read once: no two panels of a dashboard and no two lines of a
\* panel ask CloudWatch, which charges by the series, for the same one; and no
\* panel is empty.
ReadOnce ==
  /\ \A p, q \in board : \A i \in Lines(p), k \in Lines(q) :
       p.queries[i] = q.queries[k] => p = q /\ i = k
  /\ \A p \in board : Lines(p) # {}

\* A table's limits are those that bind it: of its billing mode, and only where
\* one is set; what was consumed of them is shown for the same scopes.
LimitsBind ==
  OnBoard /\ subject.kind = "table" =>
    /\ \A q \in Queries :
         /\ q.metric \in {"ProvisionedReadCapacityUnits", "ProvisionedWriteCapacityUnits"} =>
              subject.mode # "PAY_PER_REQUEST"
         /\ q.metric \in {"OnDemandMaxReadRequestUnits", "OnDemandMaxWriteRequestUnits"} =>
              subject.mode = "PAY_PER_REQUEST"
    /\ \A q \in Queries : q.statistic = "Average" =>
         \E c \in Queries : c.dimensions = q.dimensions /\ c.metric = "ConsumedReadCapacityUnits"

\* An optional event of SES is asked for only if CloudWatch has a series of the
\* whole account for it, whatever series of single messages there are.
EventsWereSeen ==
  OnBoard /\ subject.kind = "account" =>
    \A q \in Queries : q.metric \in Range(OptionalEvents) =>
      [metric |-> q.metric, dimensions |-> {}] \in subject.series

-----------------------------------------------------------------------------
(***************************************************************************)
(* The dashboard of a bucket                                               *)
(***************************************************************************)
Asked == {"asked"}
Home == "home"           \* the region of the bucket
Elsewhere == "elsewhere" \* the region of the connection

Target(step, region) ==
  [step |-> step, region |-> region, filters |-> {}, after |-> 0,
   prerequisite |-> "none", verification |-> "none"]
NoBoard == [region |-> "none", types |-> {}, options |-> {}, value |-> 0, requests |-> <<>>,
            prerequisite |-> "none", verification |-> "none", panels |-> 0]

BucketInit ==
  /\ configs \in SUBSET Filter /\ recent \in SUBSET Filter
  /\ changes = 0 /\ selection = 0 /\ views = 0
  /\ view = Target("idle", "none") /\ storage = Asked /\ bucket = NoBoard
  /\ steady = {} /\ ever = {}

-----------------------------------------------------------------------------
(***************************************************************************)
(* resolveTarget                                                           *)
(***************************************************************************)
Listing == view.step = "listing" \/ view.step = "observing"

\* A configuration is created or deleted.
Change(f) ==
  /\ changes < MaxChanges /\ changes' = changes + 1
  /\ configs' = IF f \in configs THEN configs \ {f} ELSE configs \union {f}
  /\ steady' = steady \ {f}
  /\ ever' = IF Listing THEN ever \union {f} ELSE ever
  /\ UNCHANGED <<recent, selection, view, storage, bucket, views>>

\* The listings begin at the endpoint of the region.
Begin(region) ==
  /\ view' = Target("listing", region) /\ storage' = Asked
  /\ steady' = configs /\ ever' = configs

\* The resource tree may know the region of the bucket; otherwise HeadBucket is
\* sent to the region of the connection.
Resolve ==
  /\ view.step \in {"idle", "ready", "failed"} /\ views < MaxViews /\ views' = views + 1
  /\ \/ Begin(Home)
     \/ /\ view' = Target("region", "none") /\ storage' = Asked
        /\ UNCHANGED <<steady, ever>>
  /\ UNCHANGED <<configs, recent, changes, selection, bucket>>

\* Mutant: an answer without a region is taken for the region it came from.
RegionOf_Asked(answer) == IF answer.region = "none" THEN Elsewhere ELSE answer.region

\* resolveBucketRegion: the answer names the region, and so may the headers of
\* an error (bucketRegionFromError).
RegionOf(answer) == answer.region

HeadBucket ==
  /\ view.step = "region"
  /\ \E answer \in [ok : BOOLEAN, region : {Home, "none"}] :
       IF RegionOf(answer) # "none" THEN Begin(RegionOf(answer))
       ELSE view' = Target("failed", "none") /\ UNCHANGED <<storage, steady, ever>>
  /\ UNCHANGED <<configs, recent, changes, selection, bucket, views>>

\* discoverDimensionValues of the storage types: a failure finds none.
StorageTypes ==
  /\ Listing \/ view.step = "listed"
  /\ storage = Asked
  /\ storage' \in {{}, StorageType}
  /\ UNCHANGED <<configs, recent, changes, selection, view, bucket, views, steady, ever>>

\* What resolveRequestMetrics ends with.
Listed(filters, prerequisite, verification) ==
  view' = [view EXCEPT !.step = "listed", !.filters = filters,
                       !.prerequisite = prerequisite, !.verification = verification]

\* A page of ListBucketMetricsConfigurations.
ListPage ==
  /\ view.step = "listing"
  /\ LET left == {f \in configs : f > view.after}
         page == {f \in left : Cardinality({g \in left : g <= f}) <= PageSize}
         all == view.filters \union page
     IN  IF page # left
         THEN view' = [view EXCEPT !.filters = all, !.after = Max(page)]
         ELSE Listed(all, IF all # {} THEN "configured" ELSE "not-configured", "none")
  /\ UNCHANGED <<configs, recent, changes, selection, storage, bucket, views, steady, ever>>

\* A page that fails: what has been listed is forgotten and CloudWatch is asked.
ListFails ==
  /\ view.step = "listing"
  /\ view' = [view EXCEPT !.step = "observing", !.filters = {}]
  /\ UNCHANGED <<configs, recent, changes, selection, storage, bucket, views, steady, ever>>

\* Mutant: filters that were only observed need no verification.
Observed_Verified(found) ==
  IF found # {} THEN Listed(found, "configured", "none") ELSE Listed({}, "unknown", "none")

Observed(found) ==
  IF found # {} THEN Listed(found, "configured", "unknown") ELSE Listed({}, "unknown", "none")

\* discoverDimensionValues of the filters.
FilterIds ==
  /\ view.step = "observing"
  /\ \E found \in {{}, recent} : Observed(found)
  /\ UNCHANGED <<configs, recent, changes, selection, storage, bucket, views, steady, ever>>

\* The abort signal rejects the resolution.
Aborted ==
  /\ \/ view.step = "region" \/ Listing
     \/ view.step = "listed" /\ storage = Asked
  /\ view' = Target("failed", "none")
  /\ UNCHANGED <<configs, recent, changes, selection, storage, bucket, views, steady, ever>>

-----------------------------------------------------------------------------
(***************************************************************************)
(* resolveDashboard                                                        *)
(***************************************************************************)
\* requestPanels: metrics and statistics of the four panels, one after another.
RequestMetrics ==
  <<<<"GetRequests", "Sum">>, <<"PutRequests", "Sum">>, <<"DeleteRequests", "Sum">>,
    <<"ListRequests", "Sum">>, <<"4xxErrors", "Sum">>, <<"5xxErrors", "Sum">>,
    <<"FirstByteLatency", "Average">>, <<"FirstByteLatency", "p90">>,
    <<"TotalRequestLatency", "Average">>, <<"TotalRequestLatency", "p90">>,
    <<"BytesDownloaded", "Sum">>, <<"BytesUploaded", "Sum">>>>

RequestQueries(filter) ==
  IF filter = 0 THEN <<>>
  ELSE [i \in DOMAIN RequestMetrics |-> [series |-> RequestMetrics[i], filter |-> filter]]

FallbackTypes == {"fallback"}

\* Mutant: the selection of an earlier view is asked for although it is gone.
SelectedOf_Stale(options) ==
  IF selection # 0 THEN selection ELSE IF options # {} THEN Min(options) ELSE 0

\* The selected configuration, or the first.
SelectedOf(options) ==
  IF selection \in options THEN selection ELSE IF options # {} THEN Min(options) ELSE 0

Shown(filter) ==
  [region |-> view.region, types |-> IF storage # {} THEN storage ELSE FallbackTypes,
   options |-> view.filters, value |-> filter, requests |-> RequestQueries(filter),
   prerequisite |-> view.prerequisite, verification |-> view.verification,
   panels |-> IF view.verification = "unknown" THEN 7 ELSE 6]

\* Both listings have ended.
Show ==
  /\ view.step = "listed" /\ storage # Asked
  /\ view' = [view EXCEPT !.step = "ready"]
  /\ bucket' = Shown(SelectedOf(view.filters))
  /\ UNCHANGED <<configs, recent, changes, selection, storage, views, steady, ever>>

\* A configuration of the selector is selected, of the dashboard that is shown.
Select(f) ==
  /\ f \in bucket.options /\ f # selection
  /\ selection' = f
  /\ bucket' = IF view.step = "ready" THEN Shown(f) ELSE bucket
  /\ UNCHANGED <<configs, recent, changes, view, storage, views, steady, ever>>

BucketNext ==
  \/ Resolve \/ HeadBucket \/ StorageTypes \/ ListPage \/ ListFails \/ FilterIds
  \/ Aborted \/ Show
  \/ \E f \in Filter : Change(f) \/ Select(f)

-----------------------------------------------------------------------------
IsShown == bucket # NoBoard
FiltersAsked == {bucket.requests[i].filter : i \in DOMAIN bucket.requests}

\* A dashboard that is shown asks at the region of the bucket, whatever region
\* the connection is of, and each series once, of one configuration: the one the
\* selector shows, which is one of its options.
AsksWhatItShows ==
  IsShown =>
    /\ bucket.region = Home
    /\ IsInjective(bucket.requests)
    /\ IF bucket.options = {} THEN bucket.requests = <<>> ELSE FiltersAsked = {bucket.value}
    /\ bucket.options # {} => bucket.value \in bucket.options

\* What it says of the request metrics is what is known of them: configured, and
\* each configuration that stayed is offered and none that never was; not
\* configured only if none stayed; and with a note as soon as a listing failed.
ConfigurationIsKnown ==
  IsShown /\ view.step = "ready" =>
    /\ bucket.prerequisite = "configured" <=> bucket.options # {}
    /\ bucket.verification = "none" /\ bucket.prerequisite # "unknown" =>
         steady \subseteq bucket.options /\ bucket.options \subseteq ever
    /\ bucket.verification = "unknown" => bucket.options = recent
    /\ bucket.panels = 7 <=> bucket.verification = "unknown"

-----------------------------------------------------------------------------
(***************************************************************************)
(* The overview of a service                                               *)
(***************************************************************************)
Near == "near" \* the region of the connection
Nothing == [shown |-> "nothing"]

\* resolveOverviewTarget
Candidates == 1..(IF Len(resources) > MaxCandidates THEN MaxCandidates ELSE Len(resources))
Worker == 1..Concurrency
Started == Worker \intersect Candidates

OverviewInit ==
  /\ service \in {"s3", "other"} /\ custom \in BOOLEAN
  /\ resources \in UNION {[1..n -> Resource] : n \in 0..(MaxCandidates + 1)}
  /\ turn = 1 /\ task = [w \in Worker |-> 0]
  /\ result = [i \in Candidates |-> Pending]
  /\ comparison = Nothing

-----------------------------------------------------------------------------
\* resourceRegion: a custom endpoint is asked whatever region the bucket has.
RegionAsked(i) == IF custom THEN Near ELSE resources[i].region

\* A worker takes the next candidate; without a region there is nothing to ask.
Take(w) ==
  /\ service = "s3" /\ comparison = Nothing
  /\ w \in Started /\ task[w] = 0 /\ turn \in Candidates
  /\ turn' = turn + 1
  /\ IF RegionAsked(turn) = "none"
     THEN result' = [result EXCEPT ![turn] = {}] /\ UNCHANGED task
     ELSE task' = [task EXCEPT ![w] = turn] /\ UNCHANGED result
  /\ UNCHANGED <<service, custom, resources, comparison>>

\* Mutant: a worker puts what it found where the last candidate was taken.
PlaceOf_Last(w) == turn - 1

\* Each worker keeps the index of its own candidate.
PlaceOf(w) == task[w]

\* discoverDimensionValues ends: a failure finds no types.
Found(w) ==
  /\ task[w] # 0 /\ comparison = Nothing
  /\ result' \in {[result EXCEPT ![PlaceOf(w)] = {}],
                  [result EXCEPT ![PlaceOf(w)] = resources[task[w]].types]}
  /\ task' = [task EXCEPT ![w] = 0]
  /\ UNCHANGED <<service, custom, resources, turn, comparison>>

\* The abort signal rejects one of them, and the target with it.
OverviewAborted(w) ==
  /\ task[w] # 0 /\ comparison = Nothing
  /\ comparison' = [shown |-> "aborted"]
  /\ UNCHANGED <<service, custom, resources, turn, task, result>>

\* resolveOverviewSeriesLimit: 0 stands for "all", and what is no number of
\* the list for the default.
LimitOf(requested, n) ==
  LET top == IF requested \in Range(TopLimits) THEN requested ELSE Last(TopLimits)
  IN  IF requested = 0 \/ n < top THEN n ELSE top

\* A series of one resource; a total has one input for each of its types.
Total(i, types) == [resource |-> i, region |-> RegionAsked(i), inputs |-> types]

\* resolveDashboard: the totals in the order of the names.
Comparison(shown, requested, totals) ==
  [shown |-> shown, totals |-> totals, limit |-> LimitOf(requested, Len(totals)),
   evaluated |-> Cardinality(Candidates), total |-> Len(resources),
   unavailable |-> Cardinality(Candidates) - Len(totals)]

\* The buckets that were resolved, in the order of the names.
Resolved ==
  {q \in SetToSeqs({i \in Candidates : result[i] # {}}) :
     \A k, l \in DOMAIN q : k < l => q[k] < q[l]}

ShowBuckets(requested) ==
  /\ service = "s3" /\ comparison = Nothing
  /\ turn \notin Candidates /\ \A w \in Worker : task[w] = 0
  /\ \E q \in Resolved :
       comparison' = Comparison("compared", requested, [k \in DOMAIN q |-> Total(q[k], result[q[k]])])
  /\ UNCHANGED <<service, custom, resources, turn, task, result>>

\* The overviews of queues and tables: each is asked at the connection's region.
ShowOthers(requested) ==
  /\ service = "other" /\ comparison = Nothing
  /\ comparison' = Comparison("compared", requested,
       [i \in Candidates |-> [resource |-> i, region |-> Near, inputs |-> {"itself"}]])
  /\ UNCHANGED <<service, custom, resources, turn, task, result>>

OverviewNext ==
  \/ \E w \in Worker : Take(w) \/ Found(w) \/ OverviewAborted(w)
  \/ \E requested \in Range(TopLimits) \union {0, 1} : ShowBuckets(requested) \/ ShowOthers(requested)

-----------------------------------------------------------------------------
\* However the workers overtake one another, every resource that is compared is
\* there once, in the order of the names, with its own types, asked at its own
\* region; all others that were evaluated are counted as unavailable, and no
\* more are displayed than there are.
EachIsCompared ==
  comparison.shown = "compared" =>
    LET totals == comparison.totals
    IN  /\ \A k \in DOMAIN totals :
             LET i == totals[k].resource
             IN  /\ i <= MaxCandidates
                 /\ service = "s3" => /\ totals[k].inputs = resources[i].types
                                      /\ totals[k].inputs # {}
                                      /\ ~custom => totals[k].region = resources[i].region
        /\ \A k, l \in DOMAIN totals : k < l => totals[k].resource < totals[l].resource
        /\ comparison.evaluated = Len(totals) + comparison.unavailable
        /\ comparison.limit <= Len(totals) /\ (totals # <<>> => comparison.limit > 0)
=============================================================================
