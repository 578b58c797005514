------------------------- MODULE CloudWatchMetrics -------------------------
(***************************************************************************)
(* How the panels of a metric dashboard are collected: the queries of each *)
(* regional endpoint in batches, a batch page by page, endpoints next to   *)
(* each other (collectAcrossMetricEndpoints, CloudWatchMetricsTransport);  *)
(* then the derived series (deriveMetricSeries).                           *)
(***************************************************************************)
EXTENDS Naturals

CONSTANTS Endpoint,
          Batches(_),  \* the batches of an endpoint: a sequence of sets of queries
          Time,        \* the timestamps of the range
          Inputs       \* the queries the derived series is made of

Query == UNION {UNION {Batches(e)[i] : i \in DOMAIN Batches(e)} : e \in Endpoint}

VARIABLES truth,       \* the points CloudWatch has
          batch,       \* the batch of an endpoint that is asked for
          points,      \* accumulator.points: what has been sent
          status,      \* accumulator.status, "none" at first
          errored,     \* history: batches with a request that failed
          panel        \* the panel as it is shown

wvars == <<truth, batch, points, status, errored, panel>>

NoPanel == [state |-> "open", status |-> [q \in Query |-> "none"],
            derived |-> "none", numeric |-> {}]

Init ==
  /\ truth \in [Query -> SUBSET Time]
  /\ batch = [e \in Endpoint |-> 1]
  /\ points = [q \in Query |-> {}]
  /\ status = [q \in Query |-> "none"]
  /\ errored = {} /\ panel = NoPanel

-----------------------------------------------------------------------------
(***************************************************************************)
(* CloudWatchMetricsTransport.collect                                      *)
(***************************************************************************)
Rank(s) == CASE s = "failed" -> 6 [] s = "forbidden" -> 5 [] s = "unavailable" -> 4
             [] s = "partial" -> 3 [] s = "no-data" -> 2 [] s = "complete" -> 1
             [] OTHER -> 0

\* mergeStatus
MergeStatus(current, next) == IF Rank(next) > Rank(current) THEN next ELSE current

\* mapResultStatus
ResultStatus(code, P) ==
  CASE code = "PartialData"   -> "partial"
    [] code = "InternalError" -> "failed"
    [] code = "Forbidden"     -> "forbidden"
    [] OTHER -> IF P # {} THEN "complete" ELSE "no-data"

\* What the service may send of a query with one page: it says Complete once it
\* has sent every point, and may name the query again after that.
Results(q, lastPage) ==
  {x \in [code : {"Complete", "PartialData", "InternalError"},
          points : SUBSET (truth[q] \ points[q])] :
     /\ x.code = "Complete" => points[q] \union x.points = truth[q]
     /\ lastPage => x.code # "PartialData"}

InBatch(e) == Batches(e)[batch[e]]
Open(e)    == panel.state = "open" /\ batch[e] \in DOMAIN Batches(e)
Turned(e)  == batch' = [batch EXCEPT ![e] = @ + 1]

\* A page of a batch, the last one or one with a NextToken.
Page(e) ==
  /\ Open(e)
  /\ \E more \in BOOLEAN :
     \E x \in [InBatch(e) -> UNION {Results(q, ~more) : q \in InBatch(e)}] :
       /\ \A q \in InBatch(e) : x[q] \in Results(q, ~more)
       /\ more => \E q \in InBatch(e) : x[q].points # {} \/ status[q] = "none"
       /\ points' = [q \in Query |-> IF q \in InBatch(e)
                                     THEN points[q] \union x[q].points ELSE points[q]]
       /\ status' = [q \in Query |->
                       IF q \in InBatch(e)
                       THEN MergeStatus(status[q], ResultStatus(x[q].code, x[q].points))
                       ELSE status[q]]
       /\ IF more THEN UNCHANGED batch ELSE Turned(e)
  /\ UNCHANGED <<truth, errored, panel>>

\* A request that fails ends its batch, and the next batch is asked for.
RequestFails(e) ==
  /\ Open(e)
  /\ \E s \in {"forbidden", "unavailable", "failed"} :
       status' = [q \in Query |-> IF q \in InBatch(e) THEN MergeStatus(status[q], s)
                                  ELSE status[q]]
  /\ errored' = errored \union InBatch(e)
  /\ Turned(e)
  /\ UNCHANGED <<truth, points, panel>>

\* An abort rejects the transport of an endpoint, and with it the whole panel.
Abort(e) ==
  /\ Open(e)
  /\ panel' = [NoPanel EXCEPT !.state = "aborted"]
  /\ UNCHANGED <<truth, batch, points, status, errored>>

-----------------------------------------------------------------------------
(***************************************************************************)
(* The panel                                                               *)
(***************************************************************************)
\* Mutant: a query whose last page is empty has no data.
FinalStatus_Unfixed(q) == IF status[q] = "none" THEN "no-data" ELSE status[q]

\* The status a series leaves the transport with.
FinalStatus(q) ==
  CASE status[q] \in {"none", "no-data"} /\ points[q] # {} -> "complete"
    [] status[q] = "none" -> "no-data"
    [] OTHER -> status[q]

\* A derived point needs all its inputs at that time.
Numeric == {t \in Time : Inputs # {} /\ \A q \in Inputs : t \in points[q]}

Severe == {q \in Inputs : FinalStatus(q) \in {"failed", "forbidden", "unavailable"}}

\* Mutant: an input without data is taken for zero.
DerivedStatus_NoDataIsZero ==
  IF Severe = Inputs THEN "failed"
  ELSE IF Severe # {} \/ \E q \in Inputs : FinalStatus(q) = "partial" THEN "partial"
  ELSE IF \E q \in Inputs : points[q] # {} THEN "complete" ELSE "no-data"

\* derivedStatus
DerivedStatus ==
  CASE Inputs = {} -> "unavailable"
    [] Inputs # {} /\ Severe = Inputs ->
         IF \E q \in Inputs : FinalStatus(q) = "failed" THEN "failed"
         ELSE IF \E q \in Inputs : FinalStatus(q) = "forbidden" THEN "forbidden"
         ELSE "unavailable"
    [] Severe # Inputs ->
         LET S == {FinalStatus(q) : q \in Inputs} IN
         IF Severe # {} \/ "partial" \in S \/ ("no-data" \in S /\ S # {"no-data"})
         THEN "partial"
         ELSE IF Numeric # {} THEN "complete" ELSE "no-data"

\* All endpoints have answered.
Collect ==
  /\ panel.state = "open"
  /\ \A e \in Endpoint : batch[e] \notin DOMAIN Batches(e)
  /\ panel' = [state |-> "shown", status |-> [q \in Query |-> FinalStatus(q)],
               derived |-> DerivedStatus, numeric |-> Numeric]
  /\ UNCHANGED <<truth, batch, points, status, errored>>

Next == (\E e \in Endpoint : Page(e) \/ RequestFails(e) \/ Abort(e)) \/ Collect

-----------------------------------------------------------------------------
\* A series that calls itself complete has every point CloudWatch has, one
\* without data has none, over any number of pages; and a request that failed
\* spoils the series of its own batch only.
SeriesAreHonest ==
  panel.state = "shown" => \A q \in Query :
    /\ panel.status[q] = "complete" => points[q] = truth[q] /\ points[q] # {}
    /\ panel.status[q] = "no-data"  => truth[q] = {}
    /\ panel.status[q] \in {"forbidden", "unavailable"} => q \in errored
    /\ q \in errored => panel.status[q] \in {"failed", "forbidden", "unavailable"}

\* A derived series is complete only if each of its inputs is, and its points
\* are those where all inputs have one.
DerivedIsHonest ==
  panel.state = "shown" /\ panel.derived = "complete" =>
    /\ \A q \in Inputs : panel.status[q] = "complete"
    /\ panel.numeric = {t \in Time : \A q \in Inputs : t \in truth[q]}
    /\ panel.numeric # {}
=============================================================================
