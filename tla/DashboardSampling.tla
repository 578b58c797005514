-------------------------- MODULE DashboardSampling --------------------------
(***************************************************************************)
(* The sampling of the RDB dashboard on MySQL, from the counters of the    *)
(* server to the points of a chart: collectRdbDashboardSample of           *)
(* RDSBaseDriver with its timeout, the query of MySQLRdbDashboardProvider, *)
(* which tells a restart of the server by its uptime, and the              *)
(* RdbSampleAccumulator, which makes points out of what it read.           *)
(*                                                                         *)
(* Two counters stand for all: the reads and the read requests of the      *)
(* buffer pool, and the ratio derived from them.  The server and the       *)
(* client that samples are external; one clock, in seconds, serves both.   *)
(***************************************************************************)
EXTENDS Integers, Sequences, FiniteSets, SequencesExt

CONSTANTS MaxPoints,    \* maxPointsPerSeries
          Selection,    \* the metrics a sample may be asked for
          MaxCalls,     \* bound: samples asked for
          MaxLine,      \* bound: queries on the connection at a time
          MaxSession,   \* bound: sampling sessions
          MaxTime,      \* bound: seconds
          MaxWork,      \* bound: steps of the server's work
          MaxRestarts   \* bound: restarts of the server

ASSUME SamplingAssumption ==
  /\ Selection \subseteq SUBSET {"reads", "requests"} \ {{}}
  /\ MaxPoints \in Nat \ {0} /\ MaxCalls \in Nat /\ MaxLine \in Nat /\ MaxSession \in Nat \ {0}
  /\ MaxTime \in Nat /\ MaxWork \in Nat /\ MaxRestarts \in Nat

Metric == {"reads", "requests"}
Call == 1..MaxCalls
Time == 0..MaxTime
Count == 0..MaxWork
\* What the query reads of the server; boot and sequence are history.
Reading == [boot : 0..MaxRestarts, uptime : Time, reads : Count, requests : Count]
\* A reading as the accumulator keeps it, with its batch's epoch; the session is
\* history.
Observation == [reading : Reading, at : Time, generation : Nat, sequence : Call,
                session : 1..MaxSession]
\* What is not there is an empty set.
Maybe(S) == {s \in SUBSET S : Cardinality(s) <= 1}
Batch == [session : 1..MaxSession, sequence : Call, metrics : SUBSET Metric,
          observation : Maybe(Observation)]
Status == {"ok", "null", "failed", "unavailable", "reset", "warming-up", "invalid-time"}
\* A point, with the observations it was made of.
Point == [status : Status, from : [Metric -> Maybe(Observation)], to : Maybe(Observation)]

VARIABLES now, boot, count, work,      \* the server
          call, session, asked,        \* the client's calls
          line,                        \* queries on the connection
          epoch,                       \* epochByResourceKey
          held,                        \* the accumulator: its session
          previous, series, ratio,     \* its last observations, its points
          markers, diagnostics         \* its reset markers and diagnostics

serverVars == <<now, boot, count, work>>
clientVars == <<call, session, asked>>
accumulatorVars == <<held, previous, series, ratio, markers, diagnostics>>
vars == <<serverVars, clientVars, line, epoch, accumulatorVars>>

TypeOK ==
  /\ now \in Time /\ boot \in [number : 0..MaxRestarts, at : Time]
  /\ count \in [Metric -> Count] /\ work \in 0..MaxWork
  /\ call \in [Call -> [phase : {"none", "pending", "resolved", "done"},
                        session : 1..MaxSession, metrics : SUBSET Metric,
                        batch : Maybe(Batch)]]
  /\ session \in 1..MaxSession /\ asked \in 0..MaxCalls
  /\ line \in Seq([call : Call, lost : BOOLEAN])
  /\ epoch \in [uptime : Time \union {-1}, generation : Nat]
  /\ held \in [session : 0..MaxSession, last : 0..MaxCalls]
  /\ previous \in [Metric -> Maybe(Observation)]
  /\ series \in [Metric -> Seq(Point)] /\ ratio \in Seq(Point)
  /\ markers \in Seq(Metric \X Call) /\ diagnostics \in Seq(Call)
  /\ \A m \in Metric : Len(series[m]) <= MaxPoints
  /\ Len(ratio) <= MaxPoints /\ Len(markers) <= MaxPoints /\ Len(diagnostics) <= MaxPoints

Nothing == [m \in Metric |-> {}]
Fresh == [phase |-> "none", session |-> 1, metrics |-> {}, batch |-> {}]
Done == [Fresh EXCEPT !.phase = "done"]

Init ==
  /\ now = 0 /\ boot = [number |-> 0, at |-> 0]
  /\ count = [m \in Metric |-> 0] /\ work = 0
  /\ call = [c \in Call |-> Fresh]
  /\ session = 1 /\ asked = 0
  /\ line = <<>>
  /\ epoch = [uptime |-> -1, generation |-> 0]
  /\ held = [session |-> 0, last |-> 0]
  /\ previous = Nothing
  /\ series = [m \in Metric |-> <<>>] /\ ratio = <<>>
  /\ markers = <<>> /\ diagnostics = <<>>

-----------------------------------------------------------------------------
(***************************************************************************)
(* The server                                                              *)
(***************************************************************************)
\* Bound: the server goes on until the last query it is sent has ended.
Queried == asked < MaxCalls \/ line # <<>>

Tick ==
  /\ Queried /\ now < MaxTime
  /\ now' = now + 1
  /\ UNCHANGED <<boot, count, work, clientVars, line, epoch, accumulatorVars>>

\* A read request of the buffer pool goes to the disk or not.
Serve ==
  /\ Queried /\ work < MaxWork /\ work' = work + 1
  /\ \E disk \in {0, 1} :
       count' = [reads |-> count.reads + disk, requests |-> count.requests + 1]
  /\ UNCHANGED <<now, boot, clientVars, line, epoch, accumulatorVars>>

\* A restart breaks the connection: what was sent on it fails.
Restart ==
  /\ Queried /\ boot.number < MaxRestarts
  /\ boot' = [number |-> boot.number + 1, at |-> now]
  /\ count' = [m \in Metric |-> 0]
  /\ line' = [i \in DOMAIN line |-> [line[i] EXCEPT !.lost = TRUE]]
  /\ UNCHANGED <<now, work, clientVars, epoch, accumulatorVars>>

\* SHOW GLOBAL STATUS
ServerStatus == [boot |-> boot.number, uptime |-> now - boot.at,
                 reads |-> count.reads, requests |-> count.requests]

-----------------------------------------------------------------------------
(***************************************************************************)
(* A call of collectRdbDashboardSample                                     *)
(***************************************************************************)
\* The client asks for the next sample of its session, and the query is sent.
Collect(metrics) ==
  /\ asked < MaxCalls /\ Len(line) < MaxLine
  /\ asked' = asked + 1
  /\ call' = [call EXCEPT ![asked + 1] =
       [phase |-> "pending", session |-> session, metrics |-> metrics, batch |-> {}]]
  /\ line' = Append(line, [call |-> asked + 1, lost |-> FALSE])
  /\ UNCHANGED <<serverVars, session, epoch, accumulatorVars>>

\* The client starts another sampling session, after one with samples.
NewSession ==
  /\ session < MaxSession /\ asked > 0
  /\ session' = session + 1
  /\ UNCHANGED <<serverVars, call, asked, line, epoch, accumulatorVars>>

\* The timer or the abort signal settles the call; the query goes on.
TimedOut(c) ==
  /\ call[c].phase = "pending"
  /\ call' = [call EXCEPT ![c] = Done]
  /\ UNCHANGED <<serverVars, session, asked, line, epoch, accumulatorVars>>

\* Mutant: a failed query makes the provider forget the uptime.
ResolveEpoch_Forgets(uptime) ==
  LET u == IF uptime = {} THEN -1 ELSE CHOOSE t \in uptime : TRUE
  IN  [uptime |-> u,
       generation |-> IF uptime # {} /\ epoch.uptime >= 0 /\ u < epoch.uptime
                      THEN epoch.generation + 1 ELSE epoch.generation]

\* resolveEpoch: an uptime below the last one is a new generation.  The first
\* call finds no entry, which comes to an uptime of -1.
ResolveEpoch(uptime) ==
  LET u == IF uptime = {} THEN epoch.uptime ELSE CHOOSE t \in uptime : TRUE
  IN  [uptime |-> u,
       generation |-> IF uptime # {} /\ epoch.uptime >= 0 /\ u < epoch.uptime
                      THEN epoch.generation + 1 ELSE epoch.generation]

\* The next query ends: the server answers it with what it counts now, or it
\* fails.  The provider makes its batch, and the call resolves to it unless it
\* was settled before.
Deliver(reading) ==
  /\ line # <<>>
  /\ Head(line).lost => reading = {}
  /\ line' = Tail(line)
  /\ LET c == Head(line).call
         next == ResolveEpoch({r.uptime : r \in reading})
     IN  /\ epoch' = next
         /\ call' = IF call[c].phase = "pending"
              THEN [call EXCEPT ![c].phase = "resolved", ![c].batch =
                {[session |-> call[c].session, sequence |-> c, metrics |-> call[c].metrics,
                  observation |-> {[reading |-> r, at |-> now, sequence |-> c, session |-> call[c].session,
                                    generation |-> next.generation] : r \in reading}]}]
              ELSE call
  /\ UNCHANGED <<serverVars, session, asked, accumulatorVars>>

-----------------------------------------------------------------------------
(***************************************************************************)
(* RdbSampleAccumulator                                                    *)
(***************************************************************************)
\* Mutant: a batch of the session is accepted in any order.
InOrder_Any(b) == TRUE

\* assertBatchOrder: a batch of the session must come after the last one.
InOrder(b) == held.session # b.session \/ b.sequence > held.last

\* Mutant: the first batch of a session is compared with the last of another.
Before_KeepsSession(b) == previous

\* The observations before batch b: another session begins from nothing.
Before(b) == IF held.session = b.session THEN previous ELSE Nothing

\* pushPoint, trimHistoricalMetadata: the newest MaxPoints stay.
Pushed(points, point) ==
  LET all == Append(points, point)
  IN  IF Len(all) > MaxPoints THEN Tail(all) ELSE all

\* buildInterval and toPoint: what one counter has become between p and o.
CounterStatus(m, before, o) ==
  IF before = {} THEN "warming-up"
  ELSE LET p == CHOOSE x \in before : TRUE
       IN  IF p.generation # o.generation \/ o.reading[m] < p.reading[m] THEN "reset"
           ELSE IF o.at <= p.at THEN "invalid-time" ELSE "ok"

PointStatus(m, before, observed) ==
  IF observed = {} THEN "failed"
  ELSE CounterStatus(m, before, CHOOSE x \in observed : TRUE)

\* Mutant: the ratio is computed across a reset.
RatioStatus_AcrossReset(before, b) ==
  LET s == {PointStatus(m, before[m], b.observation) : m \in Metric}
      order == <<"failed", "warming-up", "invalid-time">>
      wrong == {i \in DOMAIN order : order[i] \in s}
  IN  IF b.metrics # Metric THEN "unavailable"
      ELSE IF wrong # {} THEN order[Min(wrong)]
      ELSE LET o == CHOOSE x \in b.observation : TRUE
               p == CHOOSE x \in before.requests : TRUE
           IN  IF o.reading.requests = p.reading.requests THEN "null" ELSE "ok"

\* appendDerived: the first thing that is wrong with one of the two, and no
\* value where there was no request.
RatioStatus(before, b) ==
  LET s == {PointStatus(m, before[m], b.observation) : m \in Metric}
      order == <<"failed", "reset", "warming-up", "invalid-time">>
      wrong == {i \in DOMAIN order : order[i] \in s}
  IN  IF b.metrics # Metric THEN "unavailable"
      ELSE IF wrong # {} THEN order[Min(wrong)]
      ELSE LET o == CHOOSE x \in b.observation : TRUE
               p == CHOOSE x \in before.requests : TRUE
           IN  IF o.reading.requests = p.reading.requests THEN "null" ELSE "ok"

\* append, of a batch that is in order.
Accumulated(b) ==
  LET fresh == held.session # b.session
      before == Before(b)
      status == [m \in Metric |-> PointStatus(m, before[m], b.observation)]
      kept(seq) == IF fresh THEN <<>> ELSE seq
      resets == SelectSeq(<<"reads", "requests">>,
                          LAMBDA m : m \in b.metrics /\ status[m] = "reset")
      point(s, from) == [status |-> s, from |-> from, to |-> b.observation]
  IN  /\ held' = [session |-> b.session, last |-> b.sequence]
      /\ previous' = [m \in Metric |->
           IF m \in b.metrics /\ b.observation # {} THEN b.observation ELSE before[m]]
      /\ series' = [m \in Metric |->
           IF m \in b.metrics
           THEN Pushed(kept(series[m]), point(status[m], [Nothing EXCEPT ![m] = before[m]]))
           ELSE kept(series[m])]
      /\ ratio' = IF "reads" \in b.metrics
                  THEN Pushed(kept(ratio), point(RatioStatus(before, b), before))
                  ELSE kept(ratio)
      /\ markers' = FoldLeft(LAMBDA s, m : Pushed(s, <<m, b.sequence>>), kept(markers), resets)
      /\ diagnostics' = IF b.observation = {} THEN Pushed(kept(diagnostics), b.sequence)
                        ELSE kept(diagnostics)

\* The client hands a batch to the accumulator, in whatever order it got them;
\* append throws when the batch is out of order.
AppendBatch(c) ==
  /\ call[c].phase = "resolved"
  /\ call' = [call EXCEPT ![c] = Done]
  /\ \A b \in call[c].batch :
       IF InOrder(b) THEN Accumulated(b) ELSE UNCHANGED accumulatorVars
  /\ UNCHANGED <<serverVars, session, asked, line, epoch>>

\* clear()
Clear ==
  /\ held.session # 0
  /\ held' = [session |-> 0, last |-> 0]
  /\ previous' = Nothing
  /\ series' = [m \in Metric |-> <<>>] /\ ratio' = <<>>
  /\ markers' = <<>> /\ diagnostics' = <<>>
  /\ UNCHANGED <<serverVars, clientVars, line, epoch>>

Next ==
  \/ Tick \/ Serve \/ Restart
  \/ \E metrics \in Selection : Collect(metrics)
  \/ NewSession \/ Clear
  \/ \E reading \in {{}, {ServerStatus}} : Deliver(reading)
  \/ \E c \in Call : TimedOut(c) \/ AppendBatch(c)

Spec == Init /\ [][Next]_vars

-----------------------------------------------------------------------------
(***************************************************************************)
(* Properties                                                              *)
(***************************************************************************)
Points(m) == {series[m][i] : i \in DOMAIN series[m]}

\* A restart that resolveEpoch cannot see: the uptime has caught up.
Missed(p, o) == p.reading.boot # o.reading.boot /\ p.reading.uptime <= o.reading.uptime

\* Rates: a point of a counter with a value is the growth of the counter of one
\* and the same server between two samples taken one after the other, whatever
\* samples failed, timed out or came late in between; but for a restart after
\* which the server has been up for longer than at the sample before.
Rates ==
  \A m \in Metric : \A point \in Points(m) : point.status = "ok" =>
    \A p \in point.from[m], o \in point.to :
      /\ p.sequence < o.sequence /\ p.at < o.at
      /\ p.reading.boot = o.reading.boot \/ Missed(p, o)

\* Ratios: the two counters of a ratio grew over one and the same interval and
\* the reads did not grow by more than the requests, so that the hit ratio lies
\* between 0 and 100; but for a missed restart, and for a sample that was asked
\* for one of the two only.
Ratios ==
  \A i \in DOMAIN ratio : ratio[i].status = "ok" =>
    \A p \in ratio[i].from.reads, q \in ratio[i].from.requests, o \in ratio[i].to :
      \/ Missed(p, o) \/ Missed(q, o)
      \/ p # q
      \/ o.reading.reads - p.reading.reads <= o.reading.requests - p.reading.requests

\* Resets: a counter is shown as reset only if the server was restarted between
\* its two samples.
Resets ==
  \A m \in Metric : \A point \in Points(m) : point.status = "reset" =>
    \A p \in point.from[m], o \in point.to : p.reading.boot < o.reading.boot

\* PointsAreTrue: a value on a chart is the growth of one counter in one life of
\* the server, a ratio is one of two growths over one interval, and what a chart
\* shows as a reset was one.
PointsAreTrue == Rates /\ Ratios /\ Resets

\* OneSession: however the batches of two sampling sessions come in, everything
\* a point is made of was sampled in the session that is shown.
OneSession ==
  LET points == {ratio[i] : i \in DOMAIN ratio} \union UNION {Points(m) : m \in Metric}
  IN  \A point \in points :
        \A o \in point.to \union UNION {point.from[m] : m \in Metric} :
          o.session = held.session
=============================================================================
