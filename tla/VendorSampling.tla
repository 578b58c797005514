--------------------------- MODULE VendorSampling ---------------------------
(***************************************************************************)
(* The dashboard providers of the other vendors, whose sample is made of   *)
(* several queries, one after the other, while other samples and the       *)
(* server go on; and what the accumulator makes of the batches:            *)
(*                                                                         *)
(*   postgres   one row has the counter and the time of the last reset     *)
(*   sqlserver  the start time comes with the performance counters, the    *)
(*              waits come later; each query only if it is asked for       *)
(*   oracle     the startup time comes first, then the sampled metrics,    *)
(*              native rates or counters as the context says, then waits   *)
(*   sqlite     data_version is compared with the one seen before          *)
(*                                                                         *)
(* DashboardSampling models MySQL, whose sample is one query, with timers  *)
(* and sessions.  One metric of a query stands for all of them.            *)
(***************************************************************************)
EXTENDS Integers, Sequences, FiniteSets

CONSTANTS Vendors,      \* the vendors to look at
          MaxSamples(_), \* bound: samples asked of a vendor
          Wanted,       \* the sets of metrics a sample may be asked for
          MaxResets,    \* bound: restarts, or resets of the statistics
          MaxChanges,   \* bound: work of the server, changes of the file
          MaxChecks     \* bound: checks of the capabilities

Metric  == {"counters", "waits"}
Unknown == -1

VARIABLES vendor,
          life,         \* which life of its statistics the server is in
          work,         \* what it has counted in this life
          reads,        \* the queries answered so far, which is the time
          context,      \* Oracle: contextByResourceKey
          resolved,     \* the measurement the accumulator was built with
          checks,       \* counter
          known,        \* epochByResourceKey
          seen,         \* previousDataVersionByResourceKey
          sample,       \* the calls of collectSample
          asked,        \* ... and their number
          last,         \* the accumulator: the sequence it is at,
          previous,     \* the observations before
          points,       \* and the points it has made last
          switched      \* history: the context has changed under the dashboard

nvars == <<vendor, life, work, reads, context, resolved, checks, known, seen,
           sample, asked, last, previous, points, switched>>

Waiting(c) == sample[c].phase = "collecting"

Idle == [phase |-> "idle", metrics |-> {}, native |-> FALSE, todo |-> <<>>,
         epoch |-> Unknown, before |-> Unknown, version |-> Unknown,
         got |-> [m \in Metric |-> {}], changed |-> "unknown",
         alone |-> TRUE, blind |-> TRUE]

Init ==
  /\ vendor \in Vendors
  /\ life = 0 /\ work = 0 /\ reads = 0
  /\ context = "none" /\ resolved = "none" /\ checks = 0
  /\ known = Unknown /\ seen = Unknown
  /\ sample = [c \in 1 .. MaxSamples(vendor) |-> Idle] /\ asked = 0
  /\ last = 0 /\ previous = [m \in Metric |-> {}] /\ points = {}
  /\ switched = FALSE

-----------------------------------------------------------------------------
\* The server: it works, or somebody changes the SQLite file; it restarts, or
\* somebody resets the statistics of Postgres.
Work ==
  /\ work < MaxChanges /\ work' = work + 1
  /\ UNCHANGED <<vendor, life, reads, context, resolved, checks, known, seen,
                 sample, asked, last, previous, points, switched>>

Reset ==
  /\ vendor # "sqlite" /\ life < MaxResets
  /\ life' = life + 1 /\ work' = 0
  /\ UNCHANGED <<vendor, reads, context, resolved, checks, known, seen, sample,
                 asked, last, previous, points, switched>>

\* Oracle's checkCapabilities finds that native metrics can be read, or not (any
\* more); it may also find what it found before.
CheckCapabilities ==
  /\ vendor = "oracle" /\ checks < MaxChecks /\ checks' = checks + 1
  /\ context' \in {"native", "sysstat"} \ {context}
  /\ switched' = (switched \/ resolved \notin {"none", context'})
  /\ UNCHANGED <<vendor, life, work, reads, resolved, known, seen, sample, asked,
                 last, previous, points>>

\* resolveDashboard: the definition has one version, whatever the context is.
ResolveDashboard ==
  /\ vendor = "oracle" /\ context # "none" /\ resolved = "none"
  /\ resolved' = context
  /\ UNCHANGED <<vendor, life, work, reads, context, checks, known, seen, sample,
                 asked, last, previous, points, switched>>

-----------------------------------------------------------------------------
\* The queries of a sample of these metrics.
Queries(metrics) ==
  LET wanted(m) == IF m \in metrics THEN <<m>> ELSE <<>> IN
  CASE vendor = "postgres"  -> <<"counters">>
    [] vendor = "sqlserver" -> wanted("counters") \o wanted("waits")
    [] vendor = "sqlite"    -> <<"version", "modes">>
    [] vendor = "oracle"    ->
         <<"sysstat">>
           \o (IF context = "native" THEN wanted("counters") ELSE <<>>)
           \o wanted("waits")

\* The epoch until a query has read it: that of the last sample, if any.
EpochAtStart == IF vendor \in {"sqlserver", "oracle"} THEN known ELSE Unknown

\* collectSample up to its first query.  Oracle refuses without a context.
Collect(metrics) ==
  /\ asked < MaxSamples(vendor) /\ asked' = asked + 1
  /\ vendor \in {"postgres", "sqlite"} => "counters" \in metrics
  /\ vendor = "oracle" => context # "none" /\ resolved # "none"
  /\ sample' = [sample EXCEPT ![asked + 1] =
       [Idle EXCEPT !.phase = "collecting", !.metrics = metrics,
                    !.native = (context = "native"), !.todo = Queries(metrics),
                    !.epoch = EpochAtStart, !.before = seen,
                    !.alone = \A c \in DOMAIN sample : ~Waiting(c)]]
  /\ UNCHANGED <<vendor, life, work, reads, context, resolved, checks, known, seen,
                 last, previous, points, switched>>

\* What a query reads for a metric; epoch and the rest are added with the batch.
Read(kind, late) == {[value |-> work, kind |-> kind, life |-> life, at |-> reads + 1,
                      late |-> late, epoch |-> Unknown, blind |-> TRUE]}

\* The epoch has been read, in this life.
Epoch(c) == [sample[c] EXCEPT !.todo = Tail(@), !.epoch = life, !.blind = FALSE]

\* A metric read after the epoch, perhaps in another life.
Late(c) == ~sample[c].blind /\ sample[c].epoch # life
After(c, m, kind) == [sample[c] EXCEPT !.todo = Tail(@), !.got[m] = Read(kind, Late(c))]

\* What the next query of a sample, q, finds.
\* Postgres: a row of pg_stat_database with the time of the last reset.
DatabaseRow(c) == [Epoch(c) EXCEPT !.got["counters"] = Read("counter", FALSE)]

\* SQL Server: the performance counters with the start time.
PerformanceCounters(c) == [Epoch(c) EXCEPT !.got["counters"] = Read("counter", FALSE)]

\* Oracle: V$SYSSTAT with the startup time; its counters are taken if there are
\* no native metrics.
SystemStatistics(c) ==
  [Epoch(c) EXCEPT !.got["counters"] =
     IF "counters" \in sample[c].metrics /\ ~sample[c].native
     THEN Read("counter", FALSE) ELSE {}]

\* Oracle: the native metrics, which are rates.
NativeMetrics(c) == After(c, "counters", "rate")

\* The time waited, of SQL Server and Oracle.
Waits(c) == After(c, "waits", "counter")

\* SQLite: data_version, and the PRAGMAs after it.
Pragma(c, q) == [sample[c] EXCEPT !.todo = Tail(@),
                                  !.version = IF q = "version" THEN work ELSE @]

Found(c, q) ==
  CASE q = "counters" /\ vendor = "postgres"  -> DatabaseRow(c)
    [] q = "counters" /\ vendor = "sqlserver" -> PerformanceCounters(c)
    [] q = "counters" /\ vendor = "oracle"    -> NativeMetrics(c)
    [] q = "sysstat"                          -> SystemStatistics(c)
    [] q = "waits"                            -> Waits(c)
    [] q \in {"version", "modes"}             -> Pragma(c, q)

\* The next query of a sample is answered.
Answered(c) ==
  /\ Waiting(c) /\ sample[c].todo # <<>>
  /\ reads' = reads + 1
  /\ LET q == Head(sample[c].todo) IN
       /\ sample' = [sample EXCEPT ![c] = Found(c, q)]
       /\ known' = IF q = "sysstat" \/ (q = "counters" /\ vendor = "sqlserver")
                   THEN life ELSE known
  /\ UNCHANGED <<vendor, life, work, context, resolved, checks, seen, asked, last,
                 previous, points, switched>>

\* It fails: what it would have read is missing from the batch.  The reads of a
\* SQLite database fail together.
Failed(c) ==
  /\ Waiting(c) /\ sample[c].todo # <<>>
  /\ sample' = [sample EXCEPT ![c].todo = IF vendor = "sqlite" THEN <<>> ELSE Tail(@),
                              ![c].version = Unknown]
  /\ UNCHANGED <<vendor, life, work, reads, context, resolved, checks, known, seen,
                 asked, last, previous, points, switched>>

\* Mutant: the version is remembered only if there was one before.
Remembered_Late(c) == IF sample[c].before = Unknown THEN seen ELSE sample[c].version

\* SQLite remembers what this sample has read, or nothing if it could not.
Remembered(c) == sample[c].version

\* external_change_detected: 1 if the version differs from the one before, 0 if
\* there was none.
Changed(c) ==
  CASE sample[c].version = Unknown -> "unknown"
    [] sample[c].before \in {Unknown, sample[c].version} -> "no"
    [] OTHER -> "yes"

\* The last query is done: the batch is made, and dropped if the facade's timer or
\* the abort signal has settled the call before.
Collected(c, given) ==
  /\ Waiting(c) /\ sample[c].todo = <<>>
  /\ sample' = [sample EXCEPT ![c] =
       IF given THEN [@ EXCEPT !.phase = "resolved", !.changed = Changed(c)]
       ELSE [Idle EXCEPT !.phase = "dropped"]]
  /\ seen' = IF vendor = "sqlite" THEN Remembered(c) ELSE seen
  /\ UNCHANGED <<vendor, life, work, reads, context, resolved, checks, known, asked,
                 last, previous, points, switched>>

-----------------------------------------------------------------------------
\* Mutant: a new epoch is taken for a reset only if the counter falls as well.
Differ_Falling(p, o) == p.epoch # o.epoch /\ o.value < p.value

\* buildInterval: the epochs are strings, "unknown" is one of them.
Differ(p, o) == p.epoch # o.epoch

\* Mutant: a counter that stands still is taken for one that was reset.
Status_IdleIsReset(m, before, o) ==
  IF resolved = "native" /\ m = "counters" THEN "ok"
  ELSE IF before = {} THEN "warming-up"
  ELSE LET p == CHOOSE x \in before : TRUE IN
       IF Differ(p, o) \/ o.value <= p.value THEN "reset"
       ELSE IF o.at <= p.at THEN "invalid-time" ELSE "ok"

\* toPoint, as the measurement of the resolved metric has it.
Status(m, before, o) ==
  IF resolved = "native" /\ m = "counters" THEN "ok"
  ELSE IF before = {} THEN "warming-up"
  ELSE LET p == CHOOSE x \in before : TRUE IN
       IF Differ(p, o) \/ o.value < p.value THEN "reset"
       ELSE IF o.at <= p.at THEN "invalid-time" ELSE "ok"

\* The observations of a batch, with what the batch says of all of them.
Batch(c, m) == {[r EXCEPT !.epoch = sample[c].epoch, !.blind = sample[c].blind] :
                  r \in IF m \in sample[c].metrics THEN sample[c].got[m] ELSE {}}

\* append(): the client hands the batches over in the order it asked for them,
\* but for those it has given up.
AppendBatch(c) ==
  /\ sample[c].phase = "resolved" /\ c > last
  /\ last' = c
  /\ sample' = [sample EXCEPT ![c] = [Idle EXCEPT !.phase = "shown", !.alone = sample[c].alone,
                                       !.version = sample[c].version,
                                       !.changed = sample[c].changed]]
  /\ previous' = [m \in Metric |-> IF Batch(c, m) # {} THEN Batch(c, m) ELSE previous[m]]
  /\ points' =
       UNION {{[metric |-> m, status |-> Status(m, previous[m], o), from |-> previous[m],
                to |-> o] : o \in Batch(c, m)} : m \in Metric}
  /\ UNCHANGED <<vendor, life, work, reads, context, resolved, checks, known, seen,
                 asked, switched>>

Next ==
  \/ Work \/ Reset \/ CheckCapabilities \/ ResolveDashboard
  \/ \E metrics \in Wanted : Collect(metrics)
  \/ \E c \in DOMAIN sample :
       Answered(c) \/ Failed(c) \/ AppendBatch(c)
       \/ \E given \in BOOLEAN : Collected(c, given)

-----------------------------------------------------------------------------
\* The epoch of these observations may not be that of the life they were read in:
\* their sample did not read it, or the server was reset between two queries.
Unsure(p, o) == p.blind \/ o.blind \/ p.late \/ o.late

\* A value of a counter is its growth in one life of the statistics, between two
\* reads in this order, unless the epoch was unsure or Oracle's context changed
\* under a dashboard that was resolved for another one.  Postgres, which reads
\* both in one row, is never unsure.
GrowthOfOneLife ==
  \A x \in points : x.status = "ok" /\ x.to.kind = "counter" =>
    \/ switched
    \/ \E p \in x.from :
         /\ p.at < x.to.at /\ p.value <= x.to.value
         /\ p.life = x.to.life \/ (Unsure(p, x.to) /\ vendor # "postgres")

\* A counter is shown as reset only if it was, but for an epoch that was unsure,
\* a sample that overtook another, and a context that changed.
ResetsAreReal ==
  \A x \in points : \A p \in x.from : x.status = "reset" =>
    \/ p.life < x.to.life \/ x.to.at < p.at \/ switched
    \/ (Unsure(p, x.to) /\ vendor # "postgres")

\* What a point of Oracle shows is of the kind its dashboard was resolved for,
\* unless the context has changed since.
KindsMatch ==
  \A x \in points : vendor = "oracle" /\ ~switched /\ x.metric = "counters" =>
    (x.to.kind = "rate") = (resolved = "native")

\* SQLite: of two samples one after the other, with no other one next to them,
\* the second says whether the file has changed in between; after one that was
\* given up or has failed it does not.
ChangesAreSeen ==
  \A c \in DOMAIN sample \ {1} :
    LET d == sample[c - 1] IN
    /\ vendor = "sqlite" /\ {sample[c].phase, d.phase} \subseteq {"resolved", "shown"}
    /\ d.alone /\ sample[c].alone /\ d.version # Unknown /\ sample[c].version # Unknown
    => sample[c].changed = (IF sample[c].version = d.version THEN "no" ELSE "yes")
=============================================================================
