---------------------- MODULE DashboardSampling_proofs ----------------------
(***************************************************************************)
(* Proofs about DashboardSampling and, after it, VendorSampling,           *)
(* SchemaTree and MetricDashboards as parts of MC_Displays.                *)
(*                                                                         *)
(* DashboardSampling: for any number of calls, sessions, restarts and      *)
(* points, what the dashboard draws was sampled in the session it shows    *)
(* (OneSession), and a rate, a ratio or a reset it draws is one of the     *)
(* server's (Rates, Ratios, Resets).                                       *)
(*                                                                         *)
(* The argument is about the observations that are still in use: in a      *)
(* batch on its way to the accumulator, or kept by it as the last one of a *)
(* counter.  Each is dated against the server and the provider as they are *)
(* now, whatever came after it (Dated), so that the next one the server    *)
(* answers follows all of them (Follows); a point is then made of two that *)
(* follow one another (Sound), because the accumulator takes the batches   *)
(* of a session in the order of their calls (Previous).                    *)
(*                                                                         *)
(* SchemaTree: whatever DDL comes between the queries of a read, what a    *)
(* diagram draws was in the catalog when it was asked for, and nothing is  *)
(* missing if the catalog did not change (ReadOk), but for what the keys   *)
(* of the drivers' maps cannot tell apart (KeysOk).  MetricDashboards: the *)
(* series of a panel are those of its kind and of its subject (Proper),    *)
(* so that no two panels ask for the same one; a bucket is compared at its *)
(* own region (BucketInv), and an overview takes what was listed           *)
(* (OverviewInv).                                                          *)
(***************************************************************************)
EXTENDS MC_Displays, FiniteSetTheorems, WellFoundedInduction, TLAPS

Sample == [reading : [boot : Nat, uptime : Nat, reads : Nat, requests : Nat],
           at : Nat, generation : Nat, sequence : Nat, session : Nat]
Asked == [phase : {"none", "pending", "resolved", "done"}, session : Nat,
          metrics : SUBSET Metric,
          batch : SUBSET [session : Nat, sequence : Nat, metrics : SUBSET Metric,
                          observation : SUBSET Sample]]
Drawn == [status : Status, from : [Metric -> SUBSET Sample], to : SUBSET Sample]

\* No more than one.
Single(s) == \A x, y \in s : x = y

Typed ==
  /\ now \in Nat /\ boot \in [number : Nat, at : Nat] /\ boot.at <= now
  /\ count \in [Metric -> Nat]
  /\ call \in [Call -> Asked] /\ asked \in 0..MaxCalls /\ session \in Nat \ {0}
  /\ line \in Seq([call : Call, lost : BOOLEAN])
  /\ epoch \in [uptime : Nat \union {-1}, generation : Nat]
  /\ held \in [session : Nat, last : Nat]
  /\ previous \in [Metric -> SUBSET Sample]
  /\ series \in [Metric -> Seq(Drawn)] /\ ratio \in Seq(Drawn)

\* The queries are on the connection in the order of their calls.
Lined ==
  /\ \A i, k \in DOMAIN line : i < k => line[i].call < line[k].call
  /\ \A i \in DOMAIN line : line[i].call <= asked

\* A batch is of its call, and what it observed is of it.
Batched ==
  \A c \in Call :
    /\ call[c].session # 0 /\ Single(call[c].batch)
    /\ call[c].phase = "resolved" => call[c].batch # {}
    /\ \A b \in call[c].batch :
         /\ b.sequence = c /\ b.session # 0 /\ Single(b.observation)
         /\ \A o \in b.observation : o.sequence = c /\ o.session = b.session

\* What the accumulator compares the next batch with is of the session it shows
\* and of a call before.
Previous ==
  \A m \in Metric :
    /\ Single(previous[m])
    /\ \A o \in previous[m] : o.session = held.session /\ o.sequence <= held.last

\* The observations in use.
Seen(o) == \/ \E c \in Call : \E b \in call[c].batch : o \in b.observation
           \/ \E m \in Metric : o \in previous[m]

\* An observation against the queries on the connection, the provider and the
\* server, as they are now.
Dated(o) ==
  /\ \A i \in DOMAIN line : o.sequence < line[i].call
  /\ o.sequence <= asked
  /\ o.generation <= epoch.generation
  /\ o.generation = epoch.generation => o.reading.uptime <= epoch.uptime
  /\ o.reading.boot <= boot.number
  /\ o.reading.boot = boot.number =>
       /\ o.generation = epoch.generation /\ epoch.uptime <= now - boot.at
       /\ o.reading.reads <= count.reads
       /\ count.reads - o.reading.reads <= count.requests - o.reading.requests

\* One observation after another.
Follows(p, o) ==
  /\ p.reading.boot <= o.reading.boot
  /\ p.generation = o.generation => p.reading.uptime <= o.reading.uptime
  /\ p.reading.boot = o.reading.boot =>
       /\ p.generation = o.generation
       /\ p.reading.reads <= o.reading.reads
       /\ o.reading.reads - p.reading.reads <= o.reading.requests - p.reading.requests

Ordered ==
  /\ \A o \in Sample : Seen(o) => Dated(o)
  /\ \A p, o \in Sample : Seen(p) /\ Seen(o) /\ p.sequence < o.sequence => Follows(p, o)

\* A point is made of observations of the session shown, the one after the
\* other.
Sound(point, shown) ==
  /\ \A o \in point.to : o.session = shown
  /\ \A m \in Metric : \A p \in point.from[m] :
       /\ p.session = shown
       /\ \A o \in point.to : p.sequence < o.sequence /\ Follows(p, o)

\* What the status of a counter's point says of its two observations.
Counted(m, point) ==
  \A p \in point.from[m], o \in point.to :
    /\ point.status = "ok" => p.at < o.at /\ p.generation = o.generation
    /\ point.status = "reset" => \/ p.generation # o.generation
                                 \/ o.reading[m] < p.reading[m]

\* What the status of a ratio's point says of them.
Derived(point) ==
  point.status = "ok" =>
    \A p \in point.from["reads"], o \in point.to : p.generation = o.generation

Charted ==
  /\ \A m \in Metric : \A i \in DOMAIN series[m] :
       Sound(series[m][i], held.session) /\ Counted(m, series[m][i])
  /\ \A i \in DOMAIN ratio : Sound(ratio[i], held.session) /\ Derived(ratio[i])

IInv == Typed /\ Lined /\ Batched /\ Previous /\ Ordered /\ Charted

-----------------------------------------------------------------------------
(***************************************************************************)
(* Lemmas about the operators                                              *)
(***************************************************************************)
\* What CHOOSE takes of a set of one.
LEMMA Chosen ==
  ASSUME NEW s, Single(s), NEW x \in s
  PROVE  (CHOOSE t \in s : TRUE) = x
BY DEF Single

\* The least of the places of a list of four is one of them.
LEMMA MinOf ==
  ASSUME NEW s \in SUBSET (1..4), s # {}
  PROVE  Min(s) \in s
<1> DEFINE least == \E x \in s : \A y \in s : x <= y
<1>1. 1 \in s => least
  OBVIOUS
<1>2. 1 \notin s /\ 2 \in s => least
  <2> SUFFICES ASSUME 1 \notin s, 2 \in s PROVE \A y \in s : 2 <= y
    OBVIOUS
  <2> QED OBVIOUS
<1>3. 1 \notin s /\ 2 \notin s /\ 3 \in s => least
  <2>1. HAVE 1 \notin s /\ 2 \notin s /\ 3 \in s
  <2>2. \A y \in s : 3 <= y
    BY <2>1
  <2> QED BY <2>1, <2>2
<1>4. 1 \notin s /\ 2 \notin s /\ 3 \notin s => s = {4}
  <2>1. HAVE 1 \notin s /\ 2 \notin s /\ 3 \notin s
  <2>2. \A y \in s : y = 4
    BY <2>1
  <2> QED BY <2>2
<1>5. s = {4} => least
  OBVIOUS
<1>6. least
  <2> HIDE DEF least
  <2> QED BY <1>1, <1>2, <1>3, <1>4, <1>5
<1> QED BY <1>6 DEF Min

\* pushPoint adds its point and invents none.
LEMMA PushedShape ==
  ASSUME NEW S, NEW list \in Seq(S), NEW point \in S
  PROVE  /\ Pushed(list, point) \in Seq(S)
         /\ \A i \in DOMAIN Pushed(list, point) :
              \/ Pushed(list, point)[i] = point
              \/ \E k \in DOMAIN list : Pushed(list, point)[i] = list[k]
<1> DEFINE all == Append(list, point)
<1>1. /\ all \in Seq(S) /\ Len(all) = Len(list) + 1 /\ DOMAIN all = 1..(Len(list) + 1)
      /\ \A i \in 1..(Len(list) + 1) : all[i] = IF i = Len(list) + 1 THEN point ELSE list[i]
  OBVIOUS
<1>2. DOMAIN list = 1..Len(list) /\ Len(list) \in Nat
  OBVIOUS
<1>3. \A i \in DOMAIN all : all[i] = point \/ \E k \in DOMAIN list : all[i] = list[k]
  BY <1>1, <1>2
<1>4. all # <<>>
  BY <1>1
<1> HIDE DEF all
<1>5. /\ Tail(all) \in Seq(S) /\ DOMAIN Tail(all) = 1..Len(list)
      /\ \A i \in 1..Len(list) : Tail(all)[i] = all[i + 1]
  BY <1>1, <1>2, <1>4
<1>6. \A i \in DOMAIN Tail(all) :
        Tail(all)[i] = point \/ \E k \in DOMAIN list : Tail(all)[i] = list[k]
  <2> SUFFICES ASSUME NEW i \in DOMAIN Tail(all)
               PROVE  Tail(all)[i] = point \/ \E k \in DOMAIN list : Tail(all)[i] = list[k]
    OBVIOUS
  <2>1. i + 1 \in DOMAIN all /\ Tail(all)[i] = all[i + 1]
    BY <1>1, <1>2, <1>5
  <2> QED BY <2>1, <1>3
<1>7. Pushed(list, point) = IF Len(all) > MaxPoints THEN Tail(all) ELSE all
  BY DEF Pushed, all
<1>8. CASE Len(all) > MaxPoints
  BY <1>8, <1>7, <1>5, <1>6
<1>9. CASE ~(Len(all) > MaxPoints)
  BY <1>9, <1>7, <1>1, <1>3
<1> QED BY <1>8, <1>9

\* buildInterval: a value or a reset says how the two observations relate.
LEMMA StatusSays ==
  ASSUME NEW m \in Metric, NEW prior, NEW after, Single(prior), Single(after),
         NEW p \in prior, NEW o \in after, p \in Sample, o \in Sample
  PROVE  /\ PointStatus(m, prior, after) = "ok" => p.at < o.at /\ p.generation = o.generation
         /\ PointStatus(m, prior, after) = "reset" => \/ p.generation # o.generation
                                                         \/ o.reading[m] < p.reading[m]
         /\ PointStatus(m, prior, after) \in {"reset", "invalid-time", "ok"}
<1>1. (CHOOSE x \in prior : TRUE) = p /\ (CHOOSE x \in after : TRUE) = o
  BY Chosen
<1>2. prior # {} /\ after # {}
  OBVIOUS
<1>3. PointStatus(m, prior, after) =
        IF p.generation # o.generation \/ o.reading[m] < p.reading[m] THEN "reset"
        ELSE IF o.at <= p.at THEN "invalid-time" ELSE "ok"
  BY <1>1, <1>2 DEF PointStatus, CounterStatus
<1>4. o.at \in Nat /\ p.at \in Nat
  BY DEF Sample
<1> QED BY <1>3, <1>4

\* The statuses of a counter's point.
LEMMA StatusType ==
  ASSUME NEW m, NEW prior, NEW after
  PROVE  PointStatus(m, prior, after) \in Status
<1>1. \A x, y : CounterStatus(m, x, y) \in {"warming-up", "reset", "invalid-time", "ok"}
  BY DEF CounterStatus
<1> QED BY <1>1 DEF PointStatus, Status

\* appendDerived: a ratio with a value has two counters with one.
LEMMA RatioSays ==
  ASSUME NEW prior, NEW b
  PROVE  /\ RatioStatus(prior, b) \in Status
         /\ RatioStatus(prior, b) = "ok" =>
              PointStatus("reads", prior["reads"], b.observation) \notin {"reset", "invalid-time"}
<1> DEFINE s == {PointStatus(m, prior[m], b.observation) : m \in Metric}
           order == <<"failed", "reset", "warming-up", "invalid-time">>
           wrong == {i \in DOMAIN order : order[i] \in s}
<1>1. DOMAIN order = 1..4 /\ order[1] = "failed" /\ order[2] = "reset"
      /\ order[3] = "warming-up" /\ order[4] = "invalid-time"
  OBVIOUS
<1>2. wrong # {} => order[Min(wrong)] \in Status \ {"ok"}
  <2> SUFFICES ASSUME wrong # {} PROVE order[Min(wrong)] \in Status \ {"ok"}
    OBVIOUS
  <2>1. wrong \in SUBSET (1..4)
    BY <1>1
  <2>2. Min(wrong) \in wrong
    BY <2>1, MinOf
  <2> QED BY <1>1, <2>1, <2>2 DEF Status
<1>3. RatioStatus(prior, b) =
        IF b.metrics # Metric THEN "unavailable"
        ELSE IF wrong # {} THEN order[Min(wrong)]
        ELSE IF (CHOOSE x \in b.observation : TRUE).reading.requests
                  = (CHOOSE x \in prior.requests : TRUE).reading.requests THEN "null" ELSE "ok"
  BY DEF RatioStatus
<1>4. wrong = {} => "reset" \notin s /\ "invalid-time" \notin s
  BY <1>1
<1>5. PointStatus("reads", prior["reads"], b.observation) \in s
  BY DEF Metric
<1> HIDE DEF s, order, wrong
<1> QED BY <1>2, <1>3, <1>4, <1>5 DEF Status

-----------------------------------------------------------------------------
(***************************************************************************)
(* What the steps that touch an observation do                             *)
(***************************************************************************)
\* What a batch holds.
Batches == [session : Nat, sequence : Nat, metrics : SUBSET Metric, observation : SUBSET Sample]

\* The observation of call c, answered now.
Answered(c) == [reading |-> ServerStatus, at |-> now, sequence |-> c, session |-> call[c].session,
                generation |-> epoch'.generation]

\* A call that is settled or resolved is as it was, but for what is set.
LEMMA ResolvedShape ==
  ASSUME call \in [Call -> Asked], NEW c \in Call, NEW b \in Batches,
         call' = [call EXCEPT ![c].phase = "resolved", ![c].batch = {b}]
  PROVE  /\ call' \in [Call -> Asked]
         /\ call'[c].session = call[c].session /\ call'[c].batch = {b}
         /\ \A d \in Call : d # c => call'[d] = call[d]
<1>1. call[c] \in Asked
  OBVIOUS
<1> DEFINE r == [call[c] EXCEPT !.phase = "resolved", !.batch = {b}]
<1>2. r \in Asked /\ r.session = call[c].session /\ r.batch = {b}
  BY <1>1 DEF Asked, Batches
<1>3. call' = [call EXCEPT ![c] = r]
  OBVIOUS
<1> HIDE DEF r
<1> QED BY <1>2, <1>3

\* A query that ends: the provider's epoch, and the batch of its call.
LEMMA DeliverShape ==
  ASSUME Typed, Batched, NEW reading \in {{}, {ServerStatus}}, Deliver(reading)
  PROVE  /\ line # <<>> /\ line[1].call \in Call /\ line' = Tail(line)
         /\ epoch' \in [uptime : Nat \union {-1}, generation : Nat]
         /\ \/ reading = {} /\ epoch' = epoch
            \/ /\ reading = {ServerStatus} /\ epoch'.uptime = now - boot.at
               /\ epoch'.generation = IF epoch.uptime >= 0 /\ now - boot.at < epoch.uptime
                                      THEN epoch.generation + 1 ELSE epoch.generation
         /\ \/ UNCHANGED call
            \/ \E b \in Batches :
                 /\ b.session = call[line[1].call].session /\ b.sequence = line[1].call
                 /\ b.observation = {} \/ (/\ b.observation = {Answered(line[1].call)}
                                           /\ reading = {ServerStatus})
                 /\ call' \in [Call -> Asked]
                 /\ call'[line[1].call].session = call[line[1].call].session
                 /\ call'[line[1].call].batch = {b}
                 /\ \A d \in Call : d # line[1].call => call'[d] = call[d]
<1> SUFFICES ASSUME NEW c, c = line[1].call
             PROVE  /\ line # <<>> /\ c \in Call /\ line' = Tail(line)
                    /\ epoch' \in [uptime : Nat \union {-1}, generation : Nat]
                    /\ \/ reading = {} /\ epoch' = epoch
                       \/ /\ reading = {ServerStatus} /\ epoch'.uptime = now - boot.at
                          /\ epoch'.generation = IF epoch.uptime >= 0 /\ now - boot.at < epoch.uptime
                                                 THEN epoch.generation + 1 ELSE epoch.generation
                    /\ \/ UNCHANGED call
                       \/ \E b \in Batches :
                            /\ b.session = call[c].session /\ b.sequence = c
                            /\ b.observation = {} \/ (/\ b.observation = {Answered(c)}
                                                      /\ reading = {ServerStatus})
                            /\ call' \in [Call -> Asked]
                            /\ call'[c].session = call[c].session /\ call'[c].batch = {b}
                            /\ \A d \in Call : d # c => call'[d] = call[d]
  OBVIOUS
<1>1. line # <<>> /\ line' = Tail(line)
  BY DEF Deliver
<1>2. line \in Seq([call : Call, lost : BOOLEAN])
  BY DEF Typed
<1>3. c \in Call /\ Head(line).call = c
  <2>1. 1 \in DOMAIN line
    BY <1>1, <1>2
  <2>2. \A i \in DOMAIN line : line[i] \in [call : Call, lost : BOOLEAN]
    <3>1. ASSUME NEW R, line \in Seq(R) PROVE \A i \in DOMAIN line : line[i] \in R
      BY <3>1
    <3> QED BY <1>2, <3>1
  <2>3. Head(line) = line[1]
    BY <1>1, <1>2
  <2>4. line[1].call \in Call
    BY <2>1, <2>2
  <2> QED BY <2>3, <2>4
<1>4. c \in Nat
  BY <1>3, SamplingAssumption DEF Call
<1>5. /\ now \in Nat /\ now - boot.at \in Nat /\ boot.number \in Nat
      /\ count.reads \in Nat /\ count.requests \in Nat
      /\ epoch.uptime \in Nat \union {-1} /\ epoch.generation \in Nat
  BY DEF Typed, Metric
<1>6. epoch' = ResolveEpoch({r.uptime : r \in reading})
  BY DEF Deliver
<1> DEFINE read(r) == [reading |-> r, at |-> now, sequence |-> c, session |-> call[c].session,
                       generation |-> ResolveEpoch({q.uptime : q \in reading}).generation]
           made == [session |-> call[c].session, sequence |-> c, metrics |-> call[c].metrics,
                    observation |-> {read(r) : r \in reading}]
<1>9. call' = IF call[c].phase = "pending"
              THEN [call EXCEPT ![c].phase = "resolved", ![c].batch = {made}]
              ELSE call
  <2> SUFFICES ASSUME NEW h, h = Head(line).call
               PROVE  call' = IF call[h].phase = "pending"
                              THEN [call EXCEPT ![h].phase = "resolved", ![h].batch =
                                {[session |-> call[h].session, sequence |-> h, metrics |-> call[h].metrics,
                                  observation |->
                                    {[reading |-> r, at |-> now, sequence |-> h, session |-> call[h].session,
                                      generation |-> ResolveEpoch({q.uptime : q \in reading}).generation]
                                     : r \in reading}]}]
                              ELSE call
    BY <1>3
  <2> QED BY DEF Deliver
<1>7. CASE reading = {}
  <2>1. epoch' = [uptime |-> epoch.uptime, generation |-> epoch.generation]
    BY <1>6, <1>7 DEF ResolveEpoch
  <2>2. epoch' = epoch
    BY <2>1 DEF Typed
  <2>3. CASE call[c].phase # "pending"
    <3>1. call' = call
      BY <1>3, <2>3 DEF Deliver
    <3> QED BY <1>1, <1>3, <1>7, <2>2, <3>1 DEF Typed
  <2>4. CASE call[c].phase = "pending"
    <3> DEFINE b == [session |-> call[c].session, sequence |-> c, metrics |-> call[c].metrics,
                     observation |-> {}]
    <3>1. b \in Batches
      BY <1>3, <1>4 DEF Batches, Typed, Asked
    <3>2. {read(r) : r \in reading} = {}
      BY <1>7
    <3>3. call' = [call EXCEPT ![c].phase = "resolved", ![c].batch = {b}]
      <4>1. made = b
        BY <3>2
      <4> HIDE DEF made, b
      <4> QED BY <1>9, <2>4, <4>1
    <3>4. b.session = call[c].session /\ b.sequence = c /\ b.observation = {}
      OBVIOUS
    <3> HIDE DEF b
    <3>5. /\ call' \in [Call -> Asked]
          /\ call'[c].session = call[c].session /\ call'[c].batch = {b}
          /\ \A d \in Call : d # c => call'[d] = call[d]
      BY <1>3, <3>1, <3>3, ResolvedShape DEF Typed
    <3>6. epoch' \in [uptime : Nat \union {-1}, generation : Nat]
      BY <2>2 DEF Typed
    <3> QED BY <1>1, <1>3, <1>7, <2>2, <3>1, <3>4, <3>5, <3>6
  <2> QED BY <2>3, <2>4
<1>8. CASE reading = {ServerStatus}
  <2>1. {r.uptime : r \in reading} = {now - boot.at}
    BY <1>8 DEF ServerStatus
  <2>2. (CHOOSE t \in {now - boot.at} : TRUE) = now - boot.at
    OBVIOUS
  <2>3. epoch' = [uptime |-> now - boot.at,
                  generation |-> IF epoch.uptime >= 0 /\ now - boot.at < epoch.uptime
                                 THEN epoch.generation + 1 ELSE epoch.generation]
    BY <1>6, <2>1, <2>2 DEF ResolveEpoch
  <2>4. /\ epoch' \in [uptime : Nat \union {-1}, generation : Nat]
        /\ epoch'.uptime = now - boot.at
        /\ epoch'.generation = IF epoch.uptime >= 0 /\ now - boot.at < epoch.uptime
                               THEN epoch.generation + 1 ELSE epoch.generation
    BY <1>5, <2>3
  <2>5. CASE call[c].phase # "pending"
    <3>1. call' = call
      BY <1>3, <2>5 DEF Deliver
    <3> QED BY <1>1, <1>3, <1>8, <2>4, <3>1
  <2>6. CASE call[c].phase = "pending"
    <3> DEFINE b == [session |-> call[c].session, sequence |-> c, metrics |-> call[c].metrics,
                     observation |-> {Answered(c)}]
    <3>0. call[c].session \in Nat /\ call[c].metrics \in SUBSET Metric
      BY <1>3 DEF Typed, Asked
    <3>1. Answered(c) \in Sample
      BY <1>4, <1>5, <2>4, <3>0 DEF Answered, Sample, ServerStatus
    <3>2. b \in Batches
      BY <1>4, <3>0, <3>1 DEF Batches
    <3>3. {read(r) : r \in reading} = {Answered(c)}
      <4>1. read(ServerStatus) = Answered(c)
        BY <1>6 DEF Answered
      <4> QED BY <1>8, <4>1
    <3>4. call' = [call EXCEPT ![c].phase = "resolved", ![c].batch = {b}]
      <4>1. made = b
        BY <3>3
      <4> HIDE DEF made, b
      <4> QED BY <1>9, <2>6, <4>1
    <3>5. b.session = call[c].session /\ b.sequence = c /\ b.observation = {Answered(c)}
      OBVIOUS
    <3> HIDE DEF b
    <3>6. /\ call' \in [Call -> Asked]
          /\ call'[c].session = call[c].session /\ call'[c].batch = {b}
          /\ \A d \in Call : d # c => call'[d] = call[d]
      BY <1>3, <3>2, <3>4, ResolvedShape DEF Typed
    <3> QED BY <1>1, <1>3, <1>8, <2>4, <3>2, <3>5, <3>6
  <2> QED BY <2>5, <2>6
<1> QED BY <1>7, <1>8

\* The point of counter m that batch b makes, and that of the ratio.
PointOf(m, b) == [status |-> PointStatus(m, Before(b)[m], b.observation),
                  from |-> [Nothing EXCEPT ![m] = Before(b)[m]], to |-> b.observation]
RatioOf(b) == [status |-> RatioStatus(Before(b), b), from |-> Before(b), to |-> b.observation]

\* What a batch is compared with is of its own session and came before it.
LEMMA BeforeShape ==
  ASSUME Typed, Previous, NEW b \in Batches, InOrder(b)
  PROVE  /\ Before(b) \in [Metric -> SUBSET Sample]
         /\ \A m \in Metric :
              /\ Single(Before(b)[m]) /\ Before(b)[m] \subseteq previous[m]
              /\ \A p \in Before(b)[m] : p.session = b.session /\ p.sequence < b.sequence
<1>1. CASE held.session = b.session
  <2>1. Before(b) = previous
    BY <1>1 DEF Before
  <2>2. held.last < b.sequence
    BY <1>1 DEF InOrder
  <2>3. held.last \in Nat /\ b.sequence \in Nat
    BY DEF Typed, Batches
  <2>4. ASSUME NEW m \in Metric, NEW p \in previous[m]
        PROVE  p.session = b.session /\ p.sequence < b.sequence
    <3>1. p \in Sample
      BY DEF Typed
    <3>2. p.sequence \in Nat /\ p.sequence <= held.last /\ p.session = held.session
      BY <3>1 DEF Previous, Sample
    <3> QED BY <1>1, <2>2, <2>3, <3>2
  <2>5. previous \in [Metric -> SUBSET Sample]
    BY DEF Typed
  <2>6. \A m \in Metric : Single(previous[m])
    BY DEF Previous
  <2> QED BY <2>1, <2>4, <2>5, <2>6
<1>2. CASE held.session # b.session
  <2>1. Before(b) = Nothing
    BY <1>2 DEF Before
  <2>2. Nothing \in [Metric -> SUBSET Sample] /\ \A m \in Metric : Nothing[m] = {}
    BY DEF Nothing
  <2>3. \A m \in Metric : Single(Nothing[m])
    BY <2>2 DEF Single
  <2> QED BY <2>1, <2>2, <2>3
<1> QED BY <1>1, <1>2

\* The points that batch b makes are sound.
LEMMA PointsAreSound ==
  ASSUME Typed, Batched, Previous, Ordered, NEW c \in Call, NEW b \in call[c].batch, InOrder(b)
  PROVE  /\ \A m \in Metric :
              PointOf(m, b) \in Drawn /\ Sound(PointOf(m, b), b.session) /\ Counted(m, PointOf(m, b))
         /\ RatioOf(b) \in Drawn /\ Sound(RatioOf(b), b.session) /\ Derived(RatioOf(b))
<1> SUFFICES ASSUME NEW prior, prior = Before(b)
             PROVE  /\ \A m \in Metric :
                         PointOf(m, b) \in Drawn /\ Sound(PointOf(m, b), b.session) /\ Counted(m, PointOf(m, b))
                    /\ RatioOf(b) \in Drawn /\ Sound(RatioOf(b), b.session) /\ Derived(RatioOf(b))
  OBVIOUS
<1>1. b \in Batches /\ b.observation \in SUBSET Sample
  BY DEF Typed, Asked, Batches
<1>2. /\ b.sequence = c /\ b.session # 0 /\ Single(b.observation)
      /\ \A o \in b.observation : o.sequence = c /\ o.session = b.session
  BY DEF Batched
<1>3. /\ prior \in [Metric -> SUBSET Sample]
      /\ \A m \in Metric :
           /\ Single(prior[m]) /\ prior[m] \subseteq previous[m]
           /\ \A p \in prior[m] : p.session = b.session /\ p.sequence < b.sequence
  BY <1>1, BeforeShape
<1>5. ASSUME NEW m \in Metric, NEW p \in prior[m]
      PROVE  /\ p.session = b.session
             /\ \A o \in b.observation : p.sequence < o.sequence /\ Follows(p, o)
  <2>1. p \in Sample /\ p \in previous[m] /\ p.session = b.session /\ p.sequence < b.sequence
    BY <1>3
  <2>2. ASSUME NEW o \in b.observation PROVE p.sequence < o.sequence /\ Follows(p, o)
    <3>1. o \in Sample /\ p.sequence < o.sequence
      BY <1>1, <1>2, <2>1
    <3>2. Seen(p) /\ Seen(o)
      BY <2>1 DEF Seen
    <3> QED BY <2>1, <3>1, <3>2 DEF Ordered
  <2> QED BY <2>1, <2>2
<1>6. \A o \in b.observation : o.session = b.session
  BY <1>2
<1>7. ASSUME NEW status, NEW compared, \A m \in Metric : compared[m] \subseteq prior[m]
      PROVE  Sound([status |-> status, from |-> compared, to |-> b.observation], b.session)
  BY <1>5, <1>6, <1>7 DEF Sound
<1>8. ASSUME NEW m \in Metric
      PROVE  PointOf(m, b) \in Drawn /\ Sound(PointOf(m, b), b.session) /\ Counted(m, PointOf(m, b))
  <2> DEFINE compared == [Nothing EXCEPT ![m] = prior[m]]
             status == PointStatus(m, prior[m], b.observation)
  <2>1. /\ compared \in [Metric -> SUBSET Sample] /\ compared[m] = prior[m]
        /\ \A k \in Metric : compared[k] \subseteq prior[k]
    BY <1>3 DEF Nothing
  <2>2. PointOf(m, b) = [status |-> status, from |-> compared, to |-> b.observation]
    BY DEF PointOf
  <2>3. status \in Status
    BY StatusType
  <2>4. ASSUME NEW p \in prior[m], NEW o \in b.observation
        PROVE  /\ status = "ok" => p.at < o.at /\ p.generation = o.generation
               /\ status = "reset" => p.generation # o.generation \/ o.reading[m] < p.reading[m]
    <3>1. p \in Sample /\ o \in Sample
      BY <1>1, <1>3
    <3>2. Single(prior[m]) /\ Single(b.observation)
      BY <1>2, <1>3
    <3> QED BY <3>1, <3>2, StatusSays
  <2> HIDE DEF compared, status
  <2>5. PointOf(m, b) \in Drawn
    BY <1>1, <2>1, <2>2, <2>3 DEF Drawn
  <2>6. Sound([status |-> status, from |-> compared, to |-> b.observation], b.session)
    BY <1>7, <2>1
  <2>7. Sound(PointOf(m, b), b.session)
    BY <2>2, <2>6
  <2>8. Counted(m, PointOf(m, b))
    BY <2>1, <2>2, <2>4 DEF Counted
  <2> QED BY <2>5, <2>7, <2>8
<1>9. RatioOf(b) \in Drawn /\ Sound(RatioOf(b), b.session) /\ Derived(RatioOf(b))
  <2>1. RatioOf(b) = [status |-> RatioStatus(prior, b), from |-> prior, to |-> b.observation]
    BY DEF RatioOf
  <2>2. RatioStatus(prior, b) \in Status
    BY RatioSays
  <2>3. RatioOf(b) \in Drawn
    BY <1>1, <1>3, <2>1, <2>2 DEF Drawn
  <2>4. Sound(RatioOf(b), b.session)
    BY <1>7, <2>1
  <2>5. ASSUME RatioStatus(prior, b) = "ok", NEW p \in prior["reads"], NEW o \in b.observation
        PROVE  p.generation = o.generation
    <3>1. p \in Sample /\ o \in Sample /\ "reads" \in Metric
      BY <1>1, <1>3 DEF Metric
    <3>2. Single(prior["reads"]) /\ Single(b.observation)
      BY <1>2, <1>3, <3>1
    <3>3. PointStatus("reads", prior["reads"], b.observation) = "ok"
      BY <2>5, <3>1, <3>2, RatioSays, StatusSays
    <3> QED BY <3>1, <3>2, <3>3, StatusSays
  <2>6. Derived(RatioOf(b))
    BY <2>1, <2>5 DEF Derived
  <2> QED BY <2>3, <2>4, <2>6
<1> QED BY <1>8, <1>9

\* What a batch that is in order does to the accumulator.
LEMMA AccumulatedShape ==
  ASSUME Typed, Batched, Previous, Ordered,
         NEW c \in Call, NEW b \in call[c].batch, InOrder(b), Accumulated(b)
  PROVE  /\ held' = [session |-> b.session, last |-> b.sequence]
         /\ previous' \in [Metric -> SUBSET Sample]
         /\ \A m \in Metric : previous'[m] \in {b.observation, Before(b)[m]}
         /\ series' \in [Metric -> Seq(Drawn)] /\ ratio' \in Seq(Drawn)
         /\ \A m \in Metric : \A i \in DOMAIN series'[m] :
              \/ series'[m][i] = PointOf(m, b)
              \/ held.session = b.session /\ \E k \in DOMAIN series[m] : series'[m][i] = series[m][k]
         /\ \A i \in DOMAIN ratio' :
              \/ ratio'[i] = RatioOf(b)
              \/ held.session = b.session /\ \E k \in DOMAIN ratio : ratio'[i] = ratio[k]
<1>1. b \in Batches /\ b.observation \in SUBSET Sample
  BY DEF Typed, Asked, Batches
<1>2. /\ Before(b) \in [Metric -> SUBSET Sample]
      /\ \A m \in Metric : PointOf(m, b) \in Drawn
      /\ RatioOf(b) \in Drawn
  BY <1>1, BeforeShape, PointsAreSound
<1>3. held' = [session |-> b.session, last |-> b.sequence]
  BY DEF Accumulated
<1>4. previous' = [m \in Metric |->
        IF m \in b.metrics /\ b.observation # {} THEN b.observation ELSE Before(b)[m]]
  BY DEF Accumulated
<1> DEFINE kept(seq) == IF held.session # b.session THEN <<>> ELSE seq
<1>5. series' = [m \in Metric |-> IF m \in b.metrics THEN Pushed(kept(series[m]), PointOf(m, b))
                                  ELSE kept(series[m])]
  <2>1. series' = [m \in Metric |->
          IF m \in b.metrics
          THEN Pushed(kept(series[m]),
                      [status |-> [k \in Metric |-> PointStatus(k, Before(b)[k], b.observation)][m],
                       from |-> [Nothing EXCEPT ![m] = Before(b)[m]], to |-> b.observation])
          ELSE kept(series[m])]
    BY DEF Accumulated
  <2> QED BY <2>1 DEF PointOf
<1>6. ratio' = IF "reads" \in b.metrics THEN Pushed(kept(ratio), RatioOf(b)) ELSE kept(ratio)
  BY DEF Accumulated, RatioOf
<1>7. /\ previous' \in [Metric -> SUBSET Sample]
      /\ \A m \in Metric : previous'[m] \in {b.observation, Before(b)[m]}
  BY <1>1, <1>2, <1>4
<1>8. ASSUME NEW old \in Seq(Drawn), NEW point \in Drawn,
             NEW new, new = Pushed(kept(old), point) \/ new = kept(old)
      PROVE  /\ new \in Seq(Drawn)
             /\ \A i \in DOMAIN new :
                  \/ new[i] = point
                  \/ held.session = b.session /\ \E k \in DOMAIN old : new[i] = old[k]
  <2> DEFINE base == kept(old)
  <2>1. base \in Seq(Drawn)
    OBVIOUS
  <2>2. \A i \in DOMAIN base : held.session = b.session /\ \E k \in DOMAIN old : base[i] = old[k]
    OBVIOUS
  <2>3. new = Pushed(base, point) \/ new = base
    BY <1>8
  <2> HIDE DEF base
  <2>4. CASE new = Pushed(base, point)
    <3>1. /\ Pushed(base, point) \in Seq(Drawn)
          /\ \A i \in DOMAIN Pushed(base, point) :
               \/ Pushed(base, point)[i] = point
               \/ \E k \in DOMAIN base : Pushed(base, point)[i] = base[k]
      BY <2>1, PushedShape
    <3> QED BY <2>2, <2>4, <3>1
  <2> QED BY <2>1, <2>2, <2>3, <2>4
<1>9. ASSUME NEW m \in Metric
      PROVE  /\ series'[m] \in Seq(Drawn)
             /\ \A i \in DOMAIN series'[m] :
                  \/ series'[m][i] = PointOf(m, b)
                  \/ held.session = b.session /\ \E k \in DOMAIN series[m] : series'[m][i] = series[m][k]
  <2>1. series[m] \in Seq(Drawn) /\ PointOf(m, b) \in Drawn
    BY <1>2 DEF Typed
  <2>2. series'[m] = Pushed(kept(series[m]), PointOf(m, b)) \/ series'[m] = kept(series[m])
    BY <1>5
  <2> QED BY <1>8, <2>1, <2>2
<1>10. /\ ratio' \in Seq(Drawn)
       /\ \A i \in DOMAIN ratio' :
            \/ ratio'[i] = RatioOf(b)
            \/ held.session = b.session /\ \E k \in DOMAIN ratio : ratio'[i] = ratio[k]
  <2>1. ratio \in Seq(Drawn) /\ RatioOf(b) \in Drawn
    BY <1>2 DEF Typed
  <2>2. ratio' = Pushed(kept(ratio), RatioOf(b)) \/ ratio' = kept(ratio)
    BY <1>6
  <2> QED BY <1>8, <2>1, <2>2
<1>11. series' \in [Metric -> Seq(Drawn)]
  <2> DEFINE value(m) == IF m \in b.metrics THEN Pushed(kept(series[m]), PointOf(m, b))
                         ELSE kept(series[m])
  <2>1. series' = [m \in Metric |-> value(m)]
    BY <1>5
  <2> HIDE DEF value
  <2> QED BY <1>9, <2>1
<1> QED BY <1>3, <1>7, <1>9, <1>10, <1>11

-----------------------------------------------------------------------------
(***************************************************************************)
(* The invariant                                                           *)
(***************************************************************************)
LEMMA InitInv == Init => IInv
<1> SUFFICES ASSUME Init PROVE IInv
  OBVIOUS
<1> USE SamplingAssumption DEF Init
<1>1. Typed
  <2>1. call \in [Call -> Asked] /\ line \in Seq([call : Call, lost : BOOLEAN])
    BY DEF Fresh, Asked
  <2>2. /\ previous \in [Metric -> SUBSET Sample] /\ count \in [Metric -> Nat]
        /\ series \in [Metric -> Seq(Drawn)] /\ ratio \in Seq(Drawn)
    BY DEF Nothing
  <2> QED BY <2>1, <2>2 DEF Typed
<1>2. Lined
  BY DEF Lined
<1>3. Batched
  BY DEF Batched, Fresh, Single
<1>4. Previous
  BY DEF Previous, Nothing, Single
<1>5. \A o : ~Seen(o)
  BY DEF Seen, Fresh, Nothing
<1>6. Ordered
  BY <1>5 DEF Ordered
<1>7. Charted
  BY DEF Charted
<1> QED BY <1>1, <1>2, <1>3, <1>4, <1>6, <1>7 DEF IInv

\* The steps of the server see no observation and make none.
LEMMA ServerStep ==
  ASSUME IInv, Tick \/ Serve \/ Restart
  PROVE  IInv'
<1> USE DEF clientVars, accumulatorVars
<1>0. /\ UNCHANGED <<clientVars, epoch, accumulatorVars>>
      /\ \/ UNCHANGED line
         \/ line' = [i \in DOMAIN line |-> [line[i] EXCEPT !.lost = TRUE]]
  BY DEF Tick, Serve, Restart
<1>1. /\ line' \in Seq([call : Call, lost : BOOLEAN]) /\ DOMAIN line' = DOMAIN line
      /\ \A i \in DOMAIN line : line'[i].call = line[i].call
  <2>1. line \in Seq([call : Call, lost : BOOLEAN])
    BY DEF IInv, Typed
  <2>2. CASE UNCHANGED line
    BY <2>1, <2>2
  <2>3. CASE line' = [i \in DOMAIN line |-> [line[i] EXCEPT !.lost = TRUE]]
    <3>1. DOMAIN line = 1..Len(line) /\ Len(line) \in Nat
      BY <2>1
    <3>2. \A i \in DOMAIN line : line[i] \in [call : Call, lost : BOOLEAN]
      <4>1. ASSUME NEW R, line \in Seq(R) PROVE \A i \in DOMAIN line : line[i] \in R
        BY <4>1
      <4> QED BY <2>1, <4>1
    <3>3. \A i \in DOMAIN line :
            /\ [line[i] EXCEPT !.lost = TRUE] \in [call : Call, lost : BOOLEAN]
            /\ [line[i] EXCEPT !.lost = TRUE].call = line[i].call
      BY <3>2
    <3>4. line' \in [1..Len(line) -> [call : Call, lost : BOOLEAN]]
      BY <2>3, <3>1, <3>3
    <3>5. line' \in Seq([call : Call, lost : BOOLEAN])
      <4>1. ASSUME NEW R, NEW f, NEW n \in Nat, f \in [1..n -> R] PROVE f \in Seq(R)
        BY <4>1
      <4> QED BY <3>1, <3>4, <4>1
    <3>6. DOMAIN line' = DOMAIN line /\ \A i \in DOMAIN line : line'[i].call = line[i].call
      BY <2>3, <3>3
    <3> QED BY <3>5, <3>6
  <2> QED BY <1>0, <2>2, <2>3
<1>2. /\ now' \in Nat /\ boot' \in [number : Nat, at : Nat] /\ boot'.at <= now'
      /\ count' \in [Metric -> Nat]
  <2>1. /\ now \in Nat /\ boot \in [number : Nat, at : Nat] /\ boot.at <= now
        /\ count \in [Metric -> Nat]
    BY DEF IInv, Typed
  <2>2. CASE Tick
    BY <2>1, <2>2 DEF Tick
  <2>3. CASE Serve
    <3>1. /\ UNCHANGED <<now, boot>>
          /\ \E disk \in {0, 1} :
               count' = [reads |-> count.reads + disk, requests |-> count.requests + 1]
      BY <2>3 DEF Serve
    <3>2. count' \in [Metric -> Nat]
      BY <2>1, <3>1 DEF Metric
    <3> QED BY <2>1, <3>1, <3>2
  <2>4. CASE Restart
    BY <2>1, <2>4 DEF Restart
  <2> QED BY <2>2, <2>3, <2>4
<1>3. Typed'
  BY <1>0, <1>1, <1>2 DEF IInv, Typed
<1>4. Lined'
  BY <1>0, <1>1 DEF IInv, Lined
<1>5. Batched' /\ Previous' /\ Charted'
  BY <1>0 DEF IInv, Batched, Previous, Charted
<1>6. \A o \in Sample : Seen(o)' <=> Seen(o)
  BY <1>0 DEF Seen
<1>7. ASSUME NEW o \in Sample, Dated(o) PROVE Dated(o)'
  <2>1. /\ now \in Nat /\ boot \in [number : Nat, at : Nat] /\ boot.at <= now
        /\ count.reads \in Nat /\ count.requests \in Nat
        /\ epoch.uptime \in Nat \union {-1} /\ epoch.generation \in Nat
    BY DEF IInv, Typed, Metric
  <2>2. /\ o.reading.boot \in Nat /\ o.reading.reads \in Nat /\ o.reading.requests \in Nat
        /\ o.generation \in Nat /\ o.reading.uptime \in Nat
    BY DEF Sample
  <2>3. /\ \A i \in DOMAIN line' : o.sequence < line'[i].call
        /\ o.sequence <= asked' /\ o.generation <= epoch'.generation
        /\ o.generation = epoch'.generation => o.reading.uptime <= epoch'.uptime
    BY <1>0, <1>1, <1>7 DEF Dated
  <2>4. /\ o.reading.boot <= boot'.number
        /\ o.reading.boot = boot'.number =>
             /\ o.generation = epoch'.generation /\ epoch'.uptime <= now' - boot'.at
             /\ o.reading.reads <= count'.reads
             /\ count'.reads - o.reading.reads <= count'.requests - o.reading.requests
    <3>1. CASE Tick
      <4>1. now' = now + 1 /\ UNCHANGED <<boot, count, epoch>>
        BY <3>1 DEF Tick
      <4> QED BY <1>7, <2>1, <2>2, <4>1 DEF Dated
    <3>2. CASE Serve
      <4>1. PICK disk \in {0, 1} :
              count' = [reads |-> count.reads + disk, requests |-> count.requests + 1]
        BY <3>2 DEF Serve
      <4>2. count'.reads = count.reads + disk /\ count'.requests = count.requests + 1
        BY <4>1
      <4>3. UNCHANGED <<now, boot, epoch>>
        BY <3>2 DEF Serve
      <4> QED BY <1>7, <2>1, <2>2, <4>2, <4>3 DEF Dated
    <3>3. CASE Restart
      <4>1. boot'.number = boot.number + 1
        BY <3>3 DEF Restart
      <4> QED BY <1>7, <2>1, <2>2, <4>1 DEF Dated
    <3> QED BY <3>1, <3>2, <3>3
  <2> QED BY <2>3, <2>4 DEF Dated
<1>8. Ordered'
  BY <1>6, <1>7 DEF IInv, Ordered, Follows
<1> QED BY <1>3, <1>4, <1>5, <1>8 DEF IInv

\* What is in use can only become less when the accumulator and the calls lose
\* some, or a query is put on the connection behind all the others.
LEMMA FewerOrdered ==
  ASSUME Typed, Ordered, UNCHANGED <<serverVars, epoch>>, asked \in Nat, asked <= asked', asked' \in Nat,
         \A o \in Sample : Seen(o)' => Seen(o),
         \A i \in DOMAIN line' : line'[i].call > asked \/ \E k \in DOMAIN line : line'[i].call = line[k].call,
         \A i \in DOMAIN line' : line'[i].call \in Nat
  PROVE  Ordered'
<1>1. ASSUME NEW o \in Sample, Seen(o)' PROVE Dated(o)'
  <2>1. Dated(o) /\ o.sequence \in Nat
    BY <1>1 DEF Ordered, Sample
  <2>2. \A i \in DOMAIN line' : o.sequence < line'[i].call
    BY <2>1 DEF Dated
  <2>3. o.sequence <= asked'
    BY <2>1 DEF Dated
  <2> QED BY <2>1, <2>2, <2>3 DEF Dated, serverVars
<1>2. ASSUME NEW p \in Sample, NEW o \in Sample, Seen(p)', Seen(o)', p.sequence < o.sequence
      PROVE  Follows(p, o)'
  BY <1>2 DEF Ordered, Follows
<1> QED BY <1>1, <1>2 DEF Ordered

\* A sample is asked for behind all the others, and another session begins.
LEMMA CollectStep ==
  ASSUME IInv, NEW metrics \in Selection, Collect(metrics)
  PROVE  IInv'
<1> USE DEF accumulatorVars, serverVars
<1>0. /\ asked < MaxCalls /\ asked' = asked + 1 /\ UNCHANGED <<serverVars, session, epoch, accumulatorVars>>
      /\ call' = [call EXCEPT ![asked + 1] =
           [phase |-> "pending", session |-> session, metrics |-> metrics, batch |-> {}]]
      /\ line' = Append(line, [call |-> asked + 1, lost |-> FALSE])
  BY DEF Collect
<1>1. /\ asked \in Nat /\ asked + 1 \in Call /\ asked' \in 0..MaxCalls /\ metrics \in SUBSET Metric
      /\ \A c \in Call : c \in Nat
  BY <1>0, SamplingAssumption, SMTT(30) DEF IInv, Typed, Call, Metric
<1> DEFINE new == [phase |-> "pending", session |-> session, metrics |-> metrics, batch |-> {}]
<1>2. new \in Asked /\ new.session # 0 /\ new.batch = {} /\ new.phase # "resolved"
  BY <1>1 DEF IInv, Typed, Asked
<1>3. /\ call' \in [Call -> Asked] /\ call'[asked + 1] = new
      /\ \A c \in Call : c # asked + 1 => call'[c] = call[c]
  <2> HIDE DEF new
  <2>1. call \in [Call -> Asked]
    BY DEF IInv, Typed
  <2>2. call' = [call EXCEPT ![asked + 1] = new]
    BY <1>0 DEF new
  <2> QED BY <1>1, <1>2, <2>1, <2>2
<1> HIDE DEF new
<1>4. /\ line' \in Seq([call : Call, lost : BOOLEAN])
      /\ DOMAIN line' = 1..(Len(line) + 1) /\ DOMAIN line = 1..Len(line) /\ Len(line) \in Nat
      /\ line'[Len(line) + 1].call = asked + 1
      /\ \A i \in DOMAIN line : line'[i] = line[i]
      /\ \A i \in DOMAIN line : line[i].call \in Call
  <2>1. line \in Seq([call : Call, lost : BOOLEAN])
    BY DEF IInv, Typed
  <2>2. [call |-> asked + 1, lost |-> FALSE] \in [call : Call, lost : BOOLEAN]
    BY <1>1
  <2>3. ASSUME NEW R, NEW q \in Seq(R), NEW x \in R
        PROVE  /\ Append(q, x) \in Seq(R) /\ DOMAIN Append(q, x) = 1..(Len(q) + 1)
               /\ DOMAIN q = 1..Len(q) /\ Len(q) \in Nat
               /\ Append(q, x)[Len(q) + 1] = x
               /\ \A i \in DOMAIN q : Append(q, x)[i] = q[i] /\ q[i] \in R
    OBVIOUS
  <2> DEFINE query == [call |-> asked + 1, lost |-> FALSE]
             R == [call : Call, lost : BOOLEAN]
  <2>4. query \in R /\ line \in Seq(R) /\ line' = Append(line, query)
    BY <1>0, <2>1, <2>2
  <2>5. query.call = asked + 1
    OBVIOUS
  <2>6. \A x \in R : x.call \in Call
    OBVIOUS
  <2> HIDE DEF query, R
  <2>7. /\ line' \in Seq(R) /\ DOMAIN line' = 1..(Len(line) + 1)
        /\ DOMAIN line = 1..Len(line) /\ Len(line) \in Nat
        /\ line'[Len(line) + 1] = query
        /\ \A i \in DOMAIN line : line'[i] = line[i] /\ line[i] \in R
    BY <2>3, <2>4
  <2> QED BY <2>5, <2>6, <2>7 DEF R
<1>5. \A i \in DOMAIN line : line[i].call <= asked
  BY DEF IInv, Lined
<1>6. Typed'
  BY <1>0, <1>1, <1>3, <1>4 DEF IInv, Typed
<1>7. Lined'
  <2>1. ASSUME NEW i \in DOMAIN line', NEW k \in DOMAIN line', i < k
        PROVE  line'[i].call < line'[k].call
    <3>1. i \in DOMAIN line
      BY <1>4, <2>1
    <3>2. CASE k \in DOMAIN line
      BY <1>4, <2>1, <3>1, <3>2 DEF IInv, Lined
    <3>3. CASE k = Len(line) + 1
      BY <1>1, <1>4, <1>5, <3>1, <3>3
    <3> QED BY <1>4, <3>2, <3>3
  <2>2. ASSUME NEW i \in DOMAIN line' PROVE line'[i].call <= asked'
    <3>1. CASE i \in DOMAIN line
      BY <1>0, <1>1, <1>4, <1>5, <3>1
    <3>2. CASE i = Len(line) + 1
      BY <1>0, <1>1, <1>4, <3>2
    <3> QED BY <1>4, <3>1, <3>2
  <2> QED BY <2>1, <2>2 DEF Lined
<1>8. Batched'
  <2> SUFFICES ASSUME NEW c \in Call
               PROVE  /\ call'[c].session # 0 /\ Single(call'[c].batch)
                      /\ call'[c].phase = "resolved" => call'[c].batch # {}
                      /\ \A b \in call'[c].batch :
                           /\ b.sequence = c /\ b.session # 0 /\ Single(b.observation)
                           /\ \A o \in b.observation : o.sequence = c /\ o.session = b.session
    BY DEF Batched, Single
  <2>1. CASE c = asked + 1
    BY <1>2, <1>3, <2>1 DEF Single
  <2>2. CASE c # asked + 1
    BY <1>3, <2>2 DEF IInv, Batched
  <2> QED BY <2>1, <2>2
<1>9. Previous' /\ Charted'
  BY <1>0 DEF IInv, Previous, Charted
<1>10. Ordered'
  <2>1. \A o \in Sample : Seen(o)' => Seen(o)
    BY <1>0, <1>2, <1>3 DEF Seen
  <2>2. \A i \in DOMAIN line' : /\ line'[i].call > asked \/ \E k \in DOMAIN line : line'[i].call = line[k].call
                                /\ line'[i].call \in Nat
    <3> SUFFICES ASSUME NEW i \in DOMAIN line'
                 PROVE  /\ line'[i].call > asked \/ \E k \in DOMAIN line : line'[i].call = line[k].call
                        /\ line'[i].call \in Nat
      OBVIOUS
    <3>1. CASE i \in DOMAIN line
      BY <1>1, <1>4, <3>1
    <3>2. CASE i = Len(line) + 1
      BY <1>1, <1>4, <3>2
    <3> QED BY <1>4, <3>1, <3>2
  <2>3. asked <= asked' /\ asked' \in Nat
    BY <1>0, <1>1
  <2> QED BY <1>0, <1>1, <2>1, <2>2, <2>3, FewerOrdered DEF IInv
<1> QED BY <1>6, <1>7, <1>8, <1>9, <1>10 DEF IInv

LEMMA NewSessionStep ==
  ASSUME IInv, NewSession
  PROVE  IInv'
<1> USE DEF accumulatorVars, serverVars
<1>0. session' = session + 1 /\ UNCHANGED <<serverVars, call, asked, line, epoch, accumulatorVars>>
  BY DEF NewSession
<1>1. Typed' /\ Lined' /\ Batched' /\ Previous' /\ Charted'
  BY <1>0 DEF IInv, Typed, Lined, Batched, Previous, Charted
<1>2. \A o \in Sample : Seen(o)' <=> Seen(o)
  BY <1>0 DEF Seen
<1>3. \A o \in Sample : Dated(o)' <=> Dated(o)
  BY <1>0 DEF Dated
<1>4. Ordered'
  BY <1>2, <1>3 DEF IInv, Ordered, Follows
<1> QED BY <1>1, <1>4 DEF IInv

\* A call that is settled or handed over holds nothing any more.
LEMMA Emptied ==
  ASSUME Typed, Batched, NEW c \in Call, call' = [call EXCEPT ![c] = Done]
  PROVE  /\ call' \in [Call -> Asked] /\ Batched'
         /\ \A d \in Call : call'[d].batch \subseteq call[d].batch
<1>1. Done \in Asked /\ Done.batch = {} /\ Done.session # 0 /\ Done.phase # "resolved"
  BY DEF Done, Fresh, Asked
<1>2. /\ call' \in [Call -> Asked] /\ call'[c] = Done
      /\ \A d \in Call : d # c => call'[d] = call[d]
  BY <1>1 DEF Typed
<1>3. Batched'
  <2> SUFFICES ASSUME NEW d \in Call
               PROVE  /\ call'[d].session # 0 /\ Single(call'[d].batch)
                      /\ call'[d].phase = "resolved" => call'[d].batch # {}
                      /\ \A b \in call'[d].batch :
                           /\ b.sequence = d /\ b.session # 0 /\ Single(b.observation)
                           /\ \A o \in b.observation : o.sequence = d /\ o.session = b.session
    BY DEF Batched, Single
  <2>1. CASE d = c
    BY <1>1, <1>2, <2>1 DEF Single
  <2>2. CASE d # c
    BY <1>2, <2>2 DEF Batched
  <2> QED BY <2>1, <2>2
<1> QED BY <1>1, <1>2, <1>3

\* The connection and the calls asked for stay, and no more is in use.
LEMMA LessInUse ==
  ASSUME IInv, UNCHANGED <<serverVars, epoch, line, asked>>,
         \A o \in Sample : Seen(o)' => Seen(o)
  PROVE  Ordered'
<1>1. asked \in Nat
  BY SamplingAssumption DEF IInv, Typed
<1>2. \A i \in DOMAIN line : line[i].call \in Nat
  <2>1. line \in Seq([call : Call, lost : BOOLEAN])
    BY DEF IInv, Typed
  <2>2. ASSUME NEW R, line \in Seq(R) PROVE \A i \in DOMAIN line : line[i] \in R
    BY <2>2
  <2>3. \A i \in DOMAIN line : line[i] \in [call : Call, lost : BOOLEAN]
    BY <2>1, <2>2
  <2> QED BY <2>3, SamplingAssumption DEF Call
<1> QED BY <1>1, <1>2, FewerOrdered DEF IInv

LEMMA TimedOutStep ==
  ASSUME IInv, NEW c \in Call, TimedOut(c)
  PROVE  IInv'
<1> USE DEF accumulatorVars, serverVars
<1>0. /\ call' = [call EXCEPT ![c] = Done]
      /\ UNCHANGED <<serverVars, session, asked, line, epoch, accumulatorVars>>
  BY DEF TimedOut
<1>1. /\ call' \in [Call -> Asked] /\ Batched'
      /\ \A d \in Call : call'[d].batch \subseteq call[d].batch
  BY <1>0, Emptied DEF IInv
<1>2. Typed' /\ Lined' /\ Previous' /\ Charted'
  BY <1>0, <1>1 DEF IInv, Typed, Lined, Previous, Charted
<1>3. \A o \in Sample : Seen(o)' => Seen(o)
  BY <1>0, <1>1 DEF Seen
<1>4. Ordered'
  BY <1>0, <1>3, LessInUse
<1> QED BY <1>1, <1>2, <1>4 DEF IInv

LEMMA ClearStep ==
  ASSUME IInv, Clear
  PROVE  IInv'
<1> USE DEF clientVars, serverVars
<1>0. /\ held' = [session |-> 0, last |-> 0] /\ previous' = Nothing
      /\ series' = [m \in Metric |-> <<>>] /\ ratio' = <<>>
      /\ UNCHANGED <<serverVars, clientVars, line, epoch>>
  BY DEF Clear
<1>1. previous' \in [Metric -> SUBSET Sample] /\ \A m \in Metric : previous'[m] = {}
  BY <1>0 DEF Nothing
<1>2. series' \in [Metric -> Seq(Drawn)] /\ ratio' \in Seq(Drawn)
  BY <1>0
<1>3. Typed' /\ Lined' /\ Batched'
  BY <1>0, <1>1, <1>2 DEF IInv, Typed, Lined, Batched
<1>4. Previous' /\ Charted'
  BY <1>0, <1>1 DEF Previous, Charted, Single
<1>5. \A o \in Sample : Seen(o)' => Seen(o)
  BY <1>0, <1>1 DEF Seen
<1>6. Ordered'
  BY <1>0, <1>5, LessInUse
<1> QED BY <1>3, <1>4, <1>6 DEF IInv

\* A query ends: what it observed is dated now and follows what was in use.
LEMMA DeliverStep ==
  ASSUME IInv, NEW reading \in {{}, {ServerStatus}}, Deliver(reading)
  PROVE  IInv'
<1> USE DEF accumulatorVars, serverVars
<1> SUFFICES ASSUME NEW c, c = line[1].call, NEW a, a = Answered(c)
             PROVE  IInv'
  OBVIOUS
<1>0. UNCHANGED <<serverVars, session, asked, accumulatorVars>>
  BY DEF Deliver
<1>1. /\ line # <<>> /\ c \in Call /\ line' = Tail(line)
      /\ epoch' \in [uptime : Nat \union {-1}, generation : Nat]
      /\ \/ reading = {} /\ epoch' = epoch
         \/ /\ reading = {ServerStatus} /\ epoch'.uptime = now - boot.at
            /\ epoch'.generation = IF epoch.uptime >= 0 /\ now - boot.at < epoch.uptime
                                   THEN epoch.generation + 1 ELSE epoch.generation
      /\ \/ UNCHANGED call
         \/ \E b \in Batches :
              /\ b.session = call[c].session /\ b.sequence = c
              /\ b.observation = {} \/ (b.observation = {a} /\ reading = {ServerStatus})
              /\ call' \in [Call -> Asked]
              /\ call'[c].session = call[c].session /\ call'[c].batch = {b}
              /\ \A d \in Call : d # c => call'[d] = call[d]
  BY DeliverShape DEF IInv
<1>2. /\ now \in Nat /\ boot \in [number : Nat, at : Nat] /\ boot.at <= now
      /\ now - boot.at \in Nat
      /\ count.reads \in Nat /\ count.requests \in Nat
      /\ epoch.uptime \in Nat \union {-1} /\ epoch.generation \in Nat
      /\ epoch'.uptime \in Nat \union {-1} /\ epoch'.generation \in Nat
      /\ asked \in Nat /\ c \in Nat
  <2>1. /\ now \in Nat /\ boot \in [number : Nat, at : Nat] /\ boot.at <= now
        /\ count.reads \in Nat /\ count.requests \in Nat
    BY DEF IInv, Typed, Metric
  <2>2. epoch.uptime \in Nat \union {-1} /\ epoch.generation \in Nat
    BY DEF IInv, Typed
  <2>3. epoch'.uptime \in Nat \union {-1} /\ epoch'.generation \in Nat
    BY <1>1
  <2>4. asked \in Nat /\ c \in Nat
    BY <1>1, SamplingAssumption DEF IInv, Typed, Call
  <2> QED BY <2>1, <2>2, <2>3, <2>4
<1>3. /\ line' \in Seq([call : Call, lost : BOOLEAN])
      /\ \A i \in DOMAIN line' : i + 1 \in DOMAIN line /\ line'[i] = line[i + 1]
      /\ 1 \in DOMAIN line /\ \A i \in DOMAIN line : i \in Nat /\ line[i].call \in Call
      /\ \A i \in DOMAIN line' : i \in Nat /\ i >= 1
  <2> DEFINE R == [call : Call, lost : BOOLEAN]
  <2>1. line \in Seq(R) /\ \A x \in R : x.call \in Call
    BY DEF IInv, Typed
  <2> HIDE DEF R
  <2>2. /\ Tail(line) \in Seq(R)
        /\ \A i \in DOMAIN Tail(line) : i + 1 \in DOMAIN line /\ Tail(line)[i] = line[i + 1]
        /\ 1 \in DOMAIN line /\ \A i \in DOMAIN line : i \in Nat /\ line[i] \in R
        /\ \A i \in DOMAIN Tail(line) : i \in Nat /\ i >= 1
    BY <1>1, <2>1
  <2> QED BY <1>1, <2>1, <2>2 DEF R
<1>4. \A i \in DOMAIN line' : c < line'[i].call
  <2> SUFFICES ASSUME NEW i \in DOMAIN line' PROVE c < line'[i].call
    OBVIOUS
  <2>1. 1 \in DOMAIN line /\ i + 1 \in DOMAIN line /\ 1 < i + 1 /\ line'[i] = line[i + 1]
    BY <1>3
  <2>2. line[1].call < line[i + 1].call
    BY <2>1 DEF IInv, Lined
  <2> QED BY <2>1, <2>2
<1>5. c <= asked
  <2>1. line[1].call <= asked
    BY <1>3, Zenon DEF IInv, Lined
  <2> QED BY <2>1
<1>6. Lined'
  <2>1. ASSUME NEW i \in DOMAIN line', NEW k \in DOMAIN line', i < k
        PROVE  line'[i].call < line'[k].call
    <3>1. i + 1 \in DOMAIN line /\ k + 1 \in DOMAIN line /\ i + 1 < k + 1
      BY <1>3, <2>1
    <3> QED BY <1>3, <3>1 DEF IInv, Lined
  <2>2. \A i \in DOMAIN line' : line'[i].call <= asked'
    BY <1>0, <1>3 DEF IInv, Lined
  <2> QED BY <2>1, <2>2 DEF Lined
<1>7. call' \in [Call -> Asked]
  BY <1>1 DEF IInv, Typed
<1>8. Typed'
  BY <1>0, <1>1, <1>3, <1>7 DEF IInv, Typed
<1>9. Previous' /\ Charted'
  BY <1>0 DEF IInv, Previous, Charted
<1>10. ASSUME NEW o \in Sample, Dated(o) PROVE Dated(o)'
  <2>1. /\ o.sequence \in Nat /\ o.generation \in Nat /\ o.reading.uptime \in Nat
        /\ o.reading.boot \in Nat
    BY DEF Sample
  <2>2. \A i \in DOMAIN line' : o.sequence < line'[i].call
    BY <1>3, <1>10 DEF Dated
  <2>3. CASE reading = {} /\ epoch' = epoch
    BY <1>0, <1>10, <2>2, <2>3 DEF Dated
  <2>4. CASE /\ reading = {ServerStatus} /\ epoch'.uptime = now - boot.at
             /\ epoch'.generation = IF epoch.uptime >= 0 /\ now - boot.at < epoch.uptime
                                    THEN epoch.generation + 1 ELSE epoch.generation
    <3>1. o.generation <= epoch.generation
      BY <1>10 DEF Dated
    <3>2. /\ o.generation <= epoch'.generation
          /\ o.generation = epoch'.generation => o.reading.uptime <= epoch'.uptime
      BY <1>2, <1>10, <2>1, <2>4, <3>1 DEF Dated
    <3>3. ASSUME o.reading.boot = boot.number
          PROVE  o.generation = epoch'.generation /\ epoch'.uptime <= now - boot.at
      BY <1>2, <1>10, <2>1, <2>4, <3>3 DEF Dated
    <3> QED BY <1>0, <1>10, <2>2, <3>2, <3>3 DEF Dated
  <2> QED BY <1>1, <2>3, <2>4
<1>11. CASE UNCHANGED call
  <2>1. Batched'
    BY <1>11 DEF IInv, Batched
  <2>2. \A o \in Sample : Seen(o)' <=> Seen(o)
    BY <1>0, <1>11 DEF Seen
  <2>3. Ordered'
    BY <1>10, <2>2 DEF IInv, Ordered, Follows
  <2> QED BY <1>6, <1>8, <1>9, <2>1, <2>3 DEF IInv
<1>12. ASSUME NEW b \in Batches,
              b.session = call[c].session, b.sequence = c,
              b.observation = {} \/ (b.observation = {a} /\ reading = {ServerStatus}),
              call'[c].session = call[c].session, call'[c].batch = {b},
              \A d \in Call : d # c => call'[d] = call[d]
       PROVE  IInv'
  <2>1. call[c].session # 0 /\ call[c].session \in Nat
    BY <1>1 DEF IInv, Batched, Typed, Asked
  <2>2. a.sequence = c /\ a.session = call[c].session
    BY DEF Answered
  <2>3. Batched'
    <3> SUFFICES ASSUME NEW d \in Call
                 PROVE  /\ call'[d].session # 0 /\ Single(call'[d].batch)
                        /\ call'[d].phase = "resolved" => call'[d].batch # {}
                        /\ \A x \in call'[d].batch :
                             /\ x.sequence = d /\ x.session # 0 /\ Single(x.observation)
                             /\ \A o \in x.observation : o.sequence = d /\ o.session = x.session
      BY DEF Batched, Single
    <3>1. CASE d = c
      <4>1. Single(b.observation) /\ Single({b})
        BY <1>12 DEF Single
      <4>2. \A o \in b.observation : o.sequence = c /\ o.session = b.session
        BY <1>12, <2>2
      <4> QED BY <1>12, <2>1, <3>1, <4>1, <4>2
    <3>2. CASE d # c
      BY <1>12, <3>2 DEF IInv, Batched
    <3> QED BY <3>1, <3>2
  <2>4. ASSUME NEW o \in Sample, Seen(o)'
        PROVE  Seen(o) \/ (o = a /\ reading = {ServerStatus})
    <3>1. CASE \E m \in Metric : o \in previous'[m]
      BY <1>0, <3>1 DEF Seen
    <3>2. CASE \E d \in Call : \E x \in call'[d].batch : o \in x.observation
      <4>1. PICK d \in Call : \E x \in call'[d].batch : o \in x.observation
        BY <3>2
      <4>2. CASE d = c
        BY <1>12, <4>1, <4>2
      <4>3. CASE d # c
        BY <1>12, <4>1, <4>3 DEF Seen
      <4> QED BY <4>2, <4>3
    <3> QED BY <2>4, <3>1, <3>2 DEF Seen
  <2>5. ASSUME reading = {ServerStatus}
        PROVE  /\ epoch'.uptime = now - boot.at
               /\ epoch'.generation = IF epoch.uptime >= 0 /\ now - boot.at < epoch.uptime
                                      THEN epoch.generation + 1 ELSE epoch.generation
    BY <1>1, <2>5
  <2>6. /\ a.reading.boot = boot.number /\ a.reading.uptime = now - boot.at
        /\ a.reading.reads = count.reads /\ a.reading.requests = count.requests
        /\ a.generation = epoch'.generation /\ a.sequence = c
    BY DEF Answered, ServerStatus
  <2>7. ASSUME reading = {ServerStatus} PROVE Dated(a)'
    <3>1. \A i \in DOMAIN line' : a.sequence < line'[i].call
      BY <1>4, <2>6
    <3>2. /\ a.sequence <= asked' /\ a.generation <= epoch'.generation
          /\ a.generation = epoch'.generation => a.reading.uptime <= epoch'.uptime
      BY <1>0, <1>2, <1>5, <2>5, <2>6, <2>7
    <3>3. /\ a.reading.boot <= boot'.number
          /\ a.reading.boot = boot'.number =>
               /\ a.generation = epoch'.generation /\ epoch'.uptime <= now' - boot'.at
               /\ a.reading.reads <= count'.reads
               /\ count'.reads - a.reading.reads <= count'.requests - a.reading.requests
      BY <1>0, <1>2, <2>5, <2>6, <2>7
    <3> QED BY <3>1, <3>2, <3>3 DEF Dated
  <2>8. ASSUME NEW p \in Sample, Dated(p)', reading = {ServerStatus}
        PROVE  Follows(p, a)
    <3>1. /\ p.generation \in Nat /\ p.reading.boot \in Nat /\ p.reading.reads \in Nat
          /\ p.reading.requests \in Nat /\ p.reading.uptime \in Nat
      BY DEF Sample
    <3>2. /\ p.generation = epoch'.generation => p.reading.uptime <= epoch'.uptime
          /\ p.reading.boot <= boot.number
          /\ p.reading.boot = boot.number =>
               /\ p.generation = epoch'.generation
               /\ p.reading.reads <= count.reads
               /\ count.reads - p.reading.reads <= count.requests - p.reading.requests
      BY <1>0, <2>8 DEF Dated
    <3> QED BY <2>5, <2>6, <2>8, <3>2 DEF Follows
  <2>9. ASSUME NEW o \in Sample, Seen(o) PROVE o.sequence < c
    BY <1>3, <2>9 DEF IInv, Ordered, Dated
  <2>10. ASSUME NEW o \in Sample, Seen(o)' PROVE Dated(o)'
    <3>1. CASE Seen(o)
      BY <1>10, <3>1 DEF IInv, Ordered
    <3>2. CASE o = a /\ reading = {ServerStatus}
      BY <2>7, <3>2
    <3> QED BY <2>4, <2>10, <3>1, <3>2
  <2>11. ASSUME NEW p \in Sample, NEW o \in Sample, Seen(p)', Seen(o)', p.sequence < o.sequence
         PROVE  Follows(p, o)
    <3>1. CASE Seen(p) /\ Seen(o)
      BY <2>11, <3>1 DEF IInv, Ordered
    <3>2. CASE o = a /\ reading = {ServerStatus}
      <4>1. Dated(p)'
        BY <2>10, <2>11
      <4> QED BY <2>8, <3>2, <4>1
    <3>3. CASE p = a /\ Seen(o)
      <4>1. c < o.sequence /\ o.sequence < c /\ o.sequence \in Nat
        BY <2>6, <2>9, <2>11, <3>3 DEF Sample
      <4> QED BY <1>2, <4>1
    <3> QED BY <2>4, <2>11, <3>1, <3>2, <3>3
  <2>12. Ordered'
    BY <2>10, <2>11 DEF Ordered, Follows
  <2> QED BY <1>6, <1>8, <1>9, <2>3, <2>12 DEF IInv
<1> QED BY <1>1, <1>11, <1>12

\* A batch that is handed over: the points it makes are sound, and what the
\* accumulator keeps of it is its last.
LEMMA AppendBatchStep ==
  ASSUME IInv, NEW c \in Call, AppendBatch(c)
  PROVE  IInv'
<1> USE DEF serverVars
<1>0. /\ call[c].phase = "resolved" /\ call' = [call EXCEPT ![c] = Done]
      /\ \A b \in call[c].batch :
           IF InOrder(b) THEN Accumulated(b) ELSE UNCHANGED accumulatorVars
      /\ UNCHANGED <<serverVars, session, asked, line, epoch>>
  BY DEF AppendBatch
<1>1. /\ call' \in [Call -> Asked] /\ Batched'
      /\ \A d \in Call : call'[d].batch \subseteq call[d].batch
  BY <1>0, Emptied DEF IInv
<1>2. PICK b \in call[c].batch : TRUE
  BY <1>0 DEF IInv, Batched
<1>3. b \in Batches /\ b.observation \in SUBSET Sample
  BY <1>2 DEF IInv, Typed, Asked, Batches
<1>4. /\ b.sequence = c /\ b.session # 0 /\ Single(b.observation)
      /\ \A o \in b.observation : o.sequence = c /\ o.session = b.session
  BY <1>2 DEF IInv, Batched
<1>5. CASE ~InOrder(b)
  <2>1. UNCHANGED accumulatorVars
    BY <1>0, <1>2, <1>5
  <2>2. Typed' /\ Lined' /\ Previous' /\ Charted'
    BY <1>0, <1>1, <2>1 DEF IInv, Typed, Lined, Previous, Charted, accumulatorVars
  <2>3. \A o \in Sample : Seen(o)' => Seen(o)
    BY <1>1, <2>1 DEF Seen, accumulatorVars
  <2>4. Ordered'
    BY <1>0, <2>3, LessInUse
  <2> QED BY <1>1, <2>2, <2>4 DEF IInv
<1>6. CASE InOrder(b)
  <2>0. Accumulated(b)
    BY <1>0, <1>2, <1>6
  <2>1. /\ held' = [session |-> b.session, last |-> b.sequence]
        /\ previous' \in [Metric -> SUBSET Sample]
        /\ \A m \in Metric : previous'[m] \in {b.observation, Before(b)[m]}
        /\ series' \in [Metric -> Seq(Drawn)] /\ ratio' \in Seq(Drawn)
        /\ \A m \in Metric : \A i \in DOMAIN series'[m] :
             \/ series'[m][i] = PointOf(m, b)
             \/ held.session = b.session /\ \E k \in DOMAIN series[m] : series'[m][i] = series[m][k]
        /\ \A i \in DOMAIN ratio' :
             \/ ratio'[i] = RatioOf(b)
             \/ held.session = b.session /\ \E k \in DOMAIN ratio : ratio'[i] = ratio[k]
    BY <1>6, <2>0, AccumulatedShape DEF IInv
  <2>2. \A m \in Metric :
          /\ Single(Before(b)[m]) /\ Before(b)[m] \subseteq previous[m]
          /\ \A p \in Before(b)[m] : p.session = b.session /\ p.sequence < b.sequence
    BY <1>3, <1>6, BeforeShape DEF IInv
  <2>3. /\ \A m \in Metric : Sound(PointOf(m, b), b.session) /\ Counted(m, PointOf(m, b))
        /\ Sound(RatioOf(b), b.session) /\ Derived(RatioOf(b))
    BY <1>2, <1>6, PointsAreSound DEF IInv
  <2>4. held' \in [session : Nat, last : Nat] /\ held'.session = b.session /\ held'.last = b.sequence
    BY <1>3, <2>1 DEF Batches
  <2>5. Typed'
    BY <1>0, <1>1, <2>1, <2>4 DEF IInv, Typed
  <2>6. Lined'
    BY <1>0 DEF IInv, Lined
  <2>7. Previous'
    <3> SUFFICES ASSUME NEW m \in Metric
                 PROVE  /\ Single(previous'[m])
                        /\ \A o \in previous'[m] : o.session = b.session /\ o.sequence <= b.sequence
      BY <2>4 DEF Previous, Single
    <3>1. CASE previous'[m] = b.observation
      <4>1. b.sequence \in Nat
        BY <1>3 DEF Batches
      <4> QED BY <1>4, <3>1, <4>1
    <3>2. CASE previous'[m] = Before(b)[m]
      <4>1. ASSUME NEW o \in Before(b)[m] PROVE o.session = b.session /\ o.sequence <= b.sequence
        <5>1. o \in Sample /\ b.sequence \in Nat
          BY <1>3, <2>2 DEF Batches, IInv, Typed
        <5> QED BY <2>2, <5>1 DEF Sample
      <4> QED BY <2>2, <3>2, <4>1
    <3> QED BY <2>1, <3>1, <3>2
  <2>8. \A o \in Sample : Seen(o)' => Seen(o)
    <3>1. ASSUME NEW o \in Sample, NEW m \in Metric, o \in previous'[m] PROVE Seen(o)
      <4>1. CASE previous'[m] = b.observation
        BY <1>2, <3>1, <4>1 DEF Seen
      <4>2. CASE previous'[m] = Before(b)[m]
        BY <2>2, <3>1, <4>2 DEF Seen
      <4> QED BY <2>1, <4>1, <4>2
    <3>2. ASSUME NEW o \in Sample, NEW d \in Call, NEW x \in call'[d].batch, o \in x.observation
          PROVE  Seen(o)
      BY <1>1, <3>2 DEF Seen
    <3> QED BY <3>1, <3>2 DEF Seen
  <2>9. Ordered'
    BY <1>0, <2>8, LessInUse
  <2>10. Charted'
    <3>1. ASSUME NEW m \in Metric, NEW i \in DOMAIN series'[m]
          PROVE  Sound(series'[m][i], b.session) /\ Counted(m, series'[m][i])
      <4>1. CASE series'[m][i] = PointOf(m, b)
        BY <2>3, <4>1
      <4>2. CASE held.session = b.session /\ \E k \in DOMAIN series[m] : series'[m][i] = series[m][k]
        <5>1. PICK k \in DOMAIN series[m] : series'[m][i] = series[m][k]
          BY <4>2
        <5>2. Sound(series[m][k], b.session) /\ Counted(m, series[m][k])
          BY <4>2 DEF IInv, Charted
        <5> QED BY <5>1, <5>2
      <4> QED BY <2>1, <4>1, <4>2
    <3>2. ASSUME NEW i \in DOMAIN ratio'
          PROVE  Sound(ratio'[i], b.session) /\ Derived(ratio'[i])
      <4>1. CASE ratio'[i] = RatioOf(b)
        BY <2>3, <4>1
      <4>2. CASE held.session = b.session /\ \E k \in DOMAIN ratio : ratio'[i] = ratio[k]
        <5>1. PICK k \in DOMAIN ratio : ratio'[i] = ratio[k]
          BY <4>2
        <5>2. Sound(ratio[k], b.session) /\ Derived(ratio[k])
          BY <4>2 DEF IInv, Charted
        <5> QED BY <5>1, <5>2
      <4> QED BY <2>1, <4>1, <4>2
    <3> QED BY <2>4, <3>1, <3>2 DEF Charted, Sound, Follows, Counted, Derived
  <2> QED BY <1>1, <2>5, <2>6, <2>7, <2>9, <2>10 DEF IInv
<1> QED BY <1>5, <1>6

LEMMA NextInv == IInv /\ [Next]_vars => IInv'
<1> SUFFICES ASSUME IInv, [Next]_vars PROVE IInv'
  OBVIOUS
<1>1. CASE Tick \/ Serve \/ Restart
  BY <1>1, ServerStep
<1>2. CASE \E metrics \in Selection : Collect(metrics)
  BY <1>2, CollectStep
<1>3. CASE NewSession
  BY <1>3, NewSessionStep
<1>4. CASE Clear
  BY <1>4, ClearStep
<1>5. CASE \E reading \in {{}, {ServerStatus}} : Deliver(reading)
  BY <1>5, DeliverStep
<1>6. CASE \E c \in Call : TimedOut(c) \/ AppendBatch(c)
  BY <1>6, TimedOutStep, AppendBatchStep
<1>7. CASE UNCHANGED vars
  <2>1. UNCHANGED <<serverVars, clientVars, line, epoch, accumulatorVars>>
    BY <1>7 DEF vars
  <2>2. Typed' /\ Lined' /\ Batched' /\ Previous' /\ Charted'
    BY <2>1 DEF IInv, Typed, Lined, Batched, Previous, Charted, serverVars, clientVars, accumulatorVars
  <2>3. \A o \in Sample : Seen(o)' <=> Seen(o)
    BY <2>1 DEF Seen, clientVars, accumulatorVars
  <2>4. \A o \in Sample : Dated(o)' <=> Dated(o)
    BY <2>1 DEF Dated, serverVars, clientVars
  <2>5. Ordered'
    BY <2>3, <2>4 DEF IInv, Ordered, Follows
  <2> QED BY <2>2, <2>5 DEF IInv
<1> QED BY <1>1, <1>2, <1>3, <1>4, <1>5, <1>6, <1>7 DEF Next

-----------------------------------------------------------------------------
(***************************************************************************)
(* The theorems                                                            *)
(***************************************************************************)
LEMMA Invariance == Spec => []IInv
BY InitInv, NextInv, PTL DEF Spec

\* What a point of a series or of the ratio is made of.
LEMMA Drawing ==
  ASSUME IInv
  PROVE  /\ \A m \in Metric : \A point \in Points(m) :
              /\ Sound(point, held.session) /\ Counted(m, point)
              /\ point.from \in [Metric -> SUBSET Sample] /\ point.to \in SUBSET Sample
         /\ \A i \in DOMAIN ratio :
              /\ Sound(ratio[i], held.session) /\ Derived(ratio[i])
              /\ ratio[i].from \in [Metric -> SUBSET Sample] /\ ratio[i].to \in SUBSET Sample
<1>1. ASSUME NEW q \in Seq(Drawn), NEW i \in DOMAIN q
      PROVE  q[i].from \in [Metric -> SUBSET Sample] /\ q[i].to \in SUBSET Sample
  <2>1. q[i] \in Drawn
    OBVIOUS
  <2> QED BY <2>1 DEF Drawn
<1>2. ASSUME NEW m \in Metric, NEW point \in Points(m)
      PROVE  /\ Sound(point, held.session) /\ Counted(m, point)
             /\ point.from \in [Metric -> SUBSET Sample] /\ point.to \in SUBSET Sample
  <2>1. PICK i \in DOMAIN series[m] : point = series[m][i]
    BY DEF Points
  <2>2. series[m] \in Seq(Drawn)
    BY DEF IInv, Typed
  <2>3. Sound(series[m][i], held.session) /\ Counted(m, series[m][i])
    BY DEF IInv, Charted
  <2> QED BY <1>1, <2>1, <2>2, <2>3
<1>3. ASSUME NEW i \in DOMAIN ratio
      PROVE  /\ Sound(ratio[i], held.session) /\ Derived(ratio[i])
             /\ ratio[i].from \in [Metric -> SUBSET Sample] /\ ratio[i].to \in SUBSET Sample
  <2>1. ratio \in Seq(Drawn)
    BY DEF IInv, Typed
  <2> QED BY <1>1, <2>1 DEF IInv, Charted
<1> QED BY <1>2, <1>3

\* However the batches of two sampling sessions come in, whatever timed out or
\* was cleared in between, and however often the server was restarted, what is
\* drawn was sampled in the session that is shown (RdbSampleAccumulator.append).
THEOREM ShownIsOneSession == Spec => []OneSession
<1>1. IInv => OneSession
  <2> SUFFICES ASSUME IInv,
                      NEW point \in {ratio[i] : i \in DOMAIN ratio} \union UNION {Points(m) : m \in Metric},
                      NEW o \in point.to \union UNION {point.from[m] : m \in Metric}
               PROVE  o.session = held.session
    BY DEF OneSession
  <2>1. Sound(point, held.session)
    <3>1. CASE point \in {ratio[i] : i \in DOMAIN ratio}
      BY <3>1, Drawing
    <3>2. CASE point \in UNION {Points(m) : m \in Metric}
      BY <3>2, Drawing
    <3> QED BY <3>1, <3>2
  <2> QED BY <2>1 DEF Sound
<1> QED BY <1>1, Invariance, PTL

\* For any number of samples, restarts and timeouts, a rate is the growth of one
\* server's counter between two samples in order, but for a restart its uptime
\* hides (buildInterval, resolveEpoch).
THEOREM RatesAreOfOneLife == Spec => []Rates
<1>1. IInv => Rates
  <2> SUFFICES ASSUME IInv, NEW m \in Metric, NEW point \in Points(m), point.status = "ok",
                      NEW p \in point.from[m], NEW o \in point.to
               PROVE  /\ p.sequence < o.sequence /\ p.at < o.at
                      /\ p.reading.boot = o.reading.boot \/ Missed(p, o)
    BY DEF Rates
  <2>1. Sound(point, held.session) /\ Counted(m, point)
    BY Drawing
  <2> QED BY <2>1 DEF Sound, Counted, Follows, Missed
<1> QED BY <1>1, Invariance, PTL

\* A ratio compares two counters over one interval, in which the reads did not
\* outgrow the requests, so that it is a percentage (appendDerived).
THEOREM RatiosArePercentages == Spec => []Ratios
<1>1. IInv => Ratios
  <2> SUFFICES ASSUME IInv, NEW i \in DOMAIN ratio, ratio[i].status = "ok",
                      NEW p \in ratio[i].from.reads, NEW q \in ratio[i].from.requests,
                      NEW o \in ratio[i].to
               PROVE  \/ Missed(p, o) \/ Missed(q, o)
                      \/ p # q
                      \/ o.reading.reads - p.reading.reads <= o.reading.requests - p.reading.requests
    BY DEF Ratios
  <2>1. Sound(ratio[i], held.session) /\ Derived(ratio[i]) /\ "reads" \in Metric
    BY Drawing DEF Metric
  <2>2. p.generation = o.generation
    BY <2>1 DEF Derived
  <2>3. Follows(p, o)
    BY <2>1 DEF Sound
  <2> QED BY <2>2, <2>3 DEF Follows, Missed
<1> QED BY <1>1, Invariance, PTL

\* A reset is shown only if the server was restarted between the two samples.
THEOREM ResetsAreRestarts == Spec => []Resets
<1>1. IInv => Resets
  <2> SUFFICES ASSUME IInv, NEW m \in Metric, NEW point \in Points(m), point.status = "reset",
                      NEW p \in point.from[m], NEW o \in point.to
               PROVE  p.reading.boot < o.reading.boot
    BY DEF Resets
  <2>1. /\ Sound(point, held.session) /\ Counted(m, point)
        /\ point.from \in [Metric -> SUBSET Sample] /\ point.to \in SUBSET Sample
    BY Drawing
  <2>2. p \in Sample /\ o \in Sample
    BY <2>1
  <2>3. Follows(p, o) /\ (p.generation # o.generation \/ o.reading[m] < p.reading[m])
    BY <2>1 DEF Sound, Counted
  <2>4. /\ p.reading.boot \in Nat /\ p.reading.reads \in Nat /\ p.reading.requests \in Nat
        /\ o.reading.boot \in Nat /\ o.reading.reads \in Nat /\ o.reading.requests \in Nat
    BY <2>2 DEF Sample
  <2>5. ASSUME p.reading.boot = o.reading.boot PROVE FALSE
    <3>1. /\ p.generation = o.generation /\ p.reading.reads <= o.reading.reads
          /\ p.reading.requests <= o.reading.requests
      BY <2>3, <2>4, <2>5 DEF Follows
    <3>2. CASE m = "reads"
      BY <2>3, <2>4, <3>1, <3>2
    <3>3. CASE m = "requests"
      BY <2>3, <2>4, <3>1, <3>3
    <3> QED BY <3>2, <3>3 DEF Metric
  <2> QED BY <2>3, <2>4, <2>5 DEF Follows
<1> QED BY <1>1, Invariance, PTL

\* For any number of samples, sessions, restarts and timeouts, and in whatever
\* order the samples come back, the rates, ratios and resets of the charts are
\* those of one life of the server (RdbSampleAccumulator.append, resolveEpoch).
THEOREM ChartsAreTrue == Spec => []PointsAreTrue
<1>1. Rates /\ Ratios /\ Resets => PointsAreTrue
  BY DEF PointsAreTrue
<1> QED BY <1>1, RatesAreOfOneLife, RatiosArePercentages, ResetsAreRestarts, PTL

-----------------------------------------------------------------------------
(*****************************************************************************)
(* VendorSampling: the providers whose sample is made of several queries     *)
(*                                                                           *)
(* The argument is about the observations that are kept, in a sample or as   *)
(* the last one of a metric.  Each is no later than now (History), and two   *)
(* of them are of lives in the order in which they were read.  What a sample *)
(* says of its epoch is true of what it read unless that is late or the      *)
(* epoch was not read (SampleOk), and stays so in what is kept (BeforeOk).   *)
(*****************************************************************************)
\* The calls, the metrics and the queries of a sample.
Samples == 1 .. MaxSamples(vendor)
Measured == {"counters", "waits"}
Asks == {"counters", "waits", "sysstat", "version", "modes"}

\* A sample has these fields.
Shape(s) ==
  s = [phase |-> s.phase, metrics |-> s.metrics, native |-> s.native, todo |-> s.todo,
       epoch |-> s.epoch, before |-> s.before, version |-> s.version, got |-> s.got,
       changed |-> s.changed, alone |-> s.alone, blind |-> s.blind]

SampleType(c) ==
  /\ Shape(sample[c])
  /\ sample[c].got = [m \in Measured |-> sample[c].got[m]]
  /\ sample[c].phase \in {"idle", "collecting", "resolved", "shown", "dropped"}
  /\ sample[c].todo \in Seq(Asks)

\* The types the proofs need.
VendorType ==
  /\ vendor \in Vendors
  /\ life \in Nat /\ growth \in Nat /\ reads \in Nat /\ begun \in Nat /\ last \in Nat
  /\ sample = [c \in Samples |-> sample[c]] /\ \A c \in Samples : SampleType(c)
  /\ before = [m \in Measured |-> before[m]]

\* An observation has these fields.
ObsType(r) ==
  /\ r = [value |-> r.value, kind |-> r.kind, life |-> r.life, at |-> r.at, late |-> r.late,
          epoch |-> r.epoch, blind |-> r.blind]
  /\ r.value \in Nat /\ r.life \in Nat /\ r.at \in Nat /\ r.kind \in {"rate", "counter"}

\* What has been observed, and is kept.
Known(r) ==
  \E m \in Measured : r \in before[m] \/ \E c \in Samples : r \in sample[c].got[m]

\* A query sees no life but that of the one before or a later one, and no less in it.
InTime(a, b) ==
  a.at <= b.at => a.life <= b.life /\ (a.life = b.life => a.value <= b.value)

\* What has been observed was so before now, in order.
History ==
  /\ \A a : Known(a) => /\ ObsType(a) /\ a.life <= life /\ a.at <= reads
                        /\ a.life = life => a.value <= growth
  /\ \A a, b : Known(a) /\ Known(b) => InTime(a, b)

\* The next query of a sample is the one that reads the epoch.
EpochNext(c) ==
  /\ sample[c].todo # <<>>
  /\ \/ vendor = "postgres" \/ Head(sample[c].todo) = "sysstat"
     \/ vendor = "sqlserver" /\ Head(sample[c].todo) = "counters"

\* What the i-th of the queries that are left may be: the epoch is read by the first.
InTurn(c, i) ==
  /\ vendor = "postgres" => sample[c].todo[i] = "counters" /\ i = 1
  /\ vendor = "sqlserver" => sample[c].todo[i] = "waits" \/ (sample[c].todo[i] = "counters" /\ i = 1)
  /\ vendor = "sqlite" => sample[c].todo[i] \in {"version", "modes"}
  /\ vendor = "oracle" => \/ sample[c].todo[i] = "waits"
                          \/ sample[c].todo[i] = "counters" /\ sample[c].native
                          \/ sample[c].todo[i] = "sysstat" /\ i = 1

\* A sample has read nothing before its epoch, and what it says of the epoch is true of
\* what is not late; its kind is that of the dashboard unless the context has changed.
SampleOk(c) ==
  /\ c > begun => sample[c].phase = "idle"
  /\ \A m \in Measured :
       /\ sample[c].phase \notin {"collecting", "resolved"} => sample[c].got[m] = {}
       /\ sample[c].phase = "collecting" /\ EpochNext(c) => sample[c].got[m] = {}
       /\ vendor = "sqlite" => sample[c].got[m] = {}
       /\ \A a, b \in sample[c].got[m] : a = b
       /\ \A r \in sample[c].got[m] :
            /\ ~sample[c].blind /\ ~r.late => sample[c].epoch = r.life
            /\ vendor = "postgres" => ~sample[c].blind /\ ~r.late
            /\ vendor = "oracle" /\ m = "counters" => (r.kind = "rate" <=> sample[c].native)
  /\ sample[c].phase = "collecting" => \A i \in 1 .. Len(sample[c].todo) : InTurn(c, i)
  /\ vendor = "oracle" /\ ~switched /\ sample[c].phase \in {"collecting", "resolved"} =>
       (sample[c].native <=> resolved = "native")

\* So does what is kept of a metric.
BeforeOk ==
  \A m \in Measured :
    /\ \A a, b \in before[m] : a = b
    /\ \A r \in before[m] : /\ ~r.blind /\ ~r.late => r.epoch = r.life
                            /\ vendor = "postgres" => ~r.blind /\ ~r.late

\* Oracle's context is the one the dashboard was resolved for unless it has changed.
ResolvedOk ==
  /\ vendor # "oracle" => resolved = "none"
  /\ resolved \in {"none", "native", "sysstat"} /\ context \in {"none", "native", "sysstat"}
  /\ ~switched /\ resolved # "none" => context = resolved
  /\ vendor = "oracle" /\ resolved = "none" =>
       points = {} /\ \A c \in Samples : sample[c].phase = "idle"

\* The points made last are what VendorSampling says of them.
PointsOk == Vendor!GrowthOfOneLife /\ Vendor!ResetsAreReal /\ Vendor!KindsMatch

\* A sample that was alone and is not given up.
Stands(c) == sample[c].alone /\ sample[c].phase \in {"resolved", "shown"}

\* SQLite: a sample that was alone found none waiting, what it has read is remembered, the
\* next one compares with it, and says so.
ChangesOk ==
  vendor = "sqlite" =>
    /\ \A c, d \in Samples :
         d < c /\ sample[c].alone /\ sample[c].phase \in {"collecting", "resolved", "shown"} =>
           sample[d].phase # "collecting"
    /\ \A c \in Samples : c = begun /\ Stands(c) => seen = sample[c].version
    /\ \A c, d \in Samples :
         /\ c = d + 1 /\ Stands(d) /\ sample[c].alone /\ sample[c].phase = "collecting" =>
              sample[c].before = sample[d].version
         /\ /\ c = d + 1 /\ Stands(d) /\ Stands(c)
            /\ sample[d].version # -1 /\ sample[c].version # -1
            => sample[c].changed = IF sample[c].version = sample[d].version THEN "no" ELSE "yes"

\* The inductive invariant of VendorSampling.
VendorInv ==
  /\ VendorType /\ History /\ \A c \in Samples : SampleOk(c)
  /\ BeforeOk /\ ResolvedOk /\ PointsOk /\ ChangesOk

\* The invariant is what the samples promise.
LEMMA VendorHonest ==
  VendorInv => /\ Vendor!GrowthOfOneLife /\ Vendor!KindsMatch
               /\ Vendor!ResetsAreReal /\ Vendor!ChangesAreSeen
<1> SUFFICES ASSUME VendorInv
             PROVE  /\ Vendor!GrowthOfOneLife /\ Vendor!KindsMatch
                    /\ Vendor!ResetsAreReal /\ Vendor!ChangesAreSeen
  OBVIOUS
<1>1. Vendor!ChangesAreSeen
  <2> SUFFICES ASSUME NEW c \in DOMAIN sample \ {1}, vendor = "sqlite",
                      {sample[c].phase, sample[c - 1].phase} \subseteq {"resolved", "shown"},
                      sample[c - 1].alone, sample[c].alone,
                      sample[c - 1].version # -1, sample[c].version # -1
               PROVE  sample[c].changed =
                        (IF sample[c].version = sample[c - 1].version THEN "no" ELSE "yes")
    BY DEF Vendor!ChangesAreSeen, Vendor!Unknown
  <2>1. DOMAIN sample = Samples /\ vendor \in Vendors
    BY DEF VendorInv, VendorType
  <2>2. MaxSamples(vendor) \in Nat
    BY <2>1, VendorAssumption
  <2>3. c \in Samples /\ c - 1 \in Samples /\ c = (c - 1) + 1
    BY <2>1, <2>2 DEF Samples
  <2> QED BY <2>3 DEF VendorInv, ChangesOk, Stands
<1> QED BY <1>1 DEF VendorInv, PointsOk

\* A call that was not made.
LEMMA IdleShape ==
  /\ Shape(Vendor!Idle) /\ Vendor!Idle.version = -1 /\ Vendor!Idle.phase = "idle"
  /\ Vendor!Idle.got = [m \in Measured |-> {}] /\ Vendor!Idle.todo = <<>>
BY DEF Vendor!Idle, Vendor!Metric, Vendor!Unknown, Shape, Measured

\* It holds before the first sample.
LEMMA VendorInit == Vendor!Init => VendorInv
<1> SUFFICES ASSUME Vendor!Init PROVE VendorInv
  OBVIOUS
<1>1. /\ vendor \in Vendors /\ life = 0 /\ growth = 0 /\ reads = 0 /\ begun = 0 /\ last = 0
      /\ context = "none" /\ resolved = "none" /\ points = {}
      /\ before = [m \in Measured |-> {}]
      /\ sample = [c \in Samples |-> Vendor!Idle]
  BY DEF Vendor!Init, Samples, Measured, Vendor!Metric
<1>2. ASSUME NEW c \in Samples
      PROVE  /\ sample[c].phase = "idle" /\ SampleType(c) /\ \A m \in Measured : sample[c].got[m] = {}
             /\ sample[c].todo = <<>>
  <2>1. sample[c] = Vendor!Idle
    BY <1>1
  <2> QED BY <2>1, IdleShape DEF SampleType
<1>3. VendorType
  BY <1>1, <1>2 DEF VendorType
<1>4. History
  BY <1>1, <1>2 DEF History, Known
<1>5. ASSUME NEW c \in Samples PROVE SampleOk(c)
  BY <1>1, <1>2 DEF SampleOk
<1>6. BeforeOk /\ ResolvedOk
  BY <1>1, <1>2 DEF BeforeOk, ResolvedOk
<1>7. PointsOk
  BY <1>1 DEF PointsOk, Vendor!GrowthOfOneLife, Vendor!ResetsAreReal, Vendor!KindsMatch
<1>8. ChangesOk
  BY <1>1, <1>2, VendorAssumption DEF ChangesOk, Stands, Samples
<1> QED BY <1>3, <1>4, <1>5, <1>6, <1>7, <1>8 DEF VendorInv

\* The server works or restarts.
LEMMA VendorWork == ASSUME VendorInv, Vendor!Work \/ Vendor!Reset PROVE VendorInv'
<1>1. /\ UNCHANGED <<vendor, reads, context, resolved, checks, known, seen, sample, begun, last,
                     before, points, switched>>
      /\ \/ life' = life /\ growth' = growth + 1
         \/ life' = life + 1 /\ growth' = 0
  BY DEF Vendor!Work, Vendor!Reset
<1>2. Samples' = Samples
  BY <1>1 DEF Samples
<1>3. VendorType'
  BY <1>1, <1>2 DEF VendorInv, VendorType, SampleType, Shape
<1>4. \A r : Known(r)' <=> Known(r)
  BY <1>1, <1>2 DEF Known
<1>5. History'
  <2>1. ASSUME NEW a, Known(a)
        PROVE  /\ ObsType(a) /\ a.life <= life' /\ a.at <= reads'
               /\ a.life = life' => a.value <= growth'
    <3>1. /\ ObsType(a) /\ a.life <= life /\ a.at <= reads
          /\ a.life = life => a.value <= growth
      BY <2>1 DEF VendorInv, History
    <3> QED BY <1>1, <3>1 DEF VendorInv, VendorType, ObsType
  <2> QED BY <1>4, <2>1 DEF VendorInv, History
<1>6. \A c \in Samples : SampleOk(c)'
  BY <1>1 DEF VendorInv, SampleOk, InTurn, EpochNext
<1>7. BeforeOk' /\ ResolvedOk'
  BY <1>1, <1>2 DEF VendorInv, BeforeOk, ResolvedOk
<1>8. PointsOk'
  BY <1>1 DEF VendorInv, PointsOk, Vendor!GrowthOfOneLife, Vendor!ResetsAreReal,
              Vendor!KindsMatch, Vendor!Unsure
<1>9. ChangesOk'
  BY <1>1, <1>2 DEF VendorInv, ChangesOk, Stands
<1> QED BY <1>2, <1>3, <1>5, <1>6, <1>7, <1>8, <1>9 DEF VendorInv

\* The capabilities are checked, the dashboard is resolved.
LEMMA VendorChecks ==
  ASSUME VendorInv, Vendor!CheckCapabilities \/ Vendor!ResolveDashboard PROVE VendorInv'
<1>1. /\ UNCHANGED <<vendor, life, growth, reads, known, seen, sample, begun, last, before,
                     points>>
      /\ vendor = "oracle"
      /\ \/ /\ context' \in {"native", "sysstat"} /\ resolved' = resolved
            /\ switched' = (switched \/ resolved \notin {"none", context'})
         \/ /\ context # "none" /\ resolved = "none" /\ resolved' = context
            /\ UNCHANGED <<context, switched>>
  BY DEF Vendor!CheckCapabilities, Vendor!ResolveDashboard
<1>2. Samples' = Samples
  BY <1>1 DEF Samples
<1>3. VendorType'
  BY <1>1, <1>2 DEF VendorInv, VendorType, SampleType, Shape
<1>4. \A r : Known(r)' <=> Known(r)
  BY <1>1, <1>2 DEF Known
<1>5. History'
  BY <1>1, <1>4 DEF VendorInv, History
<1>6. ASSUME NEW c \in Samples PROVE SampleOk(c)'
  <2>1. SampleOk(c) /\ ResolvedOk
    BY DEF VendorInv
  <2>2. ~switched' => ~switched
    BY <1>1
  <2>3. resolved' = resolved \/ sample[c].phase = "idle"
    BY <1>1, <2>1 DEF ResolvedOk
  <2> QED BY <1>1, <2>1, <2>2, <2>3 DEF SampleOk, InTurn, EpochNext
<1>7. BeforeOk' /\ ResolvedOk'
  BY <1>1, <1>2 DEF VendorInv, BeforeOk, ResolvedOk
<1>8. PointsOk'
  BY <1>1 DEF VendorInv, PointsOk, ResolvedOk, Vendor!GrowthOfOneLife, Vendor!ResetsAreReal,
              Vendor!KindsMatch, Vendor!Unsure
<1>9. ChangesOk'
  BY <1>1 DEF ChangesOk
<1> QED BY <1>2, <1>3, <1>5, <1>6, <1>7, <1>8, <1>9 DEF VendorInv

\* Short lists.
LEMMA Pair == ASSUME NEW S, NEW x \in S, NEW y \in S PROVE <<x>> \o <<y>> = <<x, y>>
<1>1. <<x>> \in Seq(S) /\ <<y>> \in Seq(S) /\ <<x, y>> \in Seq(S)
  OBVIOUS
<1>2. PICK s : s = <<x>> \o <<y>>
  OBVIOUS
<1>3. s \in Seq(S) /\ Len(s) = 2 /\ s[1] = x /\ s[2] = y
  BY <1>1, <1>2
<1>4. s = <<x, y>>
  BY <1>3
<1> QED BY <1>2, <1>4

\* Three of them.
LEMMA Triple ==
  ASSUME NEW S, NEW x \in S, NEW y \in S, NEW z \in S PROVE <<x, y>> \o <<z>> = <<x, y, z>>
<1>1. <<x, y>> \in Seq(S) /\ <<z>> \in Seq(S)
  OBVIOUS
<1>2. PICK s : s = <<x, y>> \o <<z>>
  OBVIOUS
<1>3. s \in Seq(S) /\ Len(s) = 3 /\ s[1] = x /\ s[2] = y /\ s[3] = z
  BY <1>1, <1>2
<1>4. s = <<x, y, z>>
  BY <1>3
<1> QED BY <1>2, <1>4

\* Lists put together.
LEMMA Joined ==
  ASSUME NEW S, NEW x \in S, NEW y \in S, NEW z \in S
  PROVE  /\ <<>> \o <<x>> = <<x>> /\ <<x>> \o <<>> = <<x>> /\ <<>> \o <<>> = <<>>
         /\ <<x>> \o <<y>> = <<x, y>> /\ <<x, y>> \o <<>> = <<x, y>>
         /\ <<x, y>> \o <<z>> = <<x, y, z>>
<1>1. <<>> \in Seq(S) /\ <<x>> \in Seq(S) /\ <<x, y>> \in Seq(S)
  OBVIOUS
<1>2. <<>> \o <<x>> = <<x>> /\ <<x>> \o <<>> = <<x>> /\ <<>> \o <<>> = <<>>
  BY <1>1
<1>3. <<x, y>> \o <<>> = <<x, y>>
  BY <1>1
<1> QED BY <1>2, <1>3, Pair, Triple

\* The queries a sample begins with.
LEMMA VendorQueries ==
  ASSUME NEW metrics, NEW q, q = Vendor!Queries(metrics),
         vendor \in {"postgres", "sqlserver", "oracle", "sqlite"}
  PROVE  /\ vendor = "postgres"  => q = <<"counters">>
         /\ vendor = "sqlserver" => q \in {<<>>, <<"counters">>, <<"waits">>, <<"counters", "waits">>}
         /\ vendor = "sqlite"    => q = <<"version", "modes">>
         /\ vendor = "oracle"    =>
              \/ q \in {<<"sysstat">>, <<"sysstat", "waits">>}
              \/ /\ context = "native"
                 /\ q \in {<<"sysstat", "counters">>, <<"sysstat", "counters", "waits">>}
<1> DEFINE a == IF "counters" \in metrics THEN <<"counters">> ELSE <<>>
           b == IF "waits" \in metrics THEN <<"waits">> ELSE <<>>
           n == IF context = "native" THEN a ELSE <<>>
<1>1. /\ vendor = "postgres"  => q = <<"counters">>
      /\ vendor = "sqlserver" => q = a \o b
      /\ vendor = "sqlite"    => q = <<"version", "modes">>
      /\ vendor = "oracle"    => q = <<"sysstat">> \o n \o b
  BY DEF Vendor!Queries
<1>0. {"counters", "waits", "sysstat"} \subseteq Asks
  BY DEF Asks
<1>2. a \o b \in {<<>>, <<"counters">>, <<"waits">>, <<"counters", "waits">>}
  <2>1. /\ <<>> \o <<"waits">> = <<"waits">> /\ <<"counters">> \o <<>> = <<"counters">>
        /\ <<>> \o <<>> = <<>> /\ <<"counters">> \o <<"waits">> = <<"counters", "waits">>
    BY <1>0, Joined
  <2> QED BY <2>1
<1>3. CASE vendor = "oracle"
  <2>1. <<"sysstat">> \o n = IF n = <<>> THEN <<"sysstat">> ELSE <<"sysstat", "counters">>
    <3>1. /\ <<"sysstat">> \o <<>> = <<"sysstat">>
          /\ <<"sysstat">> \o <<"counters">> = <<"sysstat", "counters">>
      BY <1>0, Joined
    <3> QED BY <3>1
  <2>2. n # <<>> => context = "native"
    OBVIOUS
  <2>3. /\ <<"sysstat">> \o b \in {<<"sysstat">>, <<"sysstat", "waits">>}
        /\ <<"sysstat", "counters">> \o b
             \in {<<"sysstat", "counters">>, <<"sysstat", "counters", "waits">>}
    <3>1. /\ <<"sysstat">> \o <<>> = <<"sysstat">>
          /\ <<"sysstat">> \o <<"waits">> = <<"sysstat", "waits">>
          /\ <<"sysstat", "counters">> \o <<>> = <<"sysstat", "counters">>
          /\ <<"sysstat", "counters">> \o <<"waits">> = <<"sysstat", "counters", "waits">>
      BY <1>0, Joined
    <3> QED BY <3>1
  <2> QED BY <1>1, <1>3, <2>1, <2>2, <2>3
<1> QED BY <1>1, <1>2, <1>3

\* A sample begins.
LEMMA VendorCollect ==
  ASSUME VendorInv, NEW metrics, Vendor!Collect(metrics) PROVE VendorInv'
<1>0. PICK e, q : e = begun + 1 /\ q = Vendor!Queries(metrics)
  OBVIOUS
<1>1. /\ vendor \in {"postgres", "sqlserver", "oracle", "sqlite"} /\ begun \in Nat
      /\ MaxSamples(vendor) \in Nat /\ sample = [c \in Samples |-> sample[c]]
  BY VendorAssumption DEF VendorInv, VendorType
<1>2. /\ begun' = begun + 1
      /\ vendor = "oracle" => context # "none" /\ resolved # "none"
      /\ e \in Samples
      /\ UNCHANGED <<vendor, life, growth, reads, context, resolved, checks, known, seen,
                     last, before, points, switched>>
  BY <1>0, <1>1 DEF Vendor!Collect, Samples
<1>3. PICK alone : alone = \A c \in DOMAIN sample : ~Vendor!Waiting(c)
  OBVIOUS
<1>4. /\ sample' = [sample EXCEPT ![e] = sample'[e]]
      /\ sample'[e].phase = "collecting" /\ sample'[e].todo = q
      /\ sample'[e].before = seen /\ sample'[e].alone = alone
      /\ (sample'[e].native <=> context = "native")
      /\ \A m \in Measured : sample'[e].got[m] = {}
      /\ SampleType(e)'
  <2> DEFINE new == [Vendor!Idle EXCEPT
           !.phase = "collecting", !.metrics = metrics,
           !.native = (context = "native"), !.todo = q,
           !.epoch = Vendor!EpochAtStart, !.before = seen, !.alone = alone]
  <2>1. sample' = [sample EXCEPT ![e] = new]
    BY <1>0, <1>3 DEF Vendor!Collect
  <2>2. sample'[e] = new /\ sample' = [sample EXCEPT ![e] = sample'[e]]
    BY <1>1, <1>2, <2>1
  <2>3. q \in Seq(Asks)
    <3>1. /\ <<"counters">> \in Seq(Asks) /\ <<"waits">> \in Seq(Asks) /\ <<>> \in Seq(Asks)
          /\ <<"counters", "waits">> \in Seq(Asks) /\ <<"version", "modes">> \in Seq(Asks)
          /\ <<"sysstat">> \in Seq(Asks) /\ <<"sysstat", "waits">> \in Seq(Asks)
          /\ <<"sysstat", "counters">> \in Seq(Asks)
          /\ <<"sysstat", "counters", "waits">> \in Seq(Asks)
      BY DEF Asks
    <3> QED BY <1>0, <1>1, <3>1, VendorQueries
  <2>4. PICK i : i = Vendor!Idle
    OBVIOUS
  <2>5. PICK native : native = (context = "native")
    OBVIOUS
  <2>6. new = [i EXCEPT !.phase = "collecting", !.metrics = metrics, !.native = native,
                        !.todo = q, !.epoch = Vendor!EpochAtStart, !.before = seen,
                        !.alone = alone]
    BY <2>4, <2>5
  <2>7. Shape(i) /\ i.got = [m \in Measured |-> {}]
    BY <2>4, IdleShape
  <2> HIDE DEF new
  <2>8. /\ new.phase = "collecting" /\ new.todo = q /\ new.before = seen /\ new.alone = alone
        /\ new.native = native /\ new.got = [m \in Measured |-> {}] /\ Shape(new)
    BY <2>6, <2>7 DEF Shape
  <2> QED BY <2>2, <2>3, <2>5, <2>8 DEF SampleType
<1>5. Samples' = Samples /\ \A c \in Samples \ {e} : sample'[c] = sample[c]
  BY <1>1, <1>2, <1>4 DEF Samples
<1>6. VendorType'
  BY <1>1, <1>2, <1>4, <1>5 DEF VendorInv, VendorType, SampleType, Shape
<1>7. \A r : Known(r)' => Known(r)
  BY <1>2, <1>4, <1>5 DEF Known
<1>8. History'
  BY <1>2, <1>7 DEF VendorInv, History
<1>9. ASSUME NEW i \in 1 .. Len(q) PROVE InTurn(e, i)'
  <2>1. sample'[e].todo[i] = q[i]
    BY <1>4
  <2>2. /\ vendor = "postgres"  => q = <<"counters">>
        /\ vendor = "sqlserver" => q \in {<<>>, <<"counters">>, <<"waits">>, <<"counters", "waits">>}
        /\ vendor = "sqlite"    => q = <<"version", "modes">>
        /\ vendor = "oracle"    =>
              \/ q \in {<<"sysstat">>, <<"sysstat", "waits">>}
              \/ /\ context = "native"
                 /\ q \in {<<"sysstat", "counters">>, <<"sysstat", "counters", "waits">>}
    BY <1>0, <1>1, VendorQueries
  <2> QED BY <1>1, <1>2, <1>4, <2>1, <2>2 DEF InTurn
<1>10. SampleOk(e)'
  BY <1>0, <1>1, <1>2, <1>4, <1>9 DEF SampleOk, VendorInv, ResolvedOk
<1>11. ASSUME NEW c \in Samples \ {e} PROVE SampleOk(c)'
  BY <1>0, <1>1, <1>2, <1>5 DEF VendorInv, SampleOk, InTurn, EpochNext, Samples
<1>12. BeforeOk' /\ ResolvedOk'
  BY <1>2, <1>5 DEF VendorInv, BeforeOk, ResolvedOk
<1>13. PointsOk'
  BY <1>2 DEF VendorInv, PointsOk, Vendor!GrowthOfOneLife, Vendor!ResetsAreReal,
              Vendor!KindsMatch, Vendor!Unsure
<1>14. ChangesOk'
  <2> SUFFICES ASSUME vendor = "sqlite" PROVE ChangesOk'
    BY <1>2 DEF ChangesOk
  <2>1. ChangesOk /\ \A c \in Samples : c > begun => sample[c].phase = "idle"
    BY DEF VendorInv, SampleOk
  <2>2. \A c \in Samples : alone => sample[c].phase # "collecting"
    BY <1>1, <1>3 DEF Vendor!Waiting
  <2>3. Samples \subseteq Nat
    BY <1>1 DEF Samples
  <2>4. \A c, d \in Samples :
          d < c /\ sample'[c].alone /\ sample'[c].phase \in {"collecting", "resolved", "shown"} =>
            sample'[d].phase # "collecting"
    BY <1>0, <1>1, <1>2, <1>4, <1>5, <2>1, <2>2, <2>3 DEF ChangesOk
  <2>5. \A c \in Samples : c = begun' /\ Stands(c)' => seen' = sample'[c].version
    BY <1>0, <1>2, <1>4 DEF Stands
  <2>6. ASSUME NEW c \in Samples, NEW d \in Samples, c = d + 1, Stands(d)',
               sample'[c].alone, sample'[c].phase = "collecting"
        PROVE  sample'[c].before = sample'[d].version
    <3>1. d # e /\ sample'[d] = sample[d] /\ Stands(d)
      BY <1>4, <1>5, <2>6 DEF Stands
    <3>2. CASE c = e
      BY <1>0, <1>1, <1>2, <1>4, <2>1, <2>3, <2>6, <3>1, <3>2 DEF ChangesOk
    <3>3. CASE c # e
      BY <1>5, <2>1, <2>6, <3>1, <3>3 DEF ChangesOk
    <3> QED BY <3>2, <3>3
  <2>7. ASSUME NEW c \in Samples, NEW d \in Samples, c = d + 1, Stands(d)', Stands(c)',
               sample'[d].version # -1, sample'[c].version # -1
        PROVE  sample'[c].changed = IF sample'[c].version = sample'[d].version THEN "no" ELSE "yes"
    <3>1. sample'[d] = sample[d] /\ sample'[c] = sample[c] /\ Stands(d) /\ Stands(c)
      BY <1>4, <1>5, <2>7 DEF Stands
    <3> QED BY <2>1, <2>7, <3>1 DEF ChangesOk
  <2> QED BY <1>2, <1>5, <2>4, <2>5, <2>6, <2>7 DEF ChangesOk
<1> QED BY <1>2, <1>5, <1>6, <1>8, <1>10, <1>11, <1>12, <1>13, <1>14 DEF VendorInv

\* A query that reads the epoch and a metric with it.
WithEpoch(s, e, g) ==
  [[s EXCEPT !.todo = Tail(s.todo), !.epoch = e, !.blind = FALSE] EXCEPT !.got["counters"] = g]

\* It leaves the rest of the sample as it was.
LEMMA EpochRead ==
  ASSUME NEW s, Shape(s), s.got = [m \in Measured |-> s.got[m]], NEW e, NEW g,
         NEW new, new = WithEpoch(s, e, g)
  PROVE  /\ Shape(new) /\ new.phase = s.phase /\ new.todo = Tail(s.todo)
         /\ new.before = s.before /\ new.alone = s.alone /\ new.native = s.native
         /\ new.got = [m \in Measured |-> new.got[m]]
         /\ new.epoch = e /\ ~new.blind
         /\ new.got["counters"] = g /\ new.got["waits"] = s.got["waits"]
<1>1. PICK t : t = [s EXCEPT !.todo = Tail(s.todo), !.epoch = e, !.blind = FALSE]
  OBVIOUS
<1>2. /\ Shape(t) /\ t.phase = s.phase /\ t.todo = Tail(s.todo) /\ t.before = s.before
      /\ t.alone = s.alone /\ t.native = s.native /\ t.got = s.got /\ t.epoch = e
      /\ t.blind = FALSE
  BY <1>1 DEF Shape
<1>3. new = [t EXCEPT !.got["counters"] = g]
  BY <1>1 DEF WithEpoch
<1>4. PICK h : h = [t.got EXCEPT !["counters"] = g]
  OBVIOUS
<1>5. new = [t EXCEPT !.got = h]
  BY <1>3, <1>4
<1>6. /\ Shape(new) /\ new.phase = t.phase /\ new.todo = t.todo /\ new.before = t.before
      /\ new.alone = t.alone /\ new.native = t.native /\ new.got = h /\ new.epoch = t.epoch
      /\ new.blind = t.blind
  BY <1>2, <1>5 DEF Shape
<1>7. /\ h = [m \in Measured |-> h[m]] /\ h["counters"] = g /\ h["waits"] = s.got["waits"]
  BY <1>2, <1>4 DEF Measured
<1> QED BY <1>2, <1>6, <1>7

\* What a query makes of its sample: it reads the epoch, reads a metric after it, or
\* reads a PRAGMA.
FoundOk(c, new) ==
  /\ Shape(new) /\ new.phase = "collecting" /\ new.todo = Tail(sample[c].todo)
  /\ new.before = sample[c].before /\ new.alone = sample[c].alone
  /\ new.native = sample[c].native /\ new.got = [m \in Measured |-> new.got[m]]
  /\ \/ /\ EpochNext(c) /\ new.epoch = life /\ ~new.blind /\ vendor # "sqlite"
        /\ new.got["waits"] = {}
        /\ \/ new.got["counters"] = {} /\ vendor = "oracle"
           \/ /\ new.got["counters"] = Vendor!Read("counter", FALSE)
              /\ vendor = "oracle" => ~sample[c].native
     \/ /\ new.epoch = sample[c].epoch /\ new.blind = sample[c].blind
        /\ vendor \in {"sqlserver", "oracle"}
        /\ \E m \in Measured, kind \in {"rate", "counter"} :
             /\ new.got = [sample[c].got EXCEPT ![m] = Vendor!Read(kind, Vendor!Late(c))]
             /\ vendor = "oracle" /\ m = "counters" => kind = "rate" /\ sample[c].native
     \/ /\ new.epoch = sample[c].epoch /\ new.blind = sample[c].blind
        /\ vendor = "sqlite" /\ new.got = sample[c].got

\* The next query does one of these.
LEMMA VendorFound ==
  ASSUME VendorInv, NEW c \in Samples, sample[c].phase = "collecting", sample[c].todo # <<>>,
         NEW q, q = Head(sample[c].todo), NEW new, new = Vendor!Found(c, q)
  PROVE  FoundOk(c, new)
<1>1. /\ Shape(sample[c]) /\ sample[c].got = [m \in Measured |-> sample[c].got[m]]
      /\ vendor \in {"postgres", "sqlserver", "oracle", "sqlite"}
      /\ sample[c].todo \in Seq(Asks)
  BY VendorAssumption DEF VendorInv, VendorType, SampleType
<1>2. 1 \in 1 .. Len(sample[c].todo) /\ q = sample[c].todo[1]
  BY <1>1
<1>3. InTurn(c, 1) /\ \A m \in Measured : EpochNext(c) => sample[c].got[m] = {}
  BY <1>2 DEF VendorInv, SampleOk
<1>4. PICK s : s = sample[c]
  OBVIOUS
<1>5. CASE vendor = "postgres"
  <2>1. q = "counters" /\ EpochNext(c)
    BY <1>2, <1>3, <1>5 DEF InTurn, EpochNext
  <2>2. new = [[s EXCEPT !.todo = Tail(s.todo), !.epoch = life, !.blind = FALSE]
                 EXCEPT !.got["counters"] = Vendor!Read("counter", FALSE)]
    BY <1>4, <1>5, <2>1 DEF Vendor!Found, Vendor!DatabaseRow, Vendor!Epoch
  <2>3. s.got = [m \in Measured |-> s.got[m]] /\ Shape(s)
    BY <1>1, <1>4
  <2>4. PICK e, g : e = life /\ g = Vendor!Read("counter", FALSE)
    OBVIOUS
  <2>5. new = WithEpoch(s, e, g)
    BY <2>2, <2>4 DEF WithEpoch
  <2>6. /\ Shape(new) /\ new.phase = s.phase /\ new.todo = Tail(s.todo)
        /\ new.before = s.before /\ new.alone = s.alone /\ new.native = s.native
        /\ new.got = [m \in Measured |-> new.got[m]]
        /\ new.epoch = e /\ ~new.blind
        /\ new.got["counters"] = g /\ new.got["waits"] = s.got["waits"]
    BY <2>3, <2>5, EpochRead
  <2>7. s.got["waits"] = {}
    BY <1>3, <1>4, <2>1 DEF Measured
  <2> QED BY <1>4, <1>5, <2>1, <2>4, <2>6, <2>7 DEF FoundOk
<1>6. CASE vendor = "sqlserver"
  <2>1. CASE q = "counters"
    <3>1. EpochNext(c)
      BY <1>6, <2>1 DEF EpochNext
    <3>2. new = [[s EXCEPT !.todo = Tail(s.todo), !.epoch = life, !.blind = FALSE]
                   EXCEPT !.got["counters"] = Vendor!Read("counter", FALSE)]
      BY <1>4, <1>6, <2>1 DEF Vendor!Found, Vendor!PerformanceCounters, Vendor!Epoch
    <3>3. s.got = [m \in Measured |-> s.got[m]] /\ Shape(s)
      BY <1>1, <1>4
    <3>4. PICK e, g : e = life /\ g = Vendor!Read("counter", FALSE)
      OBVIOUS
    <3>5. new = WithEpoch(s, e, g)
      BY <3>2, <3>4 DEF WithEpoch
    <3>6. /\ Shape(new) /\ new.phase = s.phase /\ new.todo = Tail(s.todo)
          /\ new.before = s.before /\ new.alone = s.alone /\ new.native = s.native
          /\ new.got = [m \in Measured |-> new.got[m]]
          /\ new.epoch = e /\ ~new.blind
          /\ new.got["counters"] = g /\ new.got["waits"] = s.got["waits"]
      BY <3>3, <3>5, EpochRead
    <3>7. s.got["waits"] = {}
      BY <1>3, <1>4, <3>1 DEF Measured
    <3> QED BY <1>4, <1>6, <3>1, <3>4, <3>6, <3>7 DEF FoundOk
  <2>2. CASE q = "waits"
    <3>1. new = [s EXCEPT !.todo = Tail(s.todo),
                          !.got["waits"] = Vendor!Read("counter", Vendor!Late(c))]
      BY <1>4, <1>6, <2>2 DEF Vendor!Found, Vendor!Waits, Vendor!After
    <3> QED BY <1>1, <1>4, <1>6, <3>1 DEF FoundOk, Shape, Measured
  <2> QED BY <1>2, <1>3, <1>6, <2>1, <2>2 DEF InTurn
<1>7. CASE vendor = "oracle"
  <2>1. CASE q = "sysstat"
    <3>1. EpochNext(c)
      BY <1>7, <2>1 DEF EpochNext
    <3>2. PICK g : g = IF "counters" \in s.metrics /\ ~s.native
                       THEN Vendor!Read("counter", FALSE) ELSE {}
      OBVIOUS
    <3>3. new = [[s EXCEPT !.todo = Tail(s.todo), !.epoch = life, !.blind = FALSE]
                   EXCEPT !.got["counters"] = g]
      BY <1>4, <1>7, <2>1, <3>2 DEF Vendor!Found, Vendor!SystemStatistics, Vendor!Epoch
    <3>4. s.got = [m \in Measured |-> s.got[m]] /\ Shape(s)
      BY <1>1, <1>4
    <3>5. PICK e : e = life
      OBVIOUS
    <3>6. new = WithEpoch(s, e, g)
      BY <3>3, <3>5 DEF WithEpoch
    <3>7. /\ Shape(new) /\ new.phase = s.phase /\ new.todo = Tail(s.todo)
          /\ new.before = s.before /\ new.alone = s.alone /\ new.native = s.native
          /\ new.got = [m \in Measured |-> new.got[m]]
          /\ new.epoch = e /\ ~new.blind
          /\ new.got["counters"] = g /\ new.got["waits"] = s.got["waits"]
      BY <3>4, <3>6, EpochRead
    <3>8. s.got["waits"] = {}
      BY <1>3, <1>4, <3>1 DEF Measured
    <3> QED BY <1>4, <1>7, <3>1, <3>2, <3>5, <3>7, <3>8 DEF FoundOk
  <2>2. CASE q = "counters"
    <3>1. new = [s EXCEPT !.todo = Tail(s.todo),
                          !.got["counters"] = Vendor!Read("rate", Vendor!Late(c))]
      BY <1>4, <1>7, <2>2 DEF Vendor!Found, Vendor!NativeMetrics, Vendor!After
    <3>2. sample[c].native
      BY <1>2, <1>3, <1>7, <2>2 DEF InTurn
    <3> QED BY <1>1, <1>4, <1>7, <3>1, <3>2 DEF FoundOk, Shape, Measured
  <2>3. CASE q = "waits"
    <3>1. new = [s EXCEPT !.todo = Tail(s.todo),
                          !.got["waits"] = Vendor!Read("counter", Vendor!Late(c))]
      BY <1>4, <1>7, <2>3 DEF Vendor!Found, Vendor!Waits, Vendor!After
    <3> QED BY <1>1, <1>4, <1>7, <3>1 DEF FoundOk, Shape, Measured
  <2> QED BY <1>2, <1>3, <1>7, <2>1, <2>2, <2>3 DEF InTurn
<1>8. CASE vendor = "sqlite"
  <2>1. q \in {"version", "modes"}
    BY <1>2, <1>3, <1>8 DEF InTurn
  <2>2. \E v : new = [s EXCEPT !.todo = Tail(s.todo), !.version = v]
    BY <1>4, <1>8, <2>1 DEF Vendor!Found, Vendor!Pragma
  <2> QED BY <1>1, <1>4, <1>8, <2>2 DEF FoundOk, Shape
<1> QED BY <1>1, <1>5, <1>6, <1>7, <1>8

\* What is left to ask after a query does not read the epoch any more.
LEMMA VendorTail ==
  ASSUME VendorInv, NEW c \in Samples, sample[c].phase = "collecting", sample[c].todo # <<>>,
         NEW t, t \in {<<>>, Tail(sample[c].todo)}
  PROVE  /\ t \in Seq(Asks)
         /\ \A i \in 1 .. Len(t) : i + 1 \in 2 .. Len(sample[c].todo) /\ t[i] = sample[c].todo[i + 1]
         /\ t # <<>> => /\ vendor # "postgres" /\ Head(t) # "sysstat"
                        /\ vendor = "sqlserver" => Head(t) # "counters"
<1>1. sample[c].todo \in Seq(Asks) /\ vendor \in {"postgres", "sqlserver", "oracle", "sqlite"}
  BY VendorAssumption DEF VendorInv, VendorType, SampleType
<1>2. \A i \in 1 .. Len(sample[c].todo) : InTurn(c, i)
  BY DEF VendorInv, SampleOk
<1>3. t \in Seq(Asks)
  <2>1. Tail(sample[c].todo) \in Seq(Asks) /\ <<>> \in Seq(Asks)
    BY <1>1
  <2> QED BY <2>1
<1>4. \A i \in 1 .. Len(t) : i + 1 \in 2 .. Len(sample[c].todo) /\ t[i] = sample[c].todo[i + 1]
  BY <1>1
<1>5. ASSUME t # <<>>
      PROVE  /\ vendor # "postgres" /\ Head(t) # "sysstat"
             /\ vendor = "sqlserver" => Head(t) # "counters"
  <2>1. 1 \in 1 .. Len(t) /\ Head(t) = t[1]
    BY <1>3, <1>5
  <2>2. 2 \in 1 .. Len(sample[c].todo) /\ Head(t) = sample[c].todo[2]
    BY <1>1, <1>4, <2>1
  <2> QED BY <1>1, <1>2, <2>2 DEF InTurn
<1> QED BY <1>3, <1>4, <1>5

\* The flags and the phase of a sample that goes on keep what is said of changes.
LEMMA VendorGoesOn ==
  ASSUME VendorInv, NEW c \in Samples, sample[c].phase = "collecting", NEW new,
         sample' = [sample EXCEPT ![c] = new],
         new.phase = "collecting", new.before = sample[c].before, new.alone = sample[c].alone,
         UNCHANGED <<vendor, resolved, context, switched, points, seen, begun>>
  PROVE  /\ Samples' = Samples /\ sample'[c] = new
         /\ sample' = [x \in Samples |-> sample'[x]]
         /\ \A x \in Samples \ {c} : sample'[x] = sample[x]
         /\ c <= begun /\ ResolvedOk' /\ PointsOk' /\ ChangesOk'
<1>1. Samples' = Samples
  BY DEF Samples
<1>2. /\ sample = [x \in Samples |-> sample[x]] /\ begun \in Nat /\ vendor \in Vendors
      /\ c \in Nat
  BY VendorAssumption DEF VendorInv, VendorType, Samples
<1>3. sample'[c] = new /\ \A x \in Samples \ {c} : sample'[x] = sample[x]
  BY <1>2
<1>4. sample' = [x \in Samples |-> sample'[x]]
  BY <1>2
<1>5. c <= begun
  BY <1>2 DEF VendorInv, SampleOk
<1>6. ResolvedOk'
  BY <1>1, <1>3 DEF VendorInv, ResolvedOk
<1>7. PointsOk'
  BY DEF VendorInv, PointsOk, Vendor!GrowthOfOneLife, Vendor!ResetsAreReal,
         Vendor!KindsMatch, Vendor!Unsure
<1>8. ChangesOk'
  <2> SUFFICES ASSUME vendor = "sqlite" PROVE ChangesOk'
    BY DEF ChangesOk
  <2>1. ChangesOk
    BY DEF VendorInv
  <2>2. \A x \in Samples : Stands(x)' => x # c /\ Stands(x) /\ sample'[x] = sample[x]
    BY <1>3 DEF Stands
  <2>3. \A x \in Samples : /\ sample'[x].phase = sample[x].phase
                           /\ sample'[x].alone = sample[x].alone
                           /\ sample'[x].before = sample[x].before
    BY <1>3
  <2>4. \A x, y \in Samples :
          y < x /\ sample'[x].alone /\ sample'[x].phase \in {"collecting", "resolved", "shown"} =>
            sample'[y].phase # "collecting"
    BY <2>1, <2>3 DEF ChangesOk
  <2>5. \A x \in Samples : x = begun' /\ Stands(x)' => seen' = sample'[x].version
    BY <2>1, <2>2 DEF ChangesOk
  <2>6. \A x, y \in Samples :
          x = y + 1 /\ Stands(y)' /\ sample'[x].alone /\ sample'[x].phase = "collecting" =>
            sample'[x].before = sample'[y].version
    BY <2>1, <2>2, <2>3 DEF ChangesOk
  <2>7. \A x, y \in Samples :
          /\ x = y + 1 /\ Stands(y)' /\ Stands(x)'
          /\ sample'[y].version # -1 /\ sample'[x].version # -1
          => sample'[x].changed = IF sample'[x].version = sample'[y].version THEN "no" ELSE "yes"
    BY <2>1, <2>2 DEF ChangesOk
  <2> QED BY <1>1, <2>4, <2>5, <2>6, <2>7 DEF ChangesOk
<1> QED BY <1>1, <1>3, <1>4, <1>5, <1>6, <1>7, <1>8

\* A query that fails.
LEMMA VendorFailed == ASSUME VendorInv, NEW c \in Samples, Vendor!Failed(c) PROVE VendorInv'
<1>1. /\ sample[c].phase = "collecting" /\ sample[c].todo # <<>>
      /\ UNCHANGED <<vendor, life, growth, reads, context, resolved, checks, known, seen,
                     begun, last, before, points, switched>>
  BY DEF Vendor!Failed, Vendor!Waiting
<1>2. /\ Shape(sample[c]) /\ sample[c].got = [m \in Measured |-> sample[c].got[m]]
      /\ sample = [x \in Samples |-> sample[x]]
  BY DEF VendorInv, VendorType, SampleType
<1>3. PICK s, t : s = sample[c] /\ t = IF vendor = "sqlite" THEN <<>> ELSE Tail(s.todo)
  OBVIOUS
<1>4. PICK new : new = [s EXCEPT !.todo = t, !.version = -1]
  OBVIOUS
<1>5. sample' = [sample EXCEPT ![c] = new]
  BY <1>2, <1>3, <1>4 DEF Vendor!Failed, Vendor!Unknown
<1>6. /\ Shape(new) /\ new.phase = "collecting" /\ new.todo = t /\ new.before = sample[c].before
      /\ new.alone = sample[c].alone /\ new.native = sample[c].native
      /\ new.got = sample[c].got /\ new.epoch = sample[c].epoch /\ new.blind = sample[c].blind
  BY <1>1, <1>2, <1>3, <1>4 DEF Shape
<1>7. t \in {<<>>, Tail(sample[c].todo)}
  BY <1>3
<1>8. /\ t \in Seq(Asks)
      /\ \A i \in 1 .. Len(t) : i + 1 \in 2 .. Len(sample[c].todo) /\ t[i] = sample[c].todo[i + 1]
      /\ t # <<>> => /\ vendor # "postgres" /\ Head(t) # "sysstat"
                     /\ vendor = "sqlserver" => Head(t) # "counters"
  BY <1>1, <1>7, VendorTail
<1>9. /\ Samples' = Samples /\ sample'[c] = new
      /\ sample' = [x \in Samples |-> sample'[x]]
      /\ \A x \in Samples \ {c} : sample'[x] = sample[x]
      /\ c <= begun /\ ResolvedOk' /\ PointsOk' /\ ChangesOk'
  BY <1>1, <1>5, <1>6, VendorGoesOn
<1>10. SampleType(c)'
  BY <1>2, <1>6, <1>8, <1>9 DEF SampleType, Shape
<1>11. \A x \in Samples \ {c} : SampleType(x)'
  BY <1>9 DEF VendorInv, VendorType, SampleType, Shape
<1>12. VendorType'
  BY <1>1, <1>9, <1>10, <1>11 DEF VendorInv, VendorType
<1>13. \A r : Known(r)' <=> Known(r)
  BY <1>1, <1>6, <1>9 DEF Known
<1>14. History'
  BY <1>1, <1>13 DEF VendorInv, History
<1>15. SampleOk(c)'
  <2>1. SampleOk(c) /\ ~EpochNext(c)' /\ c \in Nat /\ begun \in Nat
    BY <1>1, <1>6, <1>8, <1>9, VendorAssumption
       DEF VendorInv, EpochNext, VendorType, Samples
  <2>2. \A i \in 1 .. Len(sample'[c].todo) : InTurn(c, i)'
    <3>1. ASSUME NEW i \in 1 .. Len(t) PROVE InTurn(c, i)'
      <4>1. i + 1 \in 1 .. Len(sample[c].todo) /\ i + 1 # 1 /\ t[i] = sample[c].todo[i + 1]
        BY <1>8, <3>1
      <4>2. InTurn(c, i + 1)
        BY <1>1, <2>1, <4>1 DEF SampleOk
      <4> QED BY <1>1, <1>6, <1>9, <4>1, <4>2 DEF InTurn
    <3> QED BY <1>6, <1>9, <3>1
  <2> QED BY <1>1, <1>6, <1>9, <2>1, <2>2 DEF SampleOk
<1>16. \A x \in Samples \ {c} : SampleOk(x)'
  BY <1>1, <1>9 DEF VendorInv, SampleOk, InTurn, EpochNext
<1>17. BeforeOk'
  BY <1>1 DEF VendorInv, BeforeOk
<1> QED BY <1>9, <1>12, <1>14, <1>15, <1>16, <1>17 DEF VendorInv

\* What a query reads is an observation of now.
LEMMA VendorRead ==
  ASSUME NEW kind \in {"rate", "counter"}, NEW late, NEW r \in Vendor!Read(kind, late), VendorType
  PROVE  /\ ObsType(r) /\ r.value = growth /\ r.life = life /\ r.at = reads + 1
         /\ r.kind = kind /\ r.late = late /\ \A x \in Vendor!Read(kind, late) : x = r
BY DEF Vendor!Read, ObsType, VendorType

\* A query that is answered.
LEMMA VendorAnswered == ASSUME VendorInv, NEW c \in Samples, Vendor!Answered(c) PROVE VendorInv'
<1>1. /\ sample[c].phase = "collecting" /\ sample[c].todo # <<>> /\ reads' = reads + 1
      /\ UNCHANGED <<vendor, life, growth, context, resolved, checks, seen,
                     begun, last, before, points, switched>>
  BY DEF Vendor!Answered, Vendor!Waiting
<1>2. /\ Shape(sample[c]) /\ sample[c].got = [m \in Measured |-> sample[c].got[m]]
      /\ sample = [x \in Samples |-> sample[x]]
      /\ life \in Nat /\ growth \in Nat /\ reads \in Nat /\ VendorType
  BY DEF VendorInv, VendorType, SampleType
<1>3. PICK q : q = Head(sample[c].todo)
  OBVIOUS
<1>4. PICK new : new = Vendor!Found(c, q)
  OBVIOUS
<1>5. sample' = [sample EXCEPT ![c] = new]
  BY <1>3, <1>4 DEF Vendor!Answered
<1>6. /\ Shape(new) /\ new.phase = "collecting" /\ new.todo = Tail(sample[c].todo)
      /\ new.before = sample[c].before /\ new.alone = sample[c].alone
      /\ new.native = sample[c].native /\ new.got = [m \in Measured |-> new.got[m]]
      /\ \/ /\ EpochNext(c) /\ new.epoch = life /\ ~new.blind /\ vendor # "sqlite"
            /\ new.got["waits"] = {}
            /\ \/ new.got["counters"] = {} /\ vendor = "oracle"
               \/ /\ new.got["counters"] = Vendor!Read("counter", FALSE)
                  /\ vendor = "oracle" => ~sample[c].native
         \/ /\ new.epoch = sample[c].epoch /\ new.blind = sample[c].blind
            /\ vendor \in {"sqlserver", "oracle"}
            /\ \E m \in Measured, kind \in {"rate", "counter"} :
                 /\ new.got = [sample[c].got EXCEPT ![m] = Vendor!Read(kind, Vendor!Late(c))]
                 /\ vendor = "oracle" /\ m = "counters" => kind = "rate" /\ sample[c].native
         \/ /\ new.epoch = sample[c].epoch /\ new.blind = sample[c].blind
            /\ vendor = "sqlite" /\ new.got = sample[c].got
  <2>1. FoundOk(c, new)
    BY <1>1, <1>3, <1>4, VendorFound
  <2> QED BY <2>1 DEF FoundOk
<1>7. PICK t : t = Tail(sample[c].todo)
  OBVIOUS
<1>8. /\ t \in Seq(Asks)
      /\ \A i \in 1 .. Len(t) : i + 1 \in 2 .. Len(sample[c].todo) /\ t[i] = sample[c].todo[i + 1]
      /\ t # <<>> => /\ vendor # "postgres" /\ Head(t) # "sysstat"
                     /\ vendor = "sqlserver" => Head(t) # "counters"
  BY <1>1, <1>7, VendorTail
<1>9. /\ Samples' = Samples /\ sample'[c] = new
      /\ sample' = [x \in Samples |-> sample'[x]]
      /\ \A x \in Samples \ {c} : sample'[x] = sample[x]
      /\ c <= begun /\ ResolvedOk' /\ PointsOk' /\ ChangesOk'
  BY <1>1, <1>5, <1>6, VendorGoesOn
<1>10. SampleType(c)'
  BY <1>6, <1>7, <1>8, <1>9 DEF SampleType, Shape
<1>11. \A x \in Samples \ {c} : SampleType(x)'
  BY <1>9 DEF VendorInv, VendorType, SampleType, Shape
<1>12. VendorType'
  BY <1>1, <1>9, <1>10, <1>11 DEF VendorInv, VendorType
<1>13. SampleOk(c)
  BY DEF VendorInv
\* What the sample has for a metric now: what it had, or what was read just now.
<1>14. ASSUME NEW m \in Measured
       PROVE  /\ \A a, b \in new.got[m] : a = b
              /\ vendor = "sqlite" => new.got[m] = {}
              /\ \A r \in new.got[m] :
                   /\ \/ /\ r \in sample[c].got[m]
                         /\ new.epoch = sample[c].epoch /\ new.blind = sample[c].blind
                      \/ /\ ObsType(r) /\ r.value = growth /\ r.life = life /\ r.at = reads + 1
                         /\ vendor = "oracle" /\ m = "counters" =>
                              (r.kind = "rate" <=> sample[c].native)
                   /\ ~new.blind /\ ~r.late => new.epoch = r.life
                   /\ vendor = "postgres" => ~new.blind /\ ~r.late
                   /\ vendor = "oracle" /\ m = "counters" => (r.kind = "rate" <=> sample[c].native)
  <2>1. /\ \A a, b \in sample[c].got[m] : a = b
        /\ vendor = "sqlite" => sample[c].got[m] = {}
        /\ \A r \in sample[c].got[m] :
             /\ ~sample[c].blind /\ ~r.late => sample[c].epoch = r.life
             /\ vendor = "postgres" => ~sample[c].blind /\ ~r.late
             /\ vendor = "oracle" /\ m = "counters" => (r.kind = "rate" <=> sample[c].native)
    BY <1>13 DEF SampleOk
  <2>2. CASE /\ EpochNext(c) /\ new.epoch = life /\ ~new.blind /\ vendor # "sqlite"
             /\ new.got["waits"] = {}
             /\ \/ new.got["counters"] = {} /\ vendor = "oracle"
                \/ /\ new.got["counters"] = Vendor!Read("counter", FALSE)
                   /\ vendor = "oracle" => ~sample[c].native
    <3>1. CASE new.got[m] = {}
      BY <2>2, <3>1
    <3>2. CASE m = "counters" /\ new.got[m] = Vendor!Read("counter", FALSE)
      <4>1. /\ \A a, b \in new.got[m] : a = b
            /\ \A r \in new.got[m] : /\ ObsType(r) /\ r.value = growth /\ r.life = life
                                     /\ r.at = reads + 1 /\ r.kind = "counter" /\ r.late = FALSE
        BY <1>2, <3>2 DEF Vendor!Read, ObsType
      <4>2. vendor = "oracle" => ~sample[c].native
        BY <2>2, <3>2, <4>1, <1>2 DEF Vendor!Read
      <4> QED BY <2>2, <4>1, <4>2
    <3> QED BY <2>2, <3>1, <3>2 DEF Measured
  <2>3. CASE /\ new.epoch = sample[c].epoch /\ new.blind = sample[c].blind
             /\ vendor \in {"sqlserver", "oracle"}
             /\ \E n \in Measured, kind \in {"rate", "counter"} :
                  /\ new.got = [sample[c].got EXCEPT ![n] = Vendor!Read(kind, Vendor!Late(c))]
                  /\ vendor = "oracle" /\ n = "counters" => kind = "rate" /\ sample[c].native
    <3>1. PICK n \in Measured, kind \in {"rate", "counter"} :
             /\ new.got = [sample[c].got EXCEPT ![n] = Vendor!Read(kind, Vendor!Late(c))]
             /\ vendor = "oracle" /\ n = "counters" => kind = "rate" /\ sample[c].native
      BY <2>3
    <3>2. CASE n = m
      <4>1. new.got[m] = Vendor!Read(kind, Vendor!Late(c))
        BY <1>2, <3>1, <3>2
      <4>2. /\ \A a, b \in new.got[m] : a = b
            /\ \A r \in new.got[m] : /\ ObsType(r) /\ r.value = growth /\ r.life = life
                                     /\ r.at = reads + 1 /\ r.kind = kind
                                     /\ r.late = Vendor!Late(c)
        BY <1>2, <4>1, VendorRead
      <4>3. ~new.blind /\ ~Vendor!Late(c) => new.epoch = life
        BY <2>3 DEF Vendor!Late
      <4> QED BY <2>3, <3>1, <3>2, <4>2, <4>3
    <3>3. CASE n # m
      <4>1. new.got[m] = sample[c].got[m]
        BY <1>2, <3>1, <3>3
      <4> QED BY <2>1, <2>3, <4>1
    <3> QED BY <3>2, <3>3
  <2>4. CASE /\ new.epoch = sample[c].epoch /\ new.blind = sample[c].blind
             /\ vendor = "sqlite" /\ new.got = sample[c].got
    BY <2>1, <2>4
  <2> QED BY <1>6, <2>2, <2>3, <2>4
<1>15. \A r : Known(r)' => \/ Known(r)
                           \/ ObsType(r) /\ r.value = growth /\ r.life = life /\ r.at = reads + 1
  <2> SUFFICES ASSUME NEW r, Known(r)'
               PROVE  \/ Known(r)
                      \/ ObsType(r) /\ r.value = growth /\ r.life = life /\ r.at = reads + 1
    OBVIOUS
  <2>1. CASE \E m \in Measured : r \in before[m]
    BY <2>1 DEF Known
  <2>2. CASE \E m \in Measured : \E x \in Samples : r \in sample'[x].got[m]
    <3>1. PICK m \in Measured, x \in Samples : r \in sample'[x].got[m]
      BY <2>2
    <3>2. CASE x = c
      BY <1>9, <1>14, <3>1, <3>2 DEF Known
    <3>3. CASE x # c
      BY <1>9, <3>1, <3>3 DEF Known
    <3> QED BY <3>2, <3>3
  <2> QED BY <1>1, <1>9, <2>1, <2>2 DEF Known
<1>16. History'
  <2>1. History
    BY DEF VendorInv
  <2>2. ASSUME NEW a, Known(a)'
        PROVE  /\ ObsType(a) /\ a.life <= life /\ a.at <= reads + 1
               /\ a.life = life => a.value <= growth
    <3>1. CASE Known(a)
      <4>1. /\ ObsType(a) /\ a.life <= life /\ a.at <= reads
            /\ a.life = life => a.value <= growth
        BY <2>1, <3>1 DEF History
      <4> QED BY <1>2, <4>1 DEF ObsType
    <3>2. CASE ObsType(a) /\ a.value = growth /\ a.life = life /\ a.at = reads + 1
      BY <1>2, <3>2
    <3> QED BY <1>15, <2>2, <3>1, <3>2
  <2>3. ASSUME NEW a, NEW b, Known(a)', Known(b)' PROVE InTime(a, b)
    <3>1. CASE Known(a) /\ Known(b)
      BY <2>1, <3>1 DEF History
    <3>2. CASE /\ Known(a)
               /\ ObsType(b) /\ b.value = growth /\ b.life = life /\ b.at = reads + 1
      BY <2>1, <3>2 DEF History, InTime
    <3>3. CASE /\ ObsType(a) /\ a.value = growth /\ a.life = life /\ a.at = reads + 1
               /\ Known(b)
      <4>1. ObsType(b) /\ b.at <= reads
        BY <2>1, <3>3 DEF History
      <4> QED BY <1>2, <3>3, <4>1 DEF ObsType, InTime
    <3>4. CASE /\ ObsType(a) /\ a.value = growth /\ a.life = life
               /\ ObsType(b) /\ b.value = growth /\ b.life = life
      BY <1>2, <3>4 DEF InTime
    <3> QED BY <1>15, <2>3, <3>1, <3>2, <3>3, <3>4
  <2> QED BY <1>1, <2>2, <2>3 DEF History
<1>17. SampleOk(c)'
  <2>0. sample'[c].todo = t /\ vendor' = vendor
    BY <1>1, <1>6, <1>7, <1>9
  <2>1. ~EpochNext(c)' /\ c \in Nat /\ begun \in Nat
    BY <2>0, <1>8, VendorAssumption DEF VendorInv, EpochNext, VendorType, Samples
  <2>2. \A i \in 1 .. Len(sample'[c].todo) : InTurn(c, i)'
    <3>1. ASSUME NEW i \in 1 .. Len(t) PROVE InTurn(c, i)'
      <4>1. i + 1 \in 1 .. Len(sample[c].todo) /\ i + 1 # 1 /\ t[i] = sample[c].todo[i + 1]
        BY <1>8, <3>1
      <4>2. InTurn(c, i + 1)
        BY <1>1, <1>13, <4>1 DEF SampleOk
      <4> QED BY <1>1, <1>6, <1>7, <1>9, <4>1, <4>2 DEF InTurn
    <3> QED BY <1>6, <1>7, <1>9, <3>1
  <2>3. vendor = "oracle" /\ ~switched => (sample[c].native <=> resolved = "native")
    BY <1>1, <1>13 DEF SampleOk
  <2> QED BY <1>1, <1>2, <1>6, <1>9, <1>14, <2>1, <2>2, <2>3 DEF SampleOk
<1>18. \A x \in Samples \ {c} : SampleOk(x)'
  BY <1>1, <1>9 DEF VendorInv, SampleOk, InTurn, EpochNext
<1>19. BeforeOk'
  BY <1>1 DEF VendorInv, BeforeOk
<1> QED BY <1>9, <1>12, <1>16, <1>17, <1>18, <1>19 DEF VendorInv

\* A sample that is collected.
LEMMA VendorCollected ==
  ASSUME VendorInv, NEW c \in Samples, NEW given \in BOOLEAN, Vendor!Collected(c, given)
  PROVE  VendorInv'
<1>1. /\ sample[c].phase = "collecting"
      /\ seen' = IF vendor = "sqlite" THEN sample[c].version ELSE seen
      /\ UNCHANGED <<vendor, life, growth, reads, context, resolved, checks, known,
                     begun, last, before, points, switched>>
  BY DEF Vendor!Collected, Vendor!Waiting, Vendor!Remembered
<1>2. /\ SampleType(c) /\ SampleOk(c) /\ Shape(sample[c])
      /\ sample[c].got = [m \in Measured |-> sample[c].got[m]]
      /\ sample = [x \in Samples |-> sample[x]] /\ c \in Nat /\ begun \in Nat /\ vendor \in Vendors
      /\ Samples \subseteq Nat
  BY VendorAssumption DEF VendorInv, VendorType, SampleType, Samples
<1>3. Samples' = Samples
  BY <1>1 DEF Samples
<1>4. PICK s, i, ch : s = sample[c] /\ i = Vendor!Idle /\ ch = Vendor!Changed(c)
  OBVIOUS
<1>5. PICK new : new = IF given THEN [s EXCEPT !.phase = "resolved", !.changed = ch]
                       ELSE [i EXCEPT !.phase = "dropped"]
  OBVIOUS
<1>6. sample' = [sample EXCEPT ![c] = new]
  BY <1>2, <1>4, <1>5 DEF Vendor!Collected
<1>7. /\ Shape(new) /\ new.got = [m \in Measured |-> new.got[m]] /\ new.todo \in Seq(Asks)
      /\ \/ /\ new.phase = "resolved" /\ new.changed = ch /\ new.got = sample[c].got
            /\ new.epoch = sample[c].epoch /\ new.blind = sample[c].blind
            /\ new.native = sample[c].native /\ new.alone = sample[c].alone
            /\ new.version = sample[c].version
         \/ new.phase = "dropped" /\ \A m \in Measured : new.got[m] = {}
  <2>1. CASE given
    <3>1. new = [s EXCEPT !.phase = "resolved", !.changed = ch]
      BY <1>5, <2>1
    <3> QED BY <1>2, <1>4, <3>1 DEF Shape, SampleType
  <2>2. CASE ~given
    <3>1. new = [i EXCEPT !.phase = "dropped"]
      BY <1>5, <2>2
    <3>2. Shape(i) /\ i.got = [m \in Measured |-> {}] /\ i.todo = <<>>
      BY <1>4, IdleShape
    <3>3. /\ Shape(new) /\ new.phase = "dropped" /\ new.got = [m \in Measured |-> {}]
          /\ new.todo = <<>>
      BY <3>1, <3>2 DEF Shape
    <3> QED BY <3>3
  <2> QED BY <2>1, <2>2
<1>8. /\ sample'[c] = new /\ sample' = [x \in Samples |-> sample'[x]]
      /\ \A x \in Samples \ {c} : sample'[x] = sample[x]
  BY <1>2, <1>6
<1>9. SampleType(c)'
  BY <1>7, <1>8 DEF SampleType, Shape
<1>10. \A x \in Samples \ {c} : SampleType(x)'
  BY <1>8 DEF VendorInv, VendorType, SampleType, Shape
<1>11. VendorType'
  BY <1>1, <1>3, <1>8, <1>9, <1>10 DEF VendorInv, VendorType
<1>12. \A r : Known(r)' => Known(r)
  <2>1. ASSUME NEW r, NEW m \in Measured, NEW x \in Samples, r \in sample'[x].got[m]
        PROVE  r \in sample[x].got[m]
    <3>1. CASE x = c
      BY <1>7, <1>8, <2>1, <3>1
    <3>2. CASE x # c
      BY <1>8, <2>1, <3>2
    <3> QED BY <3>1, <3>2
  <2> QED BY <1>1, <1>3, <2>1 DEF Known
<1>13. History'
  BY <1>1, <1>12 DEF VendorInv, History
<1>14. SampleOk(c)'
  BY <1>1, <1>2, <1>7, <1>8 DEF SampleOk
<1>15. \A x \in Samples \ {c} : SampleOk(x)'
  BY <1>1, <1>8 DEF VendorInv, SampleOk, InTurn, EpochNext
<1>16. BeforeOk' /\ PointsOk'
  BY <1>1 DEF VendorInv, BeforeOk, PointsOk, Vendor!GrowthOfOneLife, Vendor!ResetsAreReal,
              Vendor!KindsMatch, Vendor!Unsure
<1>17. ResolvedOk'
  BY <1>1, <1>3, <1>8 DEF VendorInv, ResolvedOk
<1>18. ChangesOk'
  <2> SUFFICES ASSUME vendor = "sqlite" PROVE ChangesOk'
    BY <1>1 DEF ChangesOk
  <2>1. ChangesOk /\ \A x \in Samples : x > begun => sample[x].phase = "idle"
    BY DEF VendorInv, SampleOk
  <2>2. \A x \in Samples : c < x /\ sample[x].alone =>
                             sample[x].phase \notin {"collecting", "resolved", "shown"}
    BY <1>1, <2>1 DEF ChangesOk
  <2>3. \A x \in Samples : Stands(x)' => /\ sample'[x].alone = sample[x].alone
                                         /\ sample'[x].version = sample[x].version
    BY <1>7, <1>8 DEF Stands
  <2>4. ASSUME NEW x \in Samples, NEW y \in Samples, y < x, sample'[x].alone,
               sample'[x].phase \in {"collecting", "resolved", "shown"}
        PROVE  sample'[y].phase # "collecting"
    <3>1. CASE y = c
      BY <1>7, <1>8, <3>1
    <3>2. CASE y # c
      <4>1. sample[x].alone /\ sample[x].phase \in {"collecting", "resolved", "shown"}
        BY <1>1, <1>7, <1>8, <2>4
      <4> QED BY <1>8, <2>1, <2>4, <3>2, <4>1 DEF ChangesOk
    <3> QED BY <3>1, <3>2
  <2>5. ASSUME NEW x \in Samples, x = begun', Stands(x)' PROVE seen' = sample'[x].version
    <3>1. CASE x = c
      BY <1>1, <2>3, <2>5, <3>1
    <3>2. CASE x # c
      <4>1. Stands(x) /\ c <= begun
        BY <1>1, <1>2, <1>8, <2>1, <2>5, <3>2 DEF Stands
      <4>2. c < x
        BY <1>1, <1>2, <2>5, <3>2, <4>1
      <4> QED BY <2>2, <4>1, <4>2 DEF Stands
    <3> QED BY <3>1, <3>2
  <2>6. ASSUME NEW x \in Samples, NEW y \in Samples, x = y + 1, Stands(y)', sample'[x].alone,
               sample'[x].phase = "collecting"
        PROVE  sample'[x].before = sample'[y].version
    <3>1. x # c /\ sample'[x] = sample[x]
      BY <1>7, <1>8, <2>6
    <3>2. y # c
      BY <1>2, <2>2, <2>6, <3>1
    <3> QED BY <1>8, <2>1, <2>6, <3>1, <3>2 DEF ChangesOk, Stands
  <2>7. ASSUME NEW x \in Samples, NEW y \in Samples, x = y + 1, Stands(y)', Stands(x)',
               sample'[y].version # -1, sample'[x].version # -1
        PROVE  sample'[x].changed = IF sample'[x].version = sample'[y].version THEN "no" ELSE "yes"
    <3>1. CASE x = c
      <4>1. y # c /\ sample'[y] = sample[y] /\ Stands(y) /\ sample[c].alone
        BY <1>2, <1>8, <2>3, <2>7, <3>1 DEF Stands
      <4>2. sample[c].before = sample[y].version
        BY <1>1, <2>1, <2>7, <3>1, <4>1 DEF ChangesOk
      <4>3. sample'[c].changed = ch /\ sample'[c].version = sample[c].version
        BY <1>7, <1>8, <2>7, <3>1 DEF Stands
      <4>4. ch = IF sample[c].before = sample[c].version THEN "no" ELSE "yes"
        BY <1>4, <2>7, <3>1, <4>1, <4>2, <4>3 DEF Vendor!Changed, Vendor!Unknown
      <4> QED BY <3>1, <4>1, <4>2, <4>3, <4>4
    <3>2. CASE x # c
      <4>1. sample'[x] = sample[x] /\ Stands(x)
        BY <1>8, <2>7, <3>2 DEF Stands
      <4>2. y # c
        BY <1>2, <2>2, <2>7, <4>1 DEF Stands
      <4> QED BY <1>8, <2>1, <2>7, <4>1, <4>2 DEF ChangesOk, Stands
    <3> QED BY <3>1, <3>2
  <2> QED BY <1>1, <1>3, <2>4, <2>5, <2>6, <2>7 DEF ChangesOk
<1> QED BY <1>3, <1>11, <1>13, <1>14, <1>15, <1>16, <1>17, <1>18 DEF VendorInv

\* An observation of a batch is one of the sample, with the epoch of the sample.
Alike(a, r) ==
  a.value = r.value /\ a.life = r.life /\ a.at = r.at /\ a.kind = r.kind /\ a.late = r.late

\* A batch has the observation of its sample, and no more than one of a metric.
LEMMA VendorBatch ==
  ASSUME VendorInv, NEW c \in Samples, NEW m \in Measured, NEW o \in Vendor!Batch(c, m)
  PROVE  /\ o.epoch = sample[c].epoch /\ o.blind = sample[c].blind /\ ObsType(o)
         /\ \E r \in sample[c].got[m] : Alike(o, r) /\ Known(r)
         /\ \A p \in Vendor!Batch(c, m) : p = o
<1>1. PICK r \in sample[c].got[m] :
         o = [r EXCEPT !.epoch = sample[c].epoch, !.blind = sample[c].blind]
  BY DEF Vendor!Batch
<1>2. Known(r) /\ ObsType(r)
  BY <1>1 DEF VendorInv, Known, History
<1>3. /\ o.epoch = sample[c].epoch /\ o.blind = sample[c].blind /\ ObsType(o) /\ Alike(o, r)
  BY <1>1, <1>2 DEF ObsType, Alike
<1>4. ASSUME NEW p \in Vendor!Batch(c, m) PROVE p = o
  <2>1. PICK x \in sample[c].got[m] :
           p = [x EXCEPT !.epoch = sample[c].epoch, !.blind = sample[c].blind]
    BY <1>4 DEF Vendor!Batch
  <2>2. x = r
    BY <1>1, <2>1 DEF VendorInv, SampleOk
  <2> QED BY <1>1, <2>1, <2>2
<1> QED BY <1>1, <1>2, <1>3, <1>4

\* The status of a point tells how its two observations relate.
LEMMA VendorStatus ==
  ASSUME NEW m, NEW set, NEW o, NEW p \in set, \A a, b \in set : a = b,
         NEW status, status = Vendor!Status(m, set, o)
  PROVE  /\ status = "ok" => \/ resolved = "native" /\ m = "counters"
                             \/ p.epoch = o.epoch /\ ~(o.value < p.value) /\ ~(o.at <= p.at)
         /\ status = "reset" => p.epoch # o.epoch \/ o.value < p.value
<1>1. PICK x : x = CHOOSE y \in set : TRUE
  OBVIOUS
<1>2. x = p
  BY <1>1
<1> QED BY <1>1, <1>2 DEF Vendor!Status, Vendor!Differ

\* A batch that is shown.
LEMMA VendorAppend == ASSUME VendorInv, NEW c \in Samples, Vendor!AppendBatch(c) PROVE VendorInv'
<1>1. /\ sample[c].phase = "resolved" /\ last' = c
      /\ UNCHANGED <<vendor, life, growth, reads, context, resolved, checks, known, seen,
                     begun, switched>>
  BY DEF Vendor!AppendBatch
<1>2. /\ SampleType(c) /\ SampleOk(c) /\ Shape(sample[c])
      /\ sample = [x \in Samples |-> sample[x]] /\ c \in Nat
      /\ vendor \in {"postgres", "sqlserver", "oracle", "sqlite"}
      /\ before = [m \in Measured |-> before[m]]
  BY VendorAssumption DEF VendorInv, VendorType, SampleType, Samples
<1>3. Samples' = Samples
  BY <1>1 DEF Samples
<1>4. PICK s, i : s = sample[c] /\ i = Vendor!Idle
  OBVIOUS
<1>5. PICK new : new = [i EXCEPT !.phase = "shown", !.alone = s.alone, !.version = s.version,
                                 !.changed = s.changed]
  OBVIOUS
<1>6. sample' = [sample EXCEPT ![c] = new]
  BY <1>4, <1>5 DEF Vendor!AppendBatch
<1>7. /\ Shape(new) /\ new.got = [m \in Measured |-> {}] /\ new.todo = <<>>
      /\ new.phase = "shown" /\ new.alone = sample[c].alone /\ new.version = sample[c].version
      /\ new.changed = sample[c].changed
  <2>1. Shape(i) /\ i.got = [m \in Measured |-> {}] /\ i.todo = <<>>
    BY <1>4, IdleShape
  <2> QED BY <1>4, <1>5, <2>1 DEF Shape
<1>8. /\ sample'[c] = new /\ sample' = [x \in Samples |-> sample'[x]]
      /\ \A x \in Samples \ {c} : sample'[x] = sample[x]
  BY <1>2, <1>6
<1>9. /\ before' = [m \in Measured |-> before'[m]]
      /\ \A m \in Measured : before'[m] \in {before[m], Vendor!Batch(c, m)}
  <2>1. before' = [m \in Measured |-> IF Vendor!Batch(c, m) # {} THEN Vendor!Batch(c, m)
                                     ELSE before[m]]
    BY DEF Vendor!AppendBatch, Measured, Vendor!Metric
  <2> QED BY <2>1
<1>10. SampleType(c)'
  <2>1. new.todo \in Seq(Asks)
    BY <1>7
  <2> QED BY <1>7, <1>8, <2>1 DEF SampleType, Shape
<1>11. \A x \in Samples \ {c} : SampleType(x)'
  BY <1>8 DEF VendorInv, VendorType, SampleType, Shape
<1>12. VendorType'
  BY <1>1, <1>2, <1>3, <1>8, <1>9, <1>10, <1>11 DEF VendorInv, VendorType
<1>13. ASSUME NEW a, Known(a)' PROVE ObsType(a) /\ \E r : Known(r) /\ Alike(a, r)
  <2>1. CASE Known(a)
    BY <2>1 DEF VendorInv, History, Alike
  <2>2. CASE \E m \in Measured : a \in Vendor!Batch(c, m)
    BY <2>2, VendorBatch
  <2>3. ASSUME NEW m \in Measured, NEW x \in Samples, a \in sample'[x].got[m] PROVE Known(a)
    <3>1. x # c
      BY <1>7, <1>8, <2>3
    <3> QED BY <1>8, <2>3, <3>1 DEF Known
  <2>4. ASSUME NEW m \in Measured, a \in before'[m] PROVE Known(a) \/ a \in Vendor!Batch(c, m)
    BY <1>9, <2>4 DEF Known
  <2>5. \/ \E m \in Measured : a \in before'[m]
        \/ \E m \in Measured : \E x \in Samples : a \in sample'[x].got[m]
    BY <1>3, <1>13 DEF Known
  <2> QED BY <2>1, <2>2, <2>3, <2>4, <2>5
<1>14. History'
  <2>1. History
    BY DEF VendorInv
  <2>2. ASSUME NEW a, Known(a)'
        PROVE  /\ ObsType(a) /\ a.life <= life /\ a.at <= reads
               /\ a.life = life => a.value <= growth
    <3>1. PICK r : Known(r) /\ Alike(a, r)
      BY <1>13, <2>2
    <3> QED BY <1>13, <2>1, <2>2, <3>1 DEF History, Alike
  <2>3. ASSUME NEW a, NEW b, Known(a)', Known(b)' PROVE InTime(a, b)
    <3>1. PICK r : Known(r) /\ Alike(a, r)
      BY <1>13, <2>3
    <3>2. PICK t : Known(t) /\ Alike(b, t)
      BY <1>13, <2>3
    <3> QED BY <2>1, <3>1, <3>2 DEF History, Alike, InTime
  <2> QED BY <1>1, <2>2, <2>3 DEF History
<1>15. SampleOk(c)'
  BY <1>1, <1>2, <1>7, <1>8 DEF SampleOk
<1>16. \A x \in Samples \ {c} : SampleOk(x)'
  BY <1>1, <1>8 DEF VendorInv, SampleOk, InTurn, EpochNext
\* The observations of the batch say of their epoch what those kept do.
<1>17. ASSUME NEW m \in Measured, NEW o \in Vendor!Batch(c, m)
       PROVE  /\ ~o.blind /\ ~o.late => o.epoch = o.life
              /\ vendor = "postgres" => ~o.blind /\ ~o.late
              /\ vendor = "oracle" /\ m = "counters" => (o.kind = "rate" <=> sample[c].native)
  <2>1. PICK r \in sample[c].got[m] : Alike(o, r)
    BY VendorBatch
  <2>2. o.epoch = sample[c].epoch /\ o.blind = sample[c].blind
    BY VendorBatch
  <2>3. /\ ~sample[c].blind /\ ~r.late => sample[c].epoch = r.life
        /\ vendor = "postgres" => ~sample[c].blind /\ ~r.late
        /\ vendor = "oracle" /\ m = "counters" => (r.kind = "rate" <=> sample[c].native)
    BY <1>2, <2>1 DEF SampleOk
  <2> QED BY <2>1, <2>2, <2>3 DEF Alike
<1>18. BeforeOk'
  <2>1. ASSUME NEW m \in Measured
        PROVE  /\ \A a, b \in before'[m] : a = b
               /\ \A r \in before'[m] : /\ ~r.blind /\ ~r.late => r.epoch = r.life
                                        /\ vendor = "postgres" => ~r.blind /\ ~r.late
    <3>1. CASE before'[m] = before[m]
      BY <3>1 DEF VendorInv, BeforeOk
    <3>2. CASE before'[m] = Vendor!Batch(c, m)
      <4>1. \A a, b \in Vendor!Batch(c, m) : a = b
        BY VendorBatch
      <4> QED BY <1>17, <3>2, <4>1
    <3> QED BY <1>9, <3>1, <3>2
  <2> QED BY <1>1, <2>1 DEF BeforeOk
<1>19. ResolvedOk /\ (vendor = "oracle" => resolved # "none")
  BY <1>1 DEF VendorInv, ResolvedOk
<1>20. ResolvedOk'
  BY <1>1, <1>3, <1>19 DEF ResolvedOk
\* The points of the batch.
<1>21. ASSUME NEW x \in points'
       PROVE  /\ x.metric \in Measured /\ x.from = before[x.metric]
              /\ x.to \in Vendor!Batch(c, x.metric)
              /\ x.status = Vendor!Status(x.metric, before[x.metric], x.to)
  <2>1. PICK m \in Measured : \E o \in Vendor!Batch(c, m) :
           x = [metric |-> m, status |-> Vendor!Status(m, before[m], o), from |-> before[m],
                to |-> o]
    BY <1>21 DEF Vendor!AppendBatch, Measured, Vendor!Metric
  <2> QED BY <2>1
<1>22. ASSUME NEW x \in points', NEW p \in x.from
       PROVE  /\ ObsType(p) /\ ObsType(x.to) /\ InTime(p, x.to)
              /\ Vendor!Unsure(p, x.to) \/ (p.epoch = p.life /\ x.to.epoch = x.to.life)
              /\ vendor = "postgres" => ~Vendor!Unsure(p, x.to)
              /\ \A a, b \in x.from : a = b
  <2>1. x.metric \in Measured /\ p \in before[x.metric] /\ x.to \in Vendor!Batch(c, x.metric)
    BY <1>21, <1>22
  <2>2. /\ ~p.blind /\ ~p.late => p.epoch = p.life
        /\ vendor = "postgres" => ~p.blind /\ ~p.late
        /\ \A a, b \in x.from : a = b
    BY <1>21, <2>1 DEF VendorInv, BeforeOk
  <2>3. PICK r \in sample[c].got[x.metric] : Alike(x.to, r) /\ Known(r)
    BY <2>1, VendorBatch
  <2>4. Known(p)
    BY <2>1 DEF Known
  <2>5. InTime(p, r) /\ ObsType(p)
    BY <2>3, <2>4 DEF VendorInv, History
  <2>6. InTime(p, x.to) /\ ObsType(x.to)
    BY <2>1, <2>3, <2>5, VendorBatch DEF Alike, InTime
  <2> QED BY <1>17, <2>1, <2>2, <2>5, <2>6 DEF Vendor!Unsure
<1>23. Vendor!GrowthOfOneLife'
  <2> SUFFICES ASSUME NEW x \in points', x.status = "ok", x.to.kind = "counter", ~switched
               PROVE  \E p \in x.from :
                         /\ p.at < x.to.at /\ p.value <= x.to.value
                         /\ p.life = x.to.life \/ (Vendor!Unsure(p, x.to) /\ vendor # "postgres")
    BY <1>1 DEF Vendor!GrowthOfOneLife, Vendor!Unsure
  <2>1. ~(resolved = "native" /\ x.metric = "counters")
    <3>1. vendor = "oracle" /\ x.metric = "counters" => (x.to.kind = "rate" <=> sample[c].native)
      BY <1>17, <1>21
    <3>2. vendor = "oracle" => (sample[c].native <=> resolved = "native")
      BY <1>1, <1>2 DEF SampleOk
    <3> QED BY <1>19, <3>1, <3>2 DEF ResolvedOk
  <2>2. x.from # {}
    BY <1>21, <2>1 DEF Vendor!Status
  <2>3. PICK p : p \in x.from
    BY <2>2
  <2>4. /\ ObsType(p) /\ ObsType(x.to)
        /\ Vendor!Unsure(p, x.to) \/ (p.epoch = p.life /\ x.to.epoch = x.to.life)
        /\ vendor = "postgres" => ~Vendor!Unsure(p, x.to)
        /\ \A a, b \in x.from : a = b
    BY <1>22, <2>3
  <2>5. p.epoch = x.to.epoch /\ ~(x.to.value < p.value) /\ ~(x.to.at <= p.at)
    BY <1>21, <2>1, <2>3, <2>4, VendorStatus
  <2> QED BY <2>3, <2>4, <2>5 DEF ObsType
<1>24. Vendor!ResetsAreReal'
  <2> SUFFICES ASSUME NEW x \in points', NEW p \in x.from, x.status = "reset"
               PROVE  \/ p.life < x.to.life \/ x.to.at < p.at \/ switched
                      \/ (Vendor!Unsure(p, x.to) /\ vendor # "postgres")
    BY <1>1 DEF Vendor!ResetsAreReal, Vendor!Unsure
  <2>1. /\ ObsType(p) /\ ObsType(x.to) /\ InTime(p, x.to)
        /\ Vendor!Unsure(p, x.to) \/ (p.epoch = p.life /\ x.to.epoch = x.to.life)
        /\ vendor = "postgres" => ~Vendor!Unsure(p, x.to)
        /\ \A a, b \in x.from : a = b
    BY <1>22
  <2>2. p.epoch # x.to.epoch \/ x.to.value < p.value
    BY <1>21, <2>1, VendorStatus
  <2> QED BY <2>1, <2>2 DEF ObsType, InTime
<1>25. Vendor!KindsMatch'
  <2> SUFFICES ASSUME NEW x \in points', vendor = "oracle", ~switched, x.metric = "counters"
               PROVE  (x.to.kind = "rate") = (resolved = "native")
    BY <1>1 DEF Vendor!KindsMatch
  <2>1. x.to.kind = "rate" <=> sample[c].native
    BY <1>17, <1>21
  <2>2. sample[c].native <=> resolved = "native"
    BY <1>1, <1>2 DEF SampleOk
  <2> QED BY <2>1, <2>2
<1>26. ChangesOk'
  <2> SUFFICES ASSUME vendor = "sqlite" PROVE ChangesOk'
    BY <1>1 DEF ChangesOk
  <2>1. ChangesOk
    BY DEF VendorInv
  <2>2. \A x \in Samples : /\ sample'[x].alone = sample[x].alone
                           /\ sample'[x].version = sample[x].version
                           /\ sample'[x].changed = sample[x].changed
                           /\ (Stands(x)' <=> Stands(x))
                           /\ sample'[x].phase = "collecting" <=> sample[x].phase = "collecting"
                           /\ sample'[x].phase = "collecting" => sample'[x] = sample[x]
                           /\ sample'[x].phase \in {"collecting", "resolved", "shown"} =>
                                sample[x].phase \in {"collecting", "resolved", "shown"}
    BY <1>1, <1>7, <1>8 DEF Stands
  <2>3. \A x, y \in Samples :
          y < x /\ sample'[x].alone /\ sample'[x].phase \in {"collecting", "resolved", "shown"} =>
            sample'[y].phase # "collecting"
    BY <2>1, <2>2 DEF ChangesOk
  <2>4. \A x \in Samples : x = begun' /\ Stands(x)' => seen' = sample'[x].version
    BY <1>1, <2>1, <2>2 DEF ChangesOk
  <2>5. \A x, y \in Samples :
          x = y + 1 /\ Stands(y)' /\ sample'[x].alone /\ sample'[x].phase = "collecting" =>
            sample'[x].before = sample'[y].version
    BY <2>1, <2>2 DEF ChangesOk
  <2>6. \A x, y \in Samples :
          /\ x = y + 1 /\ Stands(y)' /\ Stands(x)'
          /\ sample'[y].version # -1 /\ sample'[x].version # -1
          => sample'[x].changed = IF sample'[x].version = sample'[y].version THEN "no" ELSE "yes"
    BY <2>1, <2>2 DEF ChangesOk
  <2> QED BY <1>1, <1>3, <2>3, <2>4, <2>5, <2>6 DEF ChangesOk
<1> QED BY <1>3, <1>12, <1>14, <1>15, <1>16, <1>18, <1>20, <1>23, <1>24, <1>25, <1>26
        DEF VendorInv, PointsOk

\* Every step of VendorSampling keeps the invariant.
LEMMA VendorStep == VendorInv /\ [Vendor!Next]_vendorVars => VendorInv'
<1> SUFFICES ASSUME VendorInv, [Vendor!Next]_vendorVars PROVE VendorInv'
  OBVIOUS
<1>1. CASE UNCHANGED vendorVars
  <2>1. UNCHANGED <<vendor, life, growth, reads, context, resolved, checks, known, seen,
                    sample, begun, last, before, points, switched>>
    BY <1>1 DEF vendorVars
  <2>2. Samples' = Samples
    BY <2>1 DEF Samples
  <2>3. VendorType'
    BY <2>1, <2>2 DEF VendorInv, VendorType, SampleType, Shape
  <2>4. \A r : Known(r)' <=> Known(r)
    BY <2>1, <2>2 DEF Known
  <2>5. History'
    BY <2>1, <2>4 DEF VendorInv, History
  <2>6. \A c \in Samples : SampleOk(c)'
    BY <2>1 DEF VendorInv, SampleOk, InTurn, EpochNext
  <2>7. BeforeOk' /\ ResolvedOk'
    BY <2>1, <2>2 DEF VendorInv, BeforeOk, ResolvedOk
  <2>8. PointsOk'
    BY <2>1 DEF VendorInv, PointsOk, Vendor!GrowthOfOneLife, Vendor!ResetsAreReal,
                Vendor!KindsMatch, Vendor!Unsure
  <2>9. ChangesOk'
    BY <2>1, <2>2 DEF VendorInv, ChangesOk, Stands
  <2> QED BY <2>2, <2>3, <2>5, <2>6, <2>7, <2>8, <2>9 DEF VendorInv
<1>2. CASE Vendor!Next
  <2>1. DOMAIN sample = Samples
    BY DEF VendorInv, VendorType
  <2> HIDE DEF VendorInv, Samples
  <2> QED BY <1>2, <2>1, VendorWork, VendorChecks, VendorCollect, VendorAnswered, VendorFailed,
             VendorCollected, VendorAppend DEF Vendor!Next
<1> QED BY <1>1, <1>2

-----------------------------------------------------------------------------
\* It holds whatever part of what is displayed takes the next step.
LEMMA VendorInvariant == MCSpec => []VendorInv
<1>1. MCInit => VendorInv
  BY VendorInit DEF MCInit
<1>2. VendorInv /\ [MCNext]_<<on, vars, vendorVars, treeVars, awsVars>> => VendorInv'
  <2>1. [MCNext]_<<on, vars, vendorVars, treeVars, awsVars>> => [Vendor!Next]_vendorVars
    BY DEF MCNext
  <2> QED BY <2>1, VendorStep
<1> QED BY <1>1, <1>2, PTL DEF MCSpec

\* For any number of samples, whatever they ask for, and however the queries of several
\* of them, restarts, resets and checks of the capabilities follow one another: a counter
\* is drawn as its growth in one life of the server, a reset that is shown was one, a
\* chart of native rates shows rates, and a change of a SQLite file between two samples
\* is shown (collectSample of the providers, RdbSampleAccumulator).
THEOREM SamplesTrue == MCSpec => []SamplesAreTrue
<1>1. VendorInv => SamplesAreTrue
  BY VendorHonest DEF SamplesAreTrue
<1> QED BY <1>1, VendorInvariant, PTL

-----------------------------------------------------------------------------
\* The candidates are the first resources.
Compared == IF Len(resources) > MaxCandidates THEN MaxCandidates ELSE Len(resources)

\* A candidate that was taken is with a worker, or its types are those of its resource.
OverviewInv ==
  /\ resources \in Seq(Resource) /\ turn \in Nat \ {0}
  /\ DOMAIN task = Dashboards!Worker /\ DOMAIN result = Dashboards!Candidates
  /\ \A w \in DOMAIN task : task[w] # 0 => task[w] \in Dashboards!Candidates
  /\ \A i \in Dashboards!Candidates :
       i < turn => \/ \E w \in Dashboards!Worker : task[w] = i
                   \/ result[i] = {} \/ result[i] = resources[i].types
  /\ Dashboards!EachIsCompared

\* How many there are.
LEMMA Compares ==
  ASSUME resources \in Seq(Resource)
  PROVE  /\ Compared \in Nat /\ Dashboards!Candidates = 1 .. Compared
         /\ Compared <= MaxCandidates /\ Compared <= Len(resources)
         /\ Cardinality(Dashboards!Candidates) = Compared
<1>1. Compared \in Nat /\ Compared <= MaxCandidates /\ Compared <= Len(resources)
  BY DashboardsAssumption DEF Compared
<1>2. Dashboards!Candidates = 1 .. Compared
  BY DEF Compared, Dashboards!Candidates
<1>3. Cardinality(1 .. Compared) = Compared
  <2>1. IF 1 > Compared THEN Cardinality(1 .. Compared) = 0
        ELSE Cardinality(1 .. Compared) = Compared - 1 + 1
    BY <1>1, FS_Interval
  <2> QED BY <1>1, <2>1
<1> QED BY <1>1, <1>2, <1>3

\* A comparison shows no more series than it has, and at least one of them.
LEMMA LimitFits ==
  ASSUME NEW n \in Nat, NEW r \in Nat
  PROVE  /\ Dashboards!LimitOf(r, n) <= n
         /\ n # 0 => Dashboards!LimitOf(r, n) > 0
<1>1. ASSUME NEW k \in Range(TopLimits) PROVE k \in Nat \ {0}
  BY DashboardsAssumption DEF Range
<1>2. Last(TopLimits) \in Nat \ {0}
  BY DashboardsAssumption DEF Last
<1> DEFINE top == IF r \in Range(TopLimits) THEN r ELSE Last(TopLimits)
<1>3. top \in Nat \ {0}
  BY <1>1, <1>2
<1>4. Dashboards!LimitOf(r, n) = IF r = 0 \/ n < top THEN n ELSE top
  BY DEF Dashboards!LimitOf, Dashboards!Range, Dashboards!Last, Range, Last
<1> HIDE DEF top
<1> QED BY <1>3, <1>4

LEMMA OverviewInitial == Dashboards!OverviewInit => OverviewInv
<1> SUFFICES ASSUME Dashboards!OverviewInit PROVE OverviewInv
  OBVIOUS
<1>1. resources \in Seq(Resource)
  <2>1. PICK n \in 0 .. (MaxCandidates + 1) : resources \in [1 .. n -> Resource]
    BY DEF Dashboards!OverviewInit
  <2> QED BY <2>1, DashboardsAssumption
<1>2. Dashboards!EachIsCompared
  BY DEF Dashboards!OverviewInit, Dashboards!EachIsCompared, Dashboards!Nothing
<1>3. \A i \in Dashboards!Candidates : ~(i < turn)
  BY DEF Dashboards!OverviewInit, Dashboards!Candidates
<1> QED BY <1>1, <1>2, <1>3 DEF Dashboards!OverviewInit, OverviewInv

\* A worker takes a candidate, or comes back with what it has found.
LEMMA OverviewWorks ==
  ASSUME OverviewInv, NEW w \in Dashboards!Worker,
         Dashboards!Take(w) \/ Dashboards!Found(w) \/ Dashboards!OverviewAborted(w)
  PROVE  OverviewInv'
<1> USE DEF OverviewInv
<1>0. UNCHANGED <<service, custom, resources>> /\ Dashboards!Candidates' = Dashboards!Candidates
  BY DEF Dashboards!Take, Dashboards!Found, Dashboards!OverviewAborted, Dashboards!Candidates
<1>1. CASE Dashboards!OverviewAborted(w)
  BY <1>0, <1>1 DEF Dashboards!OverviewAborted, Dashboards!EachIsCompared
<1>2. CASE Dashboards!Found(w)
  <2>1. comparison' = Dashboards!Nothing /\ turn' = turn
    BY <1>2 DEF Dashboards!Found
  <2>2. /\ task' = [task EXCEPT ![w] = 0] /\ task[w] # 0
        /\ \/ result' = [result EXCEPT ![task[w]] = {}]
           \/ result' = [result EXCEPT ![task[w]] = resources[task[w]].types]
    BY <1>2 DEF Dashboards!Found, Dashboards!PlaceOf
  <2>3. Dashboards!EachIsCompared'
    BY <2>1 DEF Dashboards!EachIsCompared, Dashboards!Nothing
  <2>4. ASSUME NEW i \in Dashboards!Candidates, i < turn
        PROVE  \/ \E v \in Dashboards!Worker : task'[v] = i
               \/ result'[i] = {} \/ result'[i] = resources[i].types
    <3>1. CASE task[w] = i
      BY <2>2, <3>1
    <3>2. CASE task[w] # i
      BY <2>2, <2>4, <3>2
    <3> QED BY <3>1, <3>2
  <2>5. DOMAIN task' = Dashboards!Worker /\ DOMAIN result' = Dashboards!Candidates
    BY <2>2
  <2>6. \A v \in DOMAIN task' : task'[v] # 0 => task'[v] \in Dashboards!Candidates
    BY <2>2
  <2> QED BY <1>0, <2>1, <2>3, <2>4, <2>5, <2>6
<1>3. CASE Dashboards!Take(w)
  <2>1. /\ comparison' = Dashboards!Nothing /\ turn' = turn + 1
        /\ turn \in Dashboards!Candidates /\ task[w] = 0
    BY <1>3 DEF Dashboards!Take
  <2>2. Dashboards!EachIsCompared'
    BY <2>1 DEF Dashboards!EachIsCompared, Dashboards!Nothing
  <2>3. \/ task' = task /\ result' = [result EXCEPT ![turn] = {}]
        \/ result' = result /\ task' = [task EXCEPT ![w] = turn]
    BY <1>3 DEF Dashboards!Take
  <2>4. ASSUME NEW i \in Dashboards!Candidates, i < turn'
        PROVE  \/ \E v \in Dashboards!Worker : task'[v] = i
               \/ result'[i] = {} \/ result'[i] = resources[i].types
    <3>0. i \in Nat /\ turn \in Nat
      BY DEF Dashboards!Candidates
    <3>1. CASE i = turn
      BY <2>1, <2>3, <3>1
    <3>2. CASE i # turn
      <4>1. i < turn /\ i # 0
        BY <2>1, <2>4, <3>0, <3>2 DEF Dashboards!Candidates
      <4>2. CASE result[i] = {} \/ result[i] = resources[i].types
        BY <2>3, <3>2, <4>2
      <4>3. CASE \E v \in Dashboards!Worker : task[v] = i
        <5>1. PICK v \in Dashboards!Worker : task[v] = i
          BY <4>3
        <5>2. v # w
          BY <2>1, <4>1, <5>1
        <5>3. task'[v] = i
          BY <2>3, <5>1, <5>2
        <5> QED BY <5>3
      <4> QED BY <4>1, <4>2, <4>3
    <3> QED BY <3>1, <3>2
  <2>5. DOMAIN task' = Dashboards!Worker /\ DOMAIN result' = Dashboards!Candidates
    BY <2>3
  <2>6. \A v \in DOMAIN task' : task'[v] # 0 => task'[v] \in Dashboards!Candidates
    BY <2>1, <2>3
  <2>7. turn' \in Nat \ {0}
    BY <2>1
  <2> QED BY <1>0, <2>2, <2>4, <2>5, <2>6, <2>7 
<1> QED BY <1>1, <1>2, <1>3

\* What is compared is what the workers have found, in order.
LEMMA OverviewShows ==
  ASSUME OverviewInv, NEW r \in Range(TopLimits) \union {0, 1},
         Dashboards!ShowBuckets(r) \/ Dashboards!ShowOthers(r)
  PROVE  OverviewInv'
<1> DEFINE n == Compared
<1>0. /\ UNCHANGED <<service, custom, resources, turn, task, result>>
      /\ Dashboards!Candidates' = Dashboards!Candidates
  BY DEF Dashboards!ShowBuckets, Dashboards!ShowOthers, Dashboards!Candidates
<1>0a. \A S : Dashboards!Cardinality(S) = Cardinality(S)
  BY Zenon DEF Dashboards!Cardinality, Cardinality
<1>1. /\ n \in Nat /\ Dashboards!Candidates = 1 .. n /\ n <= MaxCandidates
      /\ Cardinality(Dashboards!Candidates) = n
  BY Compares DEF OverviewInv
<1> HIDE DEF n
<1>2. r \in Nat
  <2>1. \A k \in Range(TopLimits) : k \in Nat
    BY DashboardsAssumption DEF Range
  <2> QED BY <2>1
<1>3. ASSUME NEW m \in Nat, NEW totals, DOMAIN totals = 1 .. m, Len(totals) = m,
             comparison' = Dashboards!Comparison("compared", r, totals),
             \A k \in 1 .. m :
               /\ totals[k].resource <= MaxCandidates
               /\ service = "s3" =>
                    /\ totals[k].inputs = resources[totals[k].resource].types
                    /\ totals[k].inputs # {}
                    /\ ~custom => totals[k].region = resources[totals[k].resource].region,
             \A k, l \in 1 .. m : k < l => totals[k].resource < totals[l].resource
      PROVE  Dashboards!EachIsCompared'
  <2>1. /\ comparison'.totals = totals /\ comparison'.evaluated = n
        /\ comparison'.unavailable = n - m
        /\ comparison'.limit = Dashboards!LimitOf(r, m)
    BY <1>0a, <1>1, <1>3 DEF Dashboards!Comparison
  <2>2. comparison'.limit <= m /\ (m # 0 => comparison'.limit > 0)
    BY <1>2, <2>1, LimitFits
  <2>3. comparison'.evaluated = Len(totals) + comparison'.unavailable
    BY <1>1, <1>3, <2>1
  <2>4. totals # <<>> => m # 0
    BY <1>3
  <2>5. ASSUME NEW k \in 1 .. m
        PROVE  /\ totals[k].resource <= MaxCandidates
               /\ service' = "s3" =>
                    /\ totals[k].inputs = resources'[totals[k].resource].types
                    /\ totals[k].inputs # {}
                    /\ ~custom' => totals[k].region = resources'[totals[k].resource].region
    <3>1. service' = service /\ custom' = custom /\ resources' = resources
      BY <1>0
    <3>2. /\ totals[k].resource <= MaxCandidates
          /\ service = "s3" => /\ totals[k].inputs = resources[totals[k].resource].types
                               /\ totals[k].inputs # {}
                               /\ ~custom => totals[k].region = resources[totals[k].resource].region
      BY <1>3, Zenon
    <3> QED BY <3>1, <3>2, Zenon
  <2>6. /\ \A k, l \in 1 .. m : k < l => totals[k].resource < totals[l].resource
        /\ DOMAIN totals = 1 .. m /\ Len(totals) = m
    BY <1>3
  <2>7. PICK c : c = comparison'
    OBVIOUS
  <2>8. c.totals = totals
    BY <2>1, <2>7
  <2>9. /\ \A k \in DOMAIN c.totals :
             LET i == c.totals[k].resource
             IN  /\ i <= MaxCandidates
                 /\ service' = "s3" => /\ c.totals[k].inputs = resources'[i].types
                                       /\ c.totals[k].inputs # {}
                                       /\ ~custom' => c.totals[k].region = resources'[i].region
        /\ \A k, l \in DOMAIN c.totals : k < l => c.totals[k].resource < c.totals[l].resource
    BY <2>5, <2>6, <2>8
  <2>10. /\ c.evaluated = Len(c.totals) + c.unavailable
         /\ c.limit <= Len(c.totals) /\ (c.totals # <<>> => c.limit > 0)
    BY <2>1, <2>2, <2>3, <2>4, <2>6, <2>7, <2>8
  <2> QED BY <2>7, <2>9, <2>10 DEF Dashboards!EachIsCompared
<1>4. CASE Dashboards!ShowOthers(r)
  <2> DEFINE totals == [i \in Dashboards!Candidates |->
                          [resource |-> i, region |-> Dashboards!Near, inputs |-> {"itself"}]]
  <2>1. comparison' = Dashboards!Comparison("compared", r, totals) /\ service = "other"
    BY <1>4 DEF Dashboards!ShowOthers
  <2>2. DOMAIN totals = 1 .. n /\ Len(totals) = n
    BY <1>1
  <2>3. \A k \in 1 .. n : totals[k].resource = k
    BY <1>1
  <2> HIDE DEF totals
  <2>4. Dashboards!EachIsCompared'
    <3>1. \A k \in 1 .. n : totals[k].resource <= MaxCandidates
      BY <1>1, <2>3, DashboardsAssumption
    <3>2. \A k, l \in 1 .. n : k < l => totals[k].resource < totals[l].resource
      BY <2>3
    <3>3. service # "s3"
      BY <2>1
    <3> QED BY <1>1, <1>3, <2>1, <2>2, <3>1, <3>2, <3>3
  <2> QED BY <1>0, <2>4 DEF OverviewInv
<1>5. CASE Dashboards!ShowBuckets(r)
  <2> DEFINE S == {i \in Dashboards!Candidates : result[i] # {}}
             m == Cardinality(S)
  <2>1. PICK q \in Dashboards!Resolved :
          comparison' = Dashboards!Comparison("compared", r,
                          [k \in DOMAIN q |-> Dashboards!Total(q[k], result[q[k]])])
    BY <1>5 DEF Dashboards!ShowBuckets
  <2>2. turn \notin Dashboards!Candidates /\ \A w \in Dashboards!Worker : task[w] = 0
    BY <1>5 DEF Dashboards!ShowBuckets
  <2>3. m \in Nat
    <3>1. IsFiniteSet(1 .. n)
      BY <1>1, FS_Interval
    <3>2. IsFiniteSet(S)
      BY <1>1, <3>1, FS_Subset
    <3> QED BY <3>2, FS_CardinalityType
  <2>4. q \in [1 .. m -> S] /\ \A k, l \in DOMAIN q : k < l => q[k] < q[l]
    BY <1>0a, <2>1 DEF Dashboards!Resolved, Dashboards!SetToSeqs
  <2>5. ASSUME NEW i \in S
        PROVE  i <= MaxCandidates /\ result[i] = resources[i].types /\ result[i] # {}
    <3>1. i \in Nat \ {0} /\ i <= n /\ i < turn /\ i <= MaxCandidates
      BY <1>1, <2>2, DashboardsAssumption DEF OverviewInv
    <3> QED BY <2>2, <3>1 DEF OverviewInv
  <2> DEFINE totals == [k \in DOMAIN q |-> Dashboards!Total(q[k], result[q[k]])]
  <2>6. DOMAIN totals = 1 .. m /\ Len(totals) = m
    BY <2>3, <2>4
  <2>7. ASSUME NEW k \in 1 .. m
        PROVE  /\ q[k] \in S /\ totals[k].resource = q[k] /\ totals[k].inputs = result[q[k]]
               /\ ~custom => totals[k].region = resources[q[k]].region
    BY <2>4 DEF Dashboards!Total, Dashboards!RegionAsked
  <2>8. \A k, l \in 1 .. m : k < l => totals[k].resource < totals[l].resource
    <3>1. \A k \in 1 .. m : totals[k].resource = q[k]
      BY <2>7
    <3> HIDE DEF totals, S, m
    <3> QED BY <2>4, <3>1
  <2> HIDE DEF totals, S, m
  <2>9. Dashboards!EachIsCompared'
    <3>1. comparison' = Dashboards!Comparison("compared", r, totals)
      BY <2>1 DEF totals
    <3>2. m \in Nat /\ DOMAIN totals = 1 .. m /\ Len(totals) = m
      BY <2>3, <2>6 DEF m
    <3>3. ASSUME NEW k \in 1 .. m
          PROVE  /\ totals[k].resource <= MaxCandidates
                 /\ totals[k].inputs = resources[totals[k].resource].types
                 /\ totals[k].inputs # {}
                 /\ ~custom => totals[k].region = resources[totals[k].resource].region
      BY <2>5, <2>7
    <3> QED BY <1>3, <2>8, <3>1, <3>2, <3>3
  <2> QED BY <1>0, <2>9 DEF OverviewInv
<1> QED BY <1>4, <1>5

\* What OverviewNext keeps.
LEMMA OverviewStep == OverviewInv /\ [Dashboards!OverviewNext]_overviewVars => OverviewInv'
<1> SUFFICES ASSUME OverviewInv, [Dashboards!OverviewNext]_overviewVars PROVE OverviewInv'
  OBVIOUS
<1>1. CASE UNCHANGED overviewVars
  BY <1>1 DEF overviewVars, OverviewInv, Dashboards!EachIsCompared, Dashboards!Candidates
<1>2. CASE Dashboards!OverviewNext
  BY <1>2, OverviewWorks, OverviewShows DEF Dashboards!OverviewNext, Dashboards!Range, Range
<1> QED BY <1>1, <1>2

-----------------------------------------------------------------------------
\* A set of numbers has a least one.
LEMMA LeastElement ==
  ASSUME NEW T \in SUBSET Nat, T # {}
  PROVE  \E x \in T : \A y \in T : x <= y
<1>1. PICK x \in T : \A y \in T : <<y, x>> \notin OpToRel(<, Nat)
  BY WFMin, NatLessThanWellFounded, Zenon
<1>2. ASSUME NEW y \in T PROVE ~ (y < x)
  BY <1>1, Zenon DEF OpToRel
<1>3. \A y \in T : x <= y
  BY <1>2
<1> QED BY <1>3

\* A set of numbers that has a bound has a greatest one.
LEMMA GreatestElement ==
  ASSUME NEW T \in SUBSET Nat, T # {}, NEW n \in Nat, \A x \in T : x <= n
  PROVE  \E x \in T : \A y \in T : y <= x
<1>1. PICK B : B = {m \in Nat : \A x \in T : x <= m}
  OBVIOUS
<1>2. PICK b \in B : \A m \in B : b <= m
  <2>1. B \subseteq Nat /\ B # {}
    BY <1>1
  <2> QED BY <2>1, LeastElement
<1>3. b \in Nat /\ \A x \in T : x <= b
  BY <1>1, <1>2
<1>4. CASE b \in T
  BY <1>3, <1>4
<1>5. CASE b \notin T
  <2>1. PICK t \in T : TRUE
    OBVIOUS
  <2>2. b - 1 \in Nat /\ \A x \in T : x <= b - 1
    BY <1>3, <1>5, <2>1
  <2>3. b - 1 \in B
    BY <1>1, <2>2
  <2> QED BY <1>2, <1>3, <2>3
<1> QED BY <1>4, <1>5

\* What is listed of A up to a number.
ListedUpto(A, n) == {g \in A : g <= n}

\* A page that does not have all that is left has the first of it.
LEMMA PageIsFirst ==
  ASSUME NEW A \in SUBSET Nat, NEW page, page # A,
         \A f : f \in page <=> f \in A /\ Cardinality(ListedUpto(A, f)) <= PageSize
  PROVE  /\ Dashboards!Max(page) \in page
         /\ \A f \in A : f \in page \/ f > Dashboards!Max(page)
<1>1. page \subseteq A /\ \A f \in A : f \in page <=> Cardinality(ListedUpto(A, f)) <= PageSize
  OBVIOUS
<1>2. PICK z \in A : z \notin page
  BY <1>1
<1>0. \A x \in A : x \in Nat
  OBVIOUS
<1>3. ASSUME NEW f \in A PROVE ListedUpto(A, f) \in SUBSET Nat /\ IsFiniteSet(ListedUpto(A, f)) /\ Cardinality(ListedUpto(A, f)) \in Nat
  <2>1. ListedUpto(A, f) \in SUBSET Nat /\ f \in Nat /\ \A g \in ListedUpto(A, f) : g <= f
    BY DEF ListedUpto
  <2>2. IsFiniteSet(ListedUpto(A, f))
    BY <2>1, FS_BoundedSetOfNaturals
  <2> QED BY <2>1, <2>2, FS_CardinalityType
<1>4. ASSUME NEW e \in A, NEW f \in page, e <= f PROVE e \in page
  <2>1. f \in A /\ ListedUpto(A, e) \subseteq ListedUpto(A, f)
    <3>1. f \in A /\ e \in Nat /\ f \in Nat /\ e <= f
      BY <1>0, <1>1, <1>4
    <3>2. ASSUME NEW g \in ListedUpto(A, e) PROVE g \in ListedUpto(A, f)
      <4>1. g \in A /\ g \in Nat /\ g <= e
        BY <1>0 DEF ListedUpto
      <4>2. g <= f
        BY <3>1, <4>1
      <4> QED BY <4>1, <4>2 DEF ListedUpto
    <3> QED BY <3>1, <3>2
  <2>2. Cardinality(ListedUpto(A, e)) <= Cardinality(ListedUpto(A, f))
    BY <1>3, <2>1, FS_Subset
  <2>3. Cardinality(ListedUpto(A, f)) <= PageSize
    BY <1>1
  <2>4. Cardinality(ListedUpto(A, e)) \in Nat /\ Cardinality(ListedUpto(A, f)) \in Nat /\ PageSize \in Nat
    BY <1>3, <2>1, DashboardsAssumption
  <2> QED BY <1>1, <2>2, <2>3, <2>4
<1>5. ASSUME NEW f \in page PROVE f < z
  <2>1. f \in Nat /\ z \in Nat
    BY <1>0, <1>1
  <2> QED BY <1>2, <1>4, <2>1
<1>6. page # {}
  <2>1. PICK a \in A : \A y \in A : a <= y
    BY <1>2, LeastElement
  <2>2. ListedUpto(A, a) = {a}
    <3>1. ASSUME NEW g PROVE g \in ListedUpto(A, a) <=> g = a
      <4>1. a \in Nat /\ \A y \in A : y \in Nat /\ a <= y
        BY <1>0, <2>1
      <4>2. g = a => g \in ListedUpto(A, a)
        BY <4>1 DEF ListedUpto
      <4>3. ASSUME g \in ListedUpto(A, a) PROVE g = a
        <5>1. g \in A /\ g <= a
          BY <4>3 DEF ListedUpto
        <5>2. g \in Nat /\ a <= g
          BY <4>1, <5>1
        <5> QED BY <4>1, <5>1, <5>2
      <4> QED BY <4>2, <4>3
    <3> QED BY <3>1
  <2>3. Cardinality(ListedUpto(A, a)) = 1
    BY <2>2, FS_Singleton
  <2>4. 1 <= PageSize
    BY DashboardsAssumption
  <2> QED BY <1>1, <2>1, <2>3, <2>4
<1>7. PICK m \in page : \A y \in page : y <= m
  <2>1. page \in SUBSET Nat /\ z \in Nat /\ \A f \in page : f <= z
    BY <1>1, <1>5
  <2> QED BY <1>6, <2>1, GreatestElement
<1>8. Dashboards!Max(page) \in page /\ \A y \in page : Dashboards!Max(page) >= y
  <2>1. \E x \in page : \A y \in page : x >= y
    BY <1>1, <1>7
  <2> QED BY <2>1, Zenon DEF Dashboards!Max
<1>9. ASSUME NEW f \in A, f \notin page PROVE f > Dashboards!Max(page)
  <2>1. Dashboards!Max(page) \in Nat
    BY <1>1, <1>8
  <2> QED BY <1>4, <1>8, <1>9, <2>1
<1> QED BY <1>8, <1>9

-----------------------------------------------------------------------------
\* What the target says of the request metrics, once it is resolved.
Resolution ==
  /\ view.prerequisite = "configured" <=> view.filters # {}
  /\ view.verification = "none" /\ view.prerequisite # "unknown" =>
       steady \subseteq view.filters /\ view.filters \subseteq ever
  /\ view.verification = "unknown" => view.filters = recent

\* The dashboard that is shown.
BoardOk ==
  /\ bucket.region = Dashboards!Home
  /\ bucket.requests = Dashboards!RequestQueries(bucket.value)
  /\ bucket.options = {} => bucket.value = 0
  /\ bucket.options # {} => bucket.value \in bucket.options /\ bucket.value # 0

\* It is of the target if that is the last one.
BoardOfTarget ==
  /\ bucket.options = view.filters /\ bucket.prerequisite = view.prerequisite
  /\ bucket.verification = view.verification
  /\ bucket.panels = 7 <=> view.verification = "unknown"

\* While the configurations are listed, what stayed was listed or is to come.
BucketInv ==
  /\ configs \subseteq Filter /\ recent \subseteq Filter
  /\ view = [step |-> view.step, region |-> view.region, filters |-> view.filters,
             after |-> view.after, prerequisite |-> view.prerequisite,
             verification |-> view.verification]
  /\ view.filters \subseteq Filter /\ view.after \in Nat
  /\ view.step \in {"listing", "observing", "listed", "ready"} => view.region = Dashboards!Home
  /\ Dashboards!Listing => /\ steady \subseteq configs /\ configs \subseteq ever
                           /\ view.filters \subseteq ever
  /\ view.step = "listing" => \A f \in steady : f \in view.filters \/ f > view.after
  /\ view.step \in {"listed", "ready"} => Resolution
  /\ bucket # Dashboards!NoBoard => BoardOk
  /\ bucket # Dashboards!NoBoard /\ view.step = "ready" => BoardOfTarget

\* The queries of a configuration are its own, once each.
LEMMA QueriesOf ==
  ASSUME NEW f, f # 0
  PROVE  LET q == Dashboards!RequestQueries(f)
         IN  /\ \A i, k \in DOMAIN q : q[i] = q[k] => i = k
             /\ {q[i].filter : i \in DOMAIN q} = {f}
<1> DEFINE q == Dashboards!RequestQueries(f)
           R == Dashboards!RequestMetrics
<1>1. DOMAIN R = 1 .. 12 /\ \A i, k \in 1 .. 12 : R[i] = R[k] => i = k
  BY DEF Dashboards!RequestMetrics
<1>2. q = [i \in DOMAIN R |-> [series |-> R[i], filter |-> f]]
  BY DEF Dashboards!RequestQueries
<1> HIDE DEF R
<1>3. DOMAIN q = 1 .. 12 /\ \A i \in 1 .. 12 : q[i].series = R[i] /\ q[i].filter = f
  BY <1>1, <1>2
<1> HIDE DEF q
<1>4. \A i, k \in DOMAIN q : q[i] = q[k] => i = k
  BY <1>1, <1>3
<1>5. {q[i].filter : i \in DOMAIN q} = {f}
  BY <1>3
<1> QED BY <1>4, <1>5 DEF q

\* The invariant is what the dashboard of a bucket promises.
LEMMA BucketHonest ==
  BucketInv => Dashboards!AsksWhatItShows /\ Dashboards!ConfigurationIsKnown
<1> SUFFICES ASSUME BucketInv
             PROVE  Dashboards!AsksWhatItShows /\ Dashboards!ConfigurationIsKnown
  OBVIOUS
<1>1. Dashboards!AsksWhatItShows
  <2> SUFFICES ASSUME Dashboards!IsShown
               PROVE  /\ bucket.region = Dashboards!Home
                      /\ Dashboards!IsInjective(bucket.requests)
                      /\ IF bucket.options = {} THEN bucket.requests = <<>>
                         ELSE Dashboards!FiltersAsked = {bucket.value}
                      /\ bucket.options # {} => bucket.value \in bucket.options
    BY DEF Dashboards!AsksWhatItShows
  <2>1. BoardOk
    BY DEF BucketInv, Dashboards!IsShown
  <2>2. CASE bucket.options = {}
    <3>1. bucket.requests = <<>>
      BY <2>1, <2>2 DEF BoardOk, Dashboards!RequestQueries
    <3>2. Dashboards!IsInjective(bucket.requests)
      BY <3>1 DEF Dashboards!IsInjective
    <3> QED BY <2>1, <2>2, <3>1, <3>2 DEF BoardOk
  <2>3. CASE bucket.options # {}
    <3>1. bucket.value \in bucket.options /\ bucket.value # 0
      BY <2>1, <2>3 DEF BoardOk
    <3>2. PICK q : q = Dashboards!RequestQueries(bucket.value)
      OBVIOUS
    <3>3. bucket.requests = q
      BY <2>1, <3>2 DEF BoardOk
    <3>4. /\ \A i, k \in DOMAIN q : q[i] = q[k] => i = k
          /\ {q[i].filter : i \in DOMAIN q} = {bucket.value}
      BY <3>1, <3>2, QueriesOf
    <3>5. Dashboards!IsInjective(bucket.requests)
      BY <3>3, <3>4 DEF Dashboards!IsInjective
    <3>6. Dashboards!FiltersAsked = {bucket.value}
      BY <3>3, <3>4 DEF Dashboards!FiltersAsked
    <3> QED BY <2>1, <2>3, <3>1, <3>5, <3>6 DEF BoardOk
  <2> QED BY <2>2, <2>3
<1>2. Dashboards!ConfigurationIsKnown
  <2> SUFFICES ASSUME Dashboards!IsShown, view.step = "ready"
               PROVE  /\ bucket.prerequisite = "configured" <=> bucket.options # {}
                      /\ bucket.verification = "none" /\ bucket.prerequisite # "unknown" =>
                           steady \subseteq bucket.options /\ bucket.options \subseteq ever
                      /\ bucket.verification = "unknown" => bucket.options = recent
                      /\ bucket.panels = 7 <=> bucket.verification = "unknown"
    BY DEF Dashboards!ConfigurationIsKnown
  <2>1. BoardOfTarget /\ Resolution
    BY DEF BucketInv, Dashboards!IsShown
  <2> QED BY <2>1 DEF BoardOfTarget, Resolution
<1> QED BY <1>1, <1>2

LEMMA BucketInitial == Dashboards!BucketInit => BucketInv
BY DEF Dashboards!BucketInit, BucketInv, Dashboards!Target, Dashboards!Listing

\* Somebody creates or deletes a configuration.
LEMMA BucketChange ==
  ASSUME BucketInv, NEW f \in Filter, Dashboards!Change(f)
  PROVE  BucketInv'
<1>1. /\ UNCHANGED <<recent, selection, view, storage, bucket>>
      /\ configs' \subseteq Filter /\ steady' = steady \ {f}
      /\ configs' = IF f \in configs THEN configs \ {f} ELSE configs \union {f}
      /\ ever' = IF Dashboards!Listing THEN ever \union {f} ELSE ever
  BY DEF Dashboards!Change, BucketInv
<1>2. Dashboards!Listing' = Dashboards!Listing
  BY <1>1 DEF Dashboards!Listing
<1>3. Dashboards!Listing => /\ steady' \subseteq configs' /\ configs' \subseteq ever'
                            /\ view.filters \subseteq ever'
  BY <1>1 DEF BucketInv
<1>4. Resolution => Resolution'
  BY <1>1 DEF Resolution
<1>5. (BoardOk => BoardOk') /\ (BoardOfTarget => BoardOfTarget')
  BY <1>1 DEF BoardOk, BoardOfTarget
<1> QED BY <1>1, <1>2, <1>3, <1>4, <1>5 DEF BucketInv

\* The listings begin.
LEMMA BucketBegins ==
  ASSUME BucketInv, Dashboards!Begin(Dashboards!Home), UNCHANGED <<configs, recent, bucket>>
  PROVE  BucketInv'
<1>1. /\ view' = [step |-> "listing", region |-> Dashboards!Home, filters |-> {}, after |-> 0,
                  prerequisite |-> "none", verification |-> "none"]
      /\ steady' = configs /\ ever' = configs
  BY DEF Dashboards!Begin, Dashboards!Target
<1>2. \A f \in configs : f > 0
  BY DashboardsAssumption DEF BucketInv
<1>3. BoardOk => BoardOk'
  BY DEF BoardOk
<1> QED BY <1>1, <1>2, <1>3 DEF BucketInv, Dashboards!Listing

\* There is nothing to list: no region yet, or the resolution has failed.
LEMMA BucketStops ==
  ASSUME BucketInv, NEW s \in {"region", "failed"}, view' = Dashboards!Target(s, "none"),
         UNCHANGED <<configs, recent, bucket>>
  PROVE  BucketInv'
<1>1. view' = [step |-> s, region |-> "none", filters |-> {}, after |-> 0,
               prerequisite |-> "none", verification |-> "none"]
  BY DEF Dashboards!Target
<1>2. BoardOk => BoardOk'
  BY DEF BoardOk
<1> QED BY <1>1, <1>2 DEF BucketInv, Dashboards!Listing

\* What the listing ends with.
LEMMA BucketListed ==
  ASSUME BucketInv, Dashboards!Listing, NEW filters, NEW p, NEW v,
         Dashboards!Listed(filters, p, v),
         UNCHANGED <<configs, recent, bucket, steady, ever>>, filters \subseteq Filter,
         p = "configured" <=> filters # {},
         v = "none" /\ p # "unknown" => steady \subseteq filters /\ filters \subseteq ever,
         v = "unknown" => filters = recent
  PROVE  BucketInv'
<1>1. /\ view'.step = "listed" /\ view'.filters = filters /\ view'.prerequisite = p
      /\ view'.verification = v /\ view'.region = view.region /\ view'.after = view.after
      /\ view' = [step |-> view'.step, region |-> view'.region, filters |-> view'.filters,
                  after |-> view'.after, prerequisite |-> view'.prerequisite,
                  verification |-> view'.verification]
  BY DEF Dashboards!Listed, BucketInv
<1>2. view.region = Dashboards!Home
  BY DEF BucketInv, Dashboards!Listing
<1>3. BoardOk => BoardOk'
  BY DEF BoardOk
<1>4. Resolution'
  BY <1>1 DEF Resolution
<1>5. ~Dashboards!Listing'
  BY <1>1 DEF Dashboards!Listing
<1> QED BY <1>1, <1>2, <1>3, <1>4, <1>5 DEF BucketInv

\* A page is listed.
LEMMA BucketPage == ASSUME BucketInv, Dashboards!ListPage PROVE BucketInv'
<1> DEFINE left == {f \in configs : f > view.after}
           page == {f \in left : Dashboards!Cardinality({g \in left : g <= f}) <= PageSize}
           all == view.filters \union page
<1>1. IF page # left
      THEN view' = [view EXCEPT !.filters = all, !.after = Dashboards!Max(page)]
      ELSE Dashboards!Listed(all, IF all # {} THEN "configured" ELSE "not-configured", "none")
  BY Zenon DEF Dashboards!ListPage
<1>2. /\ view.step = "listing" /\ UNCHANGED <<configs, recent, bucket, steady, ever>>
  BY DEF Dashboards!ListPage
<1>3. /\ left \subseteq configs /\ page \subseteq left /\ configs \subseteq Filter
      /\ Filter \subseteq Nat
  BY DashboardsAssumption DEF BucketInv
<1>4. /\ Dashboards!Listing /\ steady \subseteq configs /\ configs \subseteq ever
      /\ view.filters \subseteq ever /\ view.filters \subseteq Filter
      /\ \A f \in steady : f \in view.filters \/ f > view.after
  BY <1>2 DEF BucketInv, Dashboards!Listing
<1>5. CASE page = left
  <2>1. steady \subseteq all /\ all \subseteq ever /\ all \subseteq Filter
    BY <1>1, <1>3, <1>4, <1>5
  <2> QED BY <1>1, <1>2, <1>4, <1>5, <2>1, BucketListed
<1>6. CASE page # left
  <2>1. \A f : f \in page <=> f \in left /\ Cardinality(ListedUpto(left, f)) <= PageSize
    <3>1. \A S : Dashboards!Cardinality(S) = Cardinality(S)
      BY Zenon DEF Dashboards!Cardinality, Cardinality
    <3> QED BY <3>1 DEF ListedUpto
  <2>2. PICK m : m = Dashboards!Max(page)
    OBVIOUS
  <2>3. m \in page /\ \A f \in left : f \in page \/ f > m
    BY <1>3, <1>6, <2>1, <2>2, PageIsFirst
  <2>4. /\ view'.step = "listing" /\ view'.filters = all /\ view'.after = m
        /\ view'.region = view.region
        /\ view' = [step |-> view'.step, region |-> view'.region, filters |-> view'.filters,
                    after |-> view'.after, prerequisite |-> view'.prerequisite,
                    verification |-> view'.verification]
    BY <1>1, <1>2, <1>6, <2>2 DEF BucketInv
  <2>5. \A f \in steady : f \in all \/ f > m
    BY <1>1, <1>3, <1>4, <2>3
  <2>6. all \subseteq ever /\ all \subseteq Filter /\ m \in Nat
    BY <1>1, <1>3, <1>4, <2>3
  <2>7. BoardOk => BoardOk'
    BY <1>2 DEF BoardOk
  <2> QED BY <1>2, <1>4, <2>4, <2>5, <2>6, <2>7 DEF BucketInv, Dashboards!Listing
<1> QED BY <1>5, <1>6

\* A listing fails, or CloudWatch tells the filters.
LEMMA BucketObserves ==
  ASSUME BucketInv, Dashboards!ListFails \/ Dashboards!FilterIds
  PROVE  BucketInv'
<1>1. CASE Dashboards!ListFails
  <2>1. /\ view.step = "listing" /\ view'.step = "observing" /\ view'.filters = {}
        /\ view'.region = view.region /\ view'.after = view.after
        /\ view' = [step |-> view'.step, region |-> view'.region, filters |-> view'.filters,
                    after |-> view'.after, prerequisite |-> view'.prerequisite,
                    verification |-> view'.verification]
        /\ UNCHANGED <<configs, recent, bucket, steady, ever>>
    BY <1>1 DEF Dashboards!ListFails, BucketInv
  <2>2. BoardOk => BoardOk'
    BY <2>1 DEF BoardOk
  <2> QED BY <2>1, <2>2 DEF BucketInv, Dashboards!Listing
<1>2. CASE Dashboards!FilterIds
  <2>1. PICK found \in {{}, recent} : Dashboards!Observed(found)
    BY <1>2 DEF Dashboards!FilterIds
  <2>2. Dashboards!Listing /\ UNCHANGED <<configs, recent, bucket, steady, ever>>
    BY <1>2 DEF Dashboards!FilterIds, Dashboards!Listing
  <2>3. CASE found # {}
    <3>1. Dashboards!Listed(found, "configured", "unknown") /\ found = recent
      BY <2>1, <2>3 DEF Dashboards!Observed
    <3>2. found \subseteq Filter
      BY <3>1 DEF BucketInv
    <3> QED BY <2>2, <2>3, <3>1, <3>2, BucketListed
  <2>4. CASE found = {}
    <3>1. Dashboards!Listed({}, "unknown", "none")
      BY <2>1, <2>4 DEF Dashboards!Observed
    <3> QED BY <2>2, <3>1, BucketListed
  <2> QED BY <2>3, <2>4
<1> QED BY <1>1, <1>2

\* The dashboard of a target is shown for one of its filters, or for none.
LEMMA BucketShown ==
  ASSUME BucketInv, view.step \in {"listed", "ready"}, NEW f, bucket' = Dashboards!Shown(f),
         IF view.filters = {} THEN f = 0 ELSE f \in view.filters,
         view' = [view EXCEPT !.step = "ready"], UNCHANGED <<configs, recent, steady, ever>>
  PROVE  BucketInv'
<1>1. /\ bucket'.region = view.region /\ bucket'.options = view.filters /\ bucket'.value = f
      /\ bucket'.requests = Dashboards!RequestQueries(f)
      /\ bucket'.prerequisite = view.prerequisite /\ bucket'.verification = view.verification
      /\ bucket'.panels = 7 <=> view.verification = "unknown"
  BY DEF Dashboards!Shown
<1>2. view.region = Dashboards!Home /\ Resolution /\ view.filters \subseteq Filter
  BY DEF BucketInv
<1>3. f \in view.filters => f # 0
  BY <1>2, DashboardsAssumption
<1>4. BoardOk'
  BY <1>1, <1>2, <1>3 DEF BoardOk
<1>5. /\ view'.step = "ready" /\ view'.filters = view.filters /\ view'.after = view.after
      /\ view'.region = view.region /\ view'.prerequisite = view.prerequisite
      /\ view'.verification = view.verification
      /\ view' = [step |-> view'.step, region |-> view'.region, filters |-> view'.filters,
                  after |-> view'.after, prerequisite |-> view'.prerequisite,
                  verification |-> view'.verification]
  BY DEF BucketInv
<1>6. BoardOfTarget' /\ Resolution'
  BY <1>1, <1>2, <1>5 DEF BoardOfTarget, Resolution
<1> QED BY <1>2, <1>4, <1>5, <1>6 DEF BucketInv, Dashboards!Listing

LEMMA BucketSelects ==
  ASSUME BucketInv, \/ Dashboards!Show
                    \/ \E f \in Filter : Dashboards!Select(f)
  PROVE  BucketInv'
<1>1. CASE Dashboards!Show
  <2>1. PICK f : f = Dashboards!SelectedOf(view.filters)
    OBVIOUS
  <2>2. /\ view.step = "listed" /\ bucket' = Dashboards!Shown(f)
        /\ view' = [view EXCEPT !.step = "ready"] /\ UNCHANGED <<configs, recent, steady, ever>>
    BY <1>1, <2>1 DEF Dashboards!Show
  <2>3. IF view.filters = {} THEN f = 0 ELSE f \in view.filters
    <3>1. ASSUME view.filters # {} PROVE Dashboards!Min(view.filters) \in view.filters
      <4>1. view.filters \in SUBSET Nat
        BY DashboardsAssumption DEF BucketInv
      <4>2. \E x \in view.filters : \A y \in view.filters : x <= y
        BY <3>1, <4>1, LeastElement
      <4> QED BY <4>2, Zenon DEF Dashboards!Min
    <3> QED BY <2>1, <3>1 DEF Dashboards!SelectedOf
  <2> QED BY <2>2, <2>3, BucketShown
<1>2. ASSUME NEW f \in Filter, Dashboards!Select(f) PROVE BucketInv'
  <2>1. /\ f \in bucket.options /\ view' = view /\ UNCHANGED <<configs, recent, steady, ever>>
        /\ bucket' = IF view.step = "ready" THEN Dashboards!Shown(f) ELSE bucket
    BY <1>2 DEF Dashboards!Select
  <2>2. CASE view.step = "ready"
    <3>1. bucket # Dashboards!NoBoard
      BY <2>1 DEF Dashboards!NoBoard
    <3>2. f \in view.filters
      BY <2>1, <2>2, <3>1 DEF BucketInv, BoardOfTarget
    <3>3. view' = [view EXCEPT !.step = "ready"]
      BY <2>1, <2>2 DEF BucketInv
    <3> QED BY <2>1, <2>2, <3>2, <3>3, BucketShown
  <2>3. CASE view.step # "ready"
    BY <2>1, <2>3 DEF BucketInv, Dashboards!Listing, BoardOk, BoardOfTarget, Resolution
  <2> QED BY <2>2, <2>3
<1> QED BY <1>1, <1>2

\* What BucketNext keeps.
LEMMA BucketStep == BucketInv /\ [Dashboards!BucketNext]_bucketVars => BucketInv'
<1> SUFFICES ASSUME BucketInv, [Dashboards!BucketNext]_bucketVars PROVE BucketInv'
  OBVIOUS
<1>1. ASSUME UNCHANGED <<configs, recent, view, bucket, steady, ever>> PROVE BucketInv'
  BY <1>1 DEF BucketInv, Dashboards!Listing, BoardOk, BoardOfTarget, Resolution
<1>2. CASE UNCHANGED bucketVars
  BY <1>1, <1>2 DEF bucketVars
<1>3. CASE Dashboards!StorageTypes
  BY <1>1, <1>3 DEF Dashboards!StorageTypes
<1>4. CASE Dashboards!Resolve
  BY <1>4, BucketBegins, BucketStops DEF Dashboards!Resolve
<1>5. CASE Dashboards!HeadBucket
  <2>1. PICK answer \in [ok : BOOLEAN, region : {Dashboards!Home, "none"}] :
          IF Dashboards!RegionOf(answer) # "none"
          THEN Dashboards!Begin(Dashboards!RegionOf(answer))
          ELSE view' = Dashboards!Target("failed", "none")
    BY <1>5 DEF Dashboards!HeadBucket
  <2>2. UNCHANGED <<configs, recent, bucket>>
    BY <1>5 DEF Dashboards!HeadBucket
  <2>3. Dashboards!RegionOf(answer) \in {Dashboards!Home, "none"}
    BY DEF Dashboards!RegionOf
  <2> QED BY <2>1, <2>2, <2>3, BucketBegins, BucketStops
<1>6. CASE Dashboards!Aborted
  BY <1>6, BucketStops DEF Dashboards!Aborted
<1> QED BY <1>2, <1>3, <1>4, <1>5, <1>6, BucketChange, BucketPage, BucketObserves, BucketSelects
        DEF Dashboards!BucketNext

-----------------------------------------------------------------------------
\* The panel that has the series of a metric.
PanelOf(m) ==
  CASE m \in {"ConsumedReadCapacityUnits", "ConsumedWriteCapacityUnits"} -> "consumed-capacity"
    [] m \in {"ProvisionedReadCapacityUnits", "ProvisionedWriteCapacityUnits",
              "OnDemandMaxReadRequestUnits", "OnDemandMaxWriteRequestUnits"} -> "capacity-limits"
    [] m \in {"ReadThrottleEvents", "WriteThrottleEvents"} -> "throttling"
    [] m = "SuccessfulRequestLatency" -> "request-latency"
    [] m \in {"SystemErrors", "ConditionalCheckFailedRequests", "TransactionConflict"} ->
         "request-errors"
    [] m = "ReturnedItemCount" -> "returned-items"
    [] m = "TimeToLiveDeletedItemCount" -> "ttl-deletions"
    [] m \in {"ApproximateNumberOfMessagesVisible", "ApproximateNumberOfMessagesNotVisible",
              "ApproximateNumberOfMessagesDelayed"} -> "backlog"
    [] m = "ApproximateAgeOfOldestMessage" -> "oldest-message"
    [] m \in {"NumberOfMessagesSent", "NumberOfMessagesReceived", "NumberOfMessagesDeleted",
              "NumberOfEmptyReceives"} -> "message-flow"
    [] m = "SentMessageSize" -> "message-size"
    [] m \in {"ApproximateNumberOfGroupsWithInflightMessages",
              "NumberOfDeduplicatedSentMessages"} -> "fifo"
    [] m \in {"Send", "Delivery"} -> "sending-volume"
    [] m \in {"Bounce", "Complaint", "Reject", "DeliveryDelay"} -> "delivery-problems"
    [] m \in {"Reputation.BounceRate", "Reputation.ComplaintRate"} -> "reputation"
    [] m \in {"Open", "Click", "Subscription", "RenderingFailure"} -> "observed-events"
    [] OTHER -> "none"

\* A panel has lines, each with a series of its own that is of no other panel.
Proper(p) ==
  /\ DOMAIN p.queries # {}
  /\ \A i, k \in DOMAIN p.queries : p.queries[i] = p.queries[k] => i = k
  /\ \A i \in DOMAIN p.queries : PanelOf(p.queries[i].metric) = p.id

\* Lines f[i] with a series each of their own, all of the panel id.
OwnLines(f, lines, id) ==
  /\ lines # {}
  /\ \A i \in lines : PanelOf(f[i].metric) = id
  /\ \A i, k \in lines : f[i] = f[k] => i = k

\* Metrics, each there once, all of the panel id.
OwnNames(names, id) ==
  /\ DOMAIN names # {}
  /\ \A i \in DOMAIN names : PanelOf(names[i]) = id
  /\ \A i, k \in DOMAIN names : names[i] = names[k] => i = k

\* Such lines make a proper panel.
LEMMA ProperLines ==
  ASSUME NEW id, NEW lines, NEW f, OwnLines(f, lines, id)
  PROVE  Proper(Dashboards!Panel(id, [i \in lines |-> f[i]]))
<1>1. PICK p : p = Dashboards!Panel(id, [i \in lines |-> f[i]])
  OBVIOUS
<1>2. p.id = id /\ p.queries = [i \in lines |-> f[i]]
  BY <1>1 DEF Dashboards!Panel
<1>3. DOMAIN p.queries = lines /\ \A i \in lines : p.queries[i] = f[i]
  BY <1>2
<1>4. Proper(p)
  BY <1>2, <1>3 DEF Proper, OwnLines
<1> QED BY <1>1, <1>4

\* One series of each of such metrics does too.
LEMMA ProperEach ==
  ASSUME NEW id, NEW names, NEW statistic, NEW dims, OwnNames(names, id)
  PROVE  Proper(Dashboards!Panel(id, Dashboards!Each(names, statistic, dims)))
<1>1. PICK f : f = [i \in DOMAIN names |-> Dashboards!Series(names[i], statistic, dims)]
  OBVIOUS
<1>2. DOMAIN f = DOMAIN names /\ \A i \in DOMAIN names : f[i].metric = names[i]
  BY <1>1 DEF Dashboards!Series
<1>3. OwnLines(f, DOMAIN names, id)
  BY <1>2 DEF OwnLines, OwnNames
<1>5. Proper(Dashboards!Panel(id, [i \in DOMAIN names |-> f[i]]))
  BY <1>3, ProperLines
<1>6. Dashboards!Each(names, statistic, dims) = [i \in DOMAIN names |-> f[i]]
  BY <1>1 DEF Dashboards!Each
<1> QED BY <1>5, <1>6

\* A dashboard of proper panels reads every series once.
LEMMA ProperBoard ==
  ASSUME \A p \in board : Proper(p), \A p, q \in board : p.id = q.id => p = q
  PROVE  Dashboards!ReadOnce
BY DEF Proper, Dashboards!ReadOnce, Dashboards!Lines

\* The scopes of a table have dimensions of their own.
LEMMA ScopesDiffer ==
  ASSUME NEW n \in Nat, NEW i \in 0 .. n, NEW k \in 0 .. n,
         Dashboards!ScopeDimensions(i) = Dashboards!ScopeDimensions(k)
  PROVE  i = k
<1>1. /\ \A j : <<"GlobalSecondaryIndexName", j>> \notin Dashboards!TableDimensions
      /\ \A j : <<"GlobalSecondaryIndexName", j>> \in Dashboards!GsiDimensions(j)
      /\ \A j, l : <<"GlobalSecondaryIndexName", j>> \in Dashboards!GsiDimensions(l) => j = l
  BY DEF Dashboards!TableDimensions, Dashboards!GsiDimensions
<1> QED BY <1>1 DEF Dashboards!ScopeDimensions

\* A read and a write series of each scope.
LEMMA ProperScopes ==
  ASSUME NEW t, Len(t.gsis) \in Nat, NEW id, NEW read, NEW write, read # write,
         PanelOf(read) = id, PanelOf(write) = id
  PROVE  Proper(Dashboards!Panel(id, Dashboards!ReadWrite(t, read, write)))
<1> DEFINE lines == Dashboards!Scopes(t) \X Dashboards!Sides
<1>1. PICK f : f = [at \in lines |->
                      Dashboards!Series(IF at[2] = "read" THEN read ELSE write, "Sum",
                                        Dashboards!ScopeDimensions(at[1]))]
  OBVIOUS
<1>2. ASSUME NEW at \in lines
      PROVE  /\ f[at].metric = (IF at[2] = "read" THEN read ELSE write)
             /\ f[at].dimensions = Dashboards!ScopeDimensions(at[1])
             /\ at[1] \in 0 .. Len(t.gsis) /\ at[2] \in {"read", "write"}
             /\ at = <<at[1], at[2]>>
  BY <1>1 DEF Dashboards!Series, Dashboards!Scopes, Dashboards!Sides
<1>3. lines # {}
  <2>1. 0 \in Dashboards!Scopes(t) /\ "read" \in Dashboards!Sides
    BY DEF Dashboards!Scopes, Dashboards!Sides
  <2>2. <<0, "read">> \in lines
    BY <2>1
  <2> QED BY <2>2
<1> HIDE DEF lines
<1>4. \A at \in lines : PanelOf(f[at].metric) = id
  BY <1>2
<1>5. ASSUME NEW x \in lines, NEW y \in lines, f[x] = f[y] PROVE x = y
  <2>1. x[1] = y[1]
    BY <1>2, <1>5, ScopesDiffer
  <2>2. x[2] = y[2]
    <3>1. f[x].metric = f[y].metric
      BY <1>5
    <3>2. (x[2] = "read" <=> y[2] = "read") /\ {x[2], y[2]} \subseteq {"read", "write"}
      BY <1>2, <3>1
    <3> QED BY <3>2
  <2> QED BY <1>2, <2>1, <2>2
<1>8. OwnLines(f, lines, id)
  BY <1>3, <1>4, <1>5 DEF OwnLines
<1>6. Proper(Dashboards!Panel(id, [at \in lines |-> f[at]]))
  BY <1>8, ProperLines
<1>7. Dashboards!ReadWrite(t, read, write) = [at \in lines |-> f[at]]
  BY <1>1 DEF Dashboards!ReadWrite, lines
<1> QED BY <1>6, <1>7

\* The limits of a mode, of each scope that has one.
LEMMA ProperLimits ==
  ASSUME NEW t, Len(t.gsis) \in Nat, DOMAIN Dashboards!LimitQueries(t) # {}
  PROVE  Proper(Dashboards!Panel("capacity-limits", Dashboards!LimitQueries(t)))
<1> DEFINE lines == {x \in Dashboards!Binding(t) \X Dashboards!Scopes(t) \X Dashboards!Sides :
                       x[3] \in Dashboards!LimitsOf(t, x[2], x[1])}
<1>1. PICK f : f = [at \in lines |->
                      Dashboards!Series(Dashboards!LimitMetric(at[1], at[3]), "Average",
                                        Dashboards!ScopeDimensions(at[2]))]
  OBVIOUS
<1>2. Dashboards!LimitQueries(t) = [at \in lines |-> f[at]]
  BY <1>1 DEF Dashboards!LimitQueries
<1>3. ASSUME NEW at \in lines
      PROVE  /\ f[at].metric = Dashboards!LimitMetric(at[1], at[3])
             /\ f[at].dimensions = Dashboards!ScopeDimensions(at[2])
             /\ at[2] \in 0 .. Len(t.gsis) /\ at[3] \in {"read", "write"}
             /\ at[1] \in {"Provisioned", "OnDemandMax"}
             /\ at = <<at[1], at[2], at[3]>>
  <2>1. Dashboards!Binding(t) \subseteq {"Provisioned", "OnDemandMax"}
    BY DEF Dashboards!Binding
  <2>2. at \in {"Provisioned", "OnDemandMax"} \X (0 .. Len(t.gsis)) \X {"read", "write"}
    BY <2>1 DEF Dashboards!Scopes, Dashboards!Sides
  <2>3. f[at] = Dashboards!Series(Dashboards!LimitMetric(at[1], at[3]), "Average",
                                    Dashboards!ScopeDimensions(at[2]))
    BY <1>1
  <2> HIDE DEF lines
  <2> QED BY <2>2, <2>3 DEF Dashboards!Series
<1>4. lines # {}
  BY <1>2
<1> HIDE DEF lines
<1>5. ASSUME NEW at \in lines PROVE PanelOf(f[at].metric) = "capacity-limits"
  BY <1>3 DEF Dashboards!LimitMetric, PanelOf
<1>6. ASSUME NEW x \in lines, NEW y \in lines, f[x] = f[y] PROVE x = y
  <2>1. x[2] = y[2]
    BY <1>3, <1>6, ScopesDiffer
  <2>2. Dashboards!LimitMetric(x[1], x[3]) = Dashboards!LimitMetric(y[1], y[3])
    BY <1>3, <1>6
  <2>3. /\ {x[1], y[1]} \subseteq {"Provisioned", "OnDemandMax"}
        /\ {x[3], y[3]} \subseteq {"read", "write"}
    BY <1>3
  <2>4. x[1] = y[1] /\ x[3] = y[3]
    BY <2>2, <2>3 DEF Dashboards!LimitMetric
  <2> QED BY <1>3, <2>1, <2>4
<1>7. OwnLines(f, lines, "capacity-limits")
  BY <1>4, <1>5, <1>6 DEF OwnLines
<1> QED BY <1>2, <1>7, ProperLines

\* A query q for a limit is of the table's mode and of one of its scopes.
Binds(t, q) ==
  /\ q.metric \in {"ProvisionedReadCapacityUnits", "ProvisionedWriteCapacityUnits"} =>
       t.mode # "PAY_PER_REQUEST"
  /\ q.metric \in {"OnDemandMaxReadRequestUnits", "OnDemandMaxWriteRequestUnits"} =>
       t.mode = "PAY_PER_REQUEST"
  /\ q.statistic = "Average" =>
       \E k \in Dashboards!Scopes(t) : q.dimensions = Dashboards!ScopeDimensions(k)

\* So are all that the panel of the limits asks for.
LEMMA LimitsAreBinding ==
  ASSUME NEW t, NEW i \in DOMAIN Dashboards!LimitQueries(t)
  PROVE  Binds(t, Dashboards!LimitQueries(t)[i])
<1> DEFINE lines == {x \in Dashboards!Binding(t) \X Dashboards!Scopes(t) \X Dashboards!Sides :
                       x[3] \in Dashboards!LimitsOf(t, x[2], x[1])}
<1>1. PICK f : f = [at \in lines |->
                      Dashboards!Series(Dashboards!LimitMetric(at[1], at[3]), "Average",
                                        Dashboards!ScopeDimensions(at[2]))]
  OBVIOUS
<1>2. Dashboards!LimitQueries(t) = f /\ i \in lines
  BY <1>1 DEF Dashboards!LimitQueries
<1>3. /\ f[i].metric = Dashboards!LimitMetric(i[1], i[3])
      /\ f[i].dimensions = Dashboards!ScopeDimensions(i[2])
  BY <1>1, <1>2 DEF Dashboards!Series
<1>4. /\ i[1] \in Dashboards!Binding(t) /\ i[2] \in Dashboards!Scopes(t)
      /\ i[3] \in {"read", "write"}
  BY <1>2 DEF Dashboards!Sides
<1>5. /\ i[1] = "Provisioned" => t.mode # "PAY_PER_REQUEST"
      /\ i[1] = "OnDemandMax" => t.mode = "PAY_PER_REQUEST"
      /\ i[1] \in {"Provisioned", "OnDemandMax"}
  BY <1>4 DEF Dashboards!Binding, Dashboards!BillingMode
<1>6. /\ f[i].metric \in {"ProvisionedReadCapacityUnits", "ProvisionedWriteCapacityUnits"} =>
           i[1] = "Provisioned"
      /\ f[i].metric \in {"OnDemandMaxReadRequestUnits", "OnDemandMaxWriteRequestUnits"} =>
           i[1] = "OnDemandMax"
  BY <1>3, <1>4, <1>5 DEF Dashboards!LimitMetric
<1> QED BY <1>2, <1>3, <1>4, <1>5, <1>6 DEF Binds

\* What was consumed is asked for of every scope.
LEMMA ScopesAreRead ==
  ASSUME NEW t, NEW k \in Dashboards!Scopes(t), NEW read, NEW write
  PROVE  \E i \in DOMAIN Dashboards!ReadWrite(t, read, write) :
           /\ Dashboards!ReadWrite(t, read, write)[i].metric = read
           /\ Dashboards!ReadWrite(t, read, write)[i].dimensions = Dashboards!ScopeDimensions(k)
<1>1. PICK f : f = [at \in Dashboards!Scopes(t) \X Dashboards!Sides |->
                      Dashboards!Series(IF at[2] = "read" THEN read ELSE write, "Sum",
                                        Dashboards!ScopeDimensions(at[1]))]
  OBVIOUS
<1>2. <<k, "read">> \in Dashboards!Scopes(t) \X Dashboards!Sides
  BY DEF Dashboards!Sides
<1>3. /\ <<k, "read">> \in DOMAIN f /\ f[<<k, "read">>].metric = read
      /\ f[<<k, "read">>].dimensions = Dashboards!ScopeDimensions(k)
  BY <1>1, <1>2 DEF Dashboards!Series
<1>4. Dashboards!ReadWrite(t, read, write) = f
  BY <1>1 DEF Dashboards!ReadWrite
<1> QED BY <1>3, <1>4

\* The dashboard of a table: its panels are proper, and go by their names; its limits
\* bind, and what is consumed of them is shown.
LEMMA TableIsProper ==
  ASSUME NEW t, Len(t.gsis) \in Nat, NEW op
  PROVE  /\ \A p \in Dashboards!TablePanels(t, op) : Proper(p)
         /\ \A p, q \in Dashboards!TablePanels(t, op) : p.id = q.id => p = q
         /\ \A p \in Dashboards!TablePanels(t, op) : \A i \in DOMAIN p.queries :
              Binds(t, p.queries[i])
         /\ \A k \in Dashboards!Scopes(t) :
              \E p \in Dashboards!TablePanels(t, op) : \E i \in DOMAIN p.queries :
                /\ p.queries[i].metric = "ConsumedReadCapacityUnits"
                /\ p.queries[i].dimensions = Dashboards!ScopeDimensions(k)
<1>1. PICK dims : dims = Dashboards!OperationDimensions(op)
  OBVIOUS
<1>2. PICK consumed : consumed = Dashboards!Panel("consumed-capacity",
        Dashboards!ReadWrite(t, "ConsumedReadCapacityUnits", "ConsumedWriteCapacityUnits"))
  OBVIOUS
<1>3. PICK throttling : throttling = Dashboards!Panel("throttling",
        Dashboards!ReadWrite(t, "ReadThrottleEvents", "WriteThrottleEvents"))
  OBVIOUS
<1>4. PICK latency : latency = Dashboards!Panel("request-latency",
        [i \in 1..3 |-> Dashboards!Series("SuccessfulRequestLatency", <<"p50", "p90", "p99">>[i], dims)])
  OBVIOUS
<1>5. PICK errors : errors = Dashboards!Panel("request-errors",
        Dashboards!Each(<<"SystemErrors", "ConditionalCheckFailedRequests", "TransactionConflict">>,
                        "Sum", dims))
  OBVIOUS
<1>6. PICK limits : limits = Dashboards!Panel("capacity-limits", Dashboards!LimitQueries(t))
  OBVIOUS
<1>7. PICK returned : returned = Dashboards!Panel("returned-items",
        Dashboards!Each(<<"ReturnedItemCount">>, "Sum", dims))
  OBVIOUS
<1>8. PICK ttl : ttl = Dashboards!Panel("ttl-deletions",
        Dashboards!Each(<<"TimeToLiveDeletedItemCount">>, "Sum", Dashboards!TableDimensions))
  OBVIOUS
<1>9. /\ consumed.id = "consumed-capacity" /\ throttling.id = "throttling"
      /\ latency.id = "request-latency" /\ errors.id = "request-errors"
      /\ limits.id = "capacity-limits" /\ returned.id = "returned-items"
      /\ ttl.id = "ttl-deletions"
  BY <1>2, <1>3, <1>4, <1>5, <1>6, <1>7, <1>8 DEF Dashboards!Panel
<1>10. ASSUME NEW p \in Dashboards!TablePanels(t, op)
       PROVE  \/ p \in {consumed, throttling, latency, errors, returned, ttl}
              \/ p = limits /\ DOMAIN Dashboards!LimitQueries(t) # {}
  <2> DEFINE L == IF DOMAIN Dashboards!LimitQueries(t) # {} THEN {limits} ELSE {}
             R == IF op \in {"Query", "Scan"} THEN {returned} ELSE {}
             T == IF t.ttl \in {"ENABLED", "ENABLING"} THEN {ttl} ELSE {}
  <2>1. Dashboards!TablePanels(t, op) =
          {consumed, throttling, latency, errors} \union L \union R \union T
    BY <1>1, <1>2, <1>3, <1>4, <1>5, <1>6, <1>7, <1>8, Zenon DEF Dashboards!TablePanels
  <2>2. p \in {consumed, throttling, latency, errors} \/ p \in L \/ p \in R \/ p \in T
    BY <2>1, Zenon
  <2> QED BY <2>2, Zenon
<1>11. Proper(consumed) /\ Proper(throttling)
  <2>1. /\ PanelOf("ConsumedReadCapacityUnits") = "consumed-capacity"
        /\ PanelOf("ConsumedWriteCapacityUnits") = "consumed-capacity"
        /\ PanelOf("ReadThrottleEvents") = "throttling"
        /\ PanelOf("WriteThrottleEvents") = "throttling"
    BY DEF PanelOf
  <2> QED BY <1>2, <1>3, <2>1, ProperScopes
<1>12. Proper(latency)
  <2>1. PICK f : f = [i \in 1..3 |->
                Dashboards!Series("SuccessfulRequestLatency", <<"p50", "p90", "p99">>[i], dims)]
    OBVIOUS
  <2>2. \A i \in 1..3 : f[i].metric = "SuccessfulRequestLatency" /\ f[i].statistic = <<"p50", "p90", "p99">>[i]
    BY <2>1 DEF Dashboards!Series
  <2>3. \A i, k \in 1..3 : <<"p50", "p90", "p99">>[i] = <<"p50", "p90", "p99">>[k] => i = k
    OBVIOUS
  <2>4. \A i, k \in 1..3 : f[i] = f[k] => i = k
    BY <2>2, <2>3
  <2>5. \A i \in 1..3 : PanelOf(f[i].metric) = "request-latency"
    BY <2>2 DEF PanelOf
  <2>6. Proper(Dashboards!Panel("request-latency", [i \in 1..3 |-> f[i]]))
    <3>1. OwnLines(f, 1..3, "request-latency")
      BY <2>4, <2>5 DEF OwnLines
    <3> QED BY <3>1, ProperLines
  <2>7. f = [i \in 1..3 |-> f[i]]
    BY <2>1
  <2> QED BY <1>4, <2>1, <2>6, <2>7
<1>13. Proper(errors) /\ Proper(returned) /\ Proper(ttl)
  <2>1. PICK e : e = <<"SystemErrors", "ConditionalCheckFailedRequests", "TransactionConflict">>
    OBVIOUS
  <2>2. DOMAIN e = 1..3 /\ \A i, k \in 1..3 : e[i] = e[k] => i = k
    BY <2>1
  <2>3. \A i \in 1..3 : PanelOf(e[i]) = "request-errors"
    BY <2>1 DEF PanelOf
  <2>7. OwnNames(e, "request-errors")
    BY <2>2, <2>3 DEF OwnNames
  <2>4. Proper(errors)
    BY <1>5, <2>1, <2>7, ProperEach
  <2>5. ASSUME NEW m, NEW id, NEW d, PanelOf(m) = id
        PROVE  Proper(Dashboards!Panel(id, Dashboards!Each(<<m>>, "Sum", d)))
    <3>1. PICK n : n = <<m>>
      OBVIOUS
    <3>2. DOMAIN n = {1} /\ n[1] = m
      BY <3>1
    <3>3. OwnNames(n, id)
      BY <2>5, <3>2 DEF OwnNames
    <3> QED BY <3>1, <3>3, ProperEach
  <2>6. /\ PanelOf("ReturnedItemCount") = "returned-items"
        /\ PanelOf("TimeToLiveDeletedItemCount") = "ttl-deletions"
    BY DEF PanelOf
  <2> QED BY <1>7, <1>8, <2>4, <2>5, <2>6
<1>14. DOMAIN Dashboards!LimitQueries(t) # {} => Proper(limits)
  BY <1>6, ProperLimits
<1>15. \A p \in Dashboards!TablePanels(t, op) : Proper(p)
  BY <1>10, <1>11, <1>12, <1>13, <1>14
<1>16. \A p, q \in Dashboards!TablePanels(t, op) : p.id = q.id => p = q
  BY <1>9, <1>10
<1>17. ASSUME NEW p \in {consumed, throttling, latency, errors, returned, ttl},
              NEW i \in DOMAIN p.queries
       PROVE  p.queries[i].statistic # "Average"
  <2>1. ASSUME NEW read, NEW write, NEW k \in DOMAIN Dashboards!ReadWrite(t, read, write)
        PROVE  Dashboards!ReadWrite(t, read, write)[k].statistic = "Sum"
    BY <2>1 DEF Dashboards!ReadWrite, Dashboards!Series
  <2>2. ASSUME NEW names, NEW d, NEW k \in DOMAIN Dashboards!Each(names, "Sum", d)
        PROVE  Dashboards!Each(names, "Sum", d)[k].statistic = "Sum"
    BY <2>2 DEF Dashboards!Each, Dashboards!Series
  <2>3. CASE p = consumed \/ p = throttling
    BY <1>2, <1>3, <2>1, <2>3 DEF Dashboards!Panel
  <2>4. CASE p = latency
    <3>1. PICK f : f = [k \in 1..3 |->
            Dashboards!Series("SuccessfulRequestLatency", <<"p50", "p90", "p99">>[k], dims)]
      OBVIOUS
    <3>2. \A k \in DOMAIN f : f[k].statistic = <<"p50", "p90", "p99">>[k] /\ k \in 1..3
      BY <3>1 DEF Dashboards!Series
    <3>3. \A k \in 1..3 : <<"p50", "p90", "p99">>[k] # "Average"
      OBVIOUS
    <3>4. p.queries = f
      BY <1>4, <2>4, <3>1 DEF Dashboards!Panel
    <3> QED BY <3>2, <3>3, <3>4
  <2>5. CASE p = errors \/ p = returned \/ p = ttl
    BY <1>5, <1>7, <1>8, <2>2, <2>5 DEF Dashboards!Panel
  <2> QED BY <2>3, <2>4, <2>5, <1>17
<1>18. ASSUME NEW p \in Dashboards!TablePanels(t, op), NEW i \in DOMAIN p.queries
       PROVE  Binds(t, p.queries[i])
  <2>1. CASE p = limits
    <3>1. p.queries = Dashboards!LimitQueries(t)
      BY <1>6, <2>1 DEF Dashboards!Panel
    <3> QED BY <3>1, LimitsAreBinding
  <2>2. CASE p \in {consumed, throttling, latency, errors, returned, ttl}
    <3>1. p.queries[i].statistic # "Average"
      BY <1>17, <2>2
    <3>2. PanelOf(p.queries[i].metric) = p.id /\ p.id # "capacity-limits"
      BY <1>9, <1>15, <2>2 DEF Proper
    <3>3. \A m \in {"ProvisionedReadCapacityUnits", "ProvisionedWriteCapacityUnits",
                    "OnDemandMaxReadRequestUnits", "OnDemandMaxWriteRequestUnits"} :
            PanelOf(m) = "capacity-limits"
      BY DEF PanelOf
    <3> QED BY <3>1, <3>2, <3>3 DEF Binds
  <2> QED BY <1>10, <2>1, <2>2
<1>19. ASSUME NEW k \in Dashboards!Scopes(t)
       PROVE  \E i \in DOMAIN consumed.queries :
                /\ consumed.queries[i].metric = "ConsumedReadCapacityUnits"
                /\ consumed.queries[i].dimensions = Dashboards!ScopeDimensions(k)
  <2>1. consumed.queries =
          Dashboards!ReadWrite(t, "ConsumedReadCapacityUnits", "ConsumedWriteCapacityUnits")
    BY <1>2 DEF Dashboards!Panel
  <2> QED BY <2>1, ScopesAreRead
<1>20. consumed \in Dashboards!TablePanels(t, op)
  BY <1>1, <1>2, <1>3, <1>4, <1>5, Zenon DEF Dashboards!TablePanels
<1> QED BY <1>15, <1>16, <1>18, <1>19, <1>20

\* Two series of one statistic or one metric.
LEMMA ProperPair ==
  ASSUME NEW id, NEW a, NEW b, a # b, PanelOf(a.metric) = id, PanelOf(b.metric) = id
  PROVE  Proper(Dashboards!Panel(id, <<a, b>>))
<1>1. PICK p : p = Dashboards!Panel(id, <<a, b>>)
  OBVIOUS
<1>2. p.id = id /\ DOMAIN p.queries = 1 .. 2 /\ p.queries[1] = a /\ p.queries[2] = b
  BY <1>1 DEF Dashboards!Panel
<1>3. Proper(p)
  BY <1>2 DEF Proper
<1> QED BY <1>1, <1>3

\* The dashboard of a queue.
LEMMA QueueIsProper ==
  ASSUME NEW t
  PROVE  /\ \A p \in Dashboards!QueuePanels(t) : Proper(p)
         /\ \A p, q \in Dashboards!QueuePanels(t) : p.id = q.id => p = q
<1>1. PICK dims : dims = {<<"QueueName", "q">>}
  OBVIOUS
<1>2. PICK visible : visible = <<"ApproximateNumberOfMessagesVisible",
        "ApproximateNumberOfMessagesNotVisible", "ApproximateNumberOfMessagesDelayed">>
  OBVIOUS
<1>3. PICK sent : sent = <<"NumberOfMessagesSent", "NumberOfMessagesReceived",
        "NumberOfMessagesDeleted", "NumberOfEmptyReceives">>
  OBVIOUS
<1>4. PICK backlog : backlog = Dashboards!Panel("backlog", Dashboards!Each(visible, "Maximum", dims))
  OBVIOUS
<1>5. PICK oldest : oldest = Dashboards!Panel("oldest-message",
        Dashboards!Each(<<"ApproximateAgeOfOldestMessage">>, "Maximum", dims))
  OBVIOUS
<1>6. PICK flow : flow = Dashboards!Panel("message-flow", Dashboards!Each(sent, "Sum", dims))
  OBVIOUS
<1>7. PICK size : size = Dashboards!Panel("message-size",
        <<Dashboards!Series("SentMessageSize", "Average", dims),
          Dashboards!Series("SentMessageSize", "Maximum", dims)>>)
  OBVIOUS
<1>8. PICK fifo : fifo = Dashboards!Panel("fifo",
        <<Dashboards!Series("ApproximateNumberOfGroupsWithInflightMessages", "Maximum", dims),
          Dashboards!Series("NumberOfDeduplicatedSentMessages", "Sum", dims)>>)
  OBVIOUS
<1>9. \A p \in Dashboards!QueuePanels(t) : p \in {backlog, oldest, flow, size, fifo}
  <2> DEFINE F == IF t.fifo THEN {fifo} ELSE {}
  <2>1. Dashboards!QueuePanels(t) = {backlog, oldest, flow, size} \union F
    BY <1>1, <1>2, <1>3, <1>4, <1>5, <1>6, <1>7, <1>8, Zenon DEF Dashboards!QueuePanels
  <2>2. F \subseteq {fifo}
    OBVIOUS
  <2> HIDE DEF F
  <2> QED BY <2>1, <2>2
<1>10. /\ backlog.id = "backlog" /\ oldest.id = "oldest-message" /\ flow.id = "message-flow"
       /\ size.id = "message-size" /\ fifo.id = "fifo"
  BY <1>4, <1>5, <1>6, <1>7, <1>8 DEF Dashboards!Panel
<1>11. Proper(backlog)
  <2>1. DOMAIN visible = 1 .. 3 /\ \A i, k \in 1 .. 3 : visible[i] = visible[k] => i = k
    BY <1>2
  <2>2. \A i \in 1 .. 3 : PanelOf(visible[i]) = "backlog"
    BY <1>2 DEF PanelOf
  <2>3. OwnNames(visible, "backlog")
    BY <2>1, <2>2 DEF OwnNames
  <2> QED BY <1>4, <2>3, ProperEach
<1>12. Proper(oldest)
  <2>1. PICK n : n = <<"ApproximateAgeOfOldestMessage">>
    OBVIOUS
  <2>2. DOMAIN n = 1 .. 1 /\ n[1] = "ApproximateAgeOfOldestMessage"
    BY <2>1
  <2>3. \A i \in 1 .. 1 : PanelOf(n[i]) = "oldest-message"
    BY <2>2 DEF PanelOf
  <2>4. OwnNames(n, "oldest-message")
    BY <2>2, <2>3 DEF OwnNames
  <2> QED BY <1>5, <2>1, <2>4, ProperEach
<1>13. Proper(flow)
  <2>1. DOMAIN sent = 1 .. 4 /\ \A i, k \in 1 .. 4 : sent[i] = sent[k] => i = k
    BY <1>3
  <2>2. \A i \in 1 .. 4 : PanelOf(sent[i]) = "message-flow"
    BY <1>3 DEF PanelOf
  <2>3. OwnNames(sent, "message-flow")
    BY <2>1, <2>2 DEF OwnNames
  <2> QED BY <1>6, <2>3, ProperEach
<1>14. Proper(size)
  <2>1. PICK a, b : /\ a = Dashboards!Series("SentMessageSize", "Average", dims)
                    /\ b = Dashboards!Series("SentMessageSize", "Maximum", dims)
    OBVIOUS
  <2>2. a.metric = "SentMessageSize" /\ b.metric = "SentMessageSize" /\ a # b
    BY <2>1 DEF Dashboards!Series
  <2>3. PanelOf("SentMessageSize") = "message-size"
    BY DEF PanelOf
  <2> QED BY <1>7, <2>1, <2>2, <2>3, ProperPair
<1>15. Proper(fifo)
  <2>1. PICK a, b :
          /\ a = Dashboards!Series("ApproximateNumberOfGroupsWithInflightMessages", "Maximum", dims)
          /\ b = Dashboards!Series("NumberOfDeduplicatedSentMessages", "Sum", dims)
    OBVIOUS
  <2>2. /\ a.metric = "ApproximateNumberOfGroupsWithInflightMessages"
        /\ b.metric = "NumberOfDeduplicatedSentMessages" /\ a # b
    BY <2>1 DEF Dashboards!Series
  <2>3. /\ PanelOf("ApproximateNumberOfGroupsWithInflightMessages") = "fifo"
        /\ PanelOf("NumberOfDeduplicatedSentMessages") = "fifo"
    BY DEF PanelOf
  <2> QED BY <1>8, <2>1, <2>2, <2>3, ProperPair
<1> QED BY <1>9, <1>10, <1>11, <1>12, <1>13, <1>14, <1>15

\* The dashboard of the account; it asks for optional events that have the names.
LEMMA AccountIsProper ==
  ASSUME NEW names
  PROVE  /\ \A p \in Dashboards!AccountPanels(names) : Proper(p)
         /\ \A p, q \in Dashboards!AccountPanels(names) : p.id = q.id => p = q
         /\ \A p \in Dashboards!AccountPanels(names) : \A i \in DOMAIN p.queries :
              PanelOf(p.queries[i].metric) = "observed-events" => p.queries[i].metric \in names
<1> DEFINE lines == {i \in DOMAIN Dashboards!OptionalEvents : Dashboards!OptionalEvents[i] \in names}
<1>1. PICK sending, problems, reputation, events :
        /\ sending = Dashboards!Panel("sending-volume",
                       Dashboards!Each(<<"Send", "Delivery">>, "Sum", {}))
        /\ problems = Dashboards!Panel("delivery-problems",
                       Dashboards!Each(<<"Bounce", "Complaint", "Reject", "DeliveryDelay">>, "Sum", {}))
        /\ reputation = Dashboards!Panel("reputation",
             Dashboards!Each(<<"Reputation.BounceRate", "Reputation.ComplaintRate">>, "Average", {}))
        /\ events = Dashboards!Panel("observed-events",
             [i \in lines |-> Dashboards!Series(Dashboards!OptionalEvents[i], "Sum", {})])
  OBVIOUS
<1>2. ASSUME NEW p \in Dashboards!AccountPanels(names)
      PROVE  p \in {sending, problems, reputation} \/ (p = events /\ lines # {})
  <2>1. PICK E : E = IF lines # {} THEN {events} ELSE {}
    OBVIOUS
  <2>2. Dashboards!AccountPanels(names) = {sending, problems, reputation} \union E
    BY <1>1, <2>1, Zenon DEF Dashboards!AccountPanels
  <2>3. p \in {sending, problems, reputation} \/ p \in E
    BY <2>2, Zenon
  <2> HIDE DEF lines
  <2>4. p \in E => p = events /\ lines # {}
    BY <2>1
  <2> QED BY <2>3, <2>4, Zenon
<1>3. /\ sending.id = "sending-volume" /\ problems.id = "delivery-problems"
      /\ reputation.id = "reputation" /\ events.id = "observed-events"
  BY <1>1 DEF Dashboards!Panel
<1>4. Proper(sending) /\ Proper(problems) /\ Proper(reputation)
  <2>1. PICK s, d, r : /\ s = <<"Send", "Delivery">>
                       /\ d = <<"Bounce", "Complaint", "Reject", "DeliveryDelay">>
                       /\ r = <<"Reputation.BounceRate", "Reputation.ComplaintRate">>
    OBVIOUS
  <2>2. /\ DOMAIN s = 1 .. 2 /\ \A i, k \in 1 .. 2 : s[i] = s[k] => i = k
        /\ \A i \in 1 .. 2 : PanelOf(s[i]) = "sending-volume"
    BY <2>1 DEF PanelOf
  <2>3. DOMAIN d = 1 .. 4 /\ \A i, k \in 1 .. 4 : d[i] = d[k] => i = k
    BY <2>1
  <2>4. \A i \in 1 .. 4 : PanelOf(d[i]) = "delivery-problems"
    BY <2>1 DEF PanelOf
  <2>5. /\ DOMAIN r = 1 .. 2 /\ \A i, k \in 1 .. 2 : r[i] = r[k] => i = k
        /\ \A i \in 1 .. 2 : PanelOf(r[i]) = "reputation"
    BY <2>1 DEF PanelOf
  <2>6. OwnNames(s, "sending-volume")
    BY <2>2 DEF OwnNames
  <2>7. OwnNames(d, "delivery-problems")
    BY <2>3, <2>4 DEF OwnNames
  <2>8. OwnNames(r, "reputation")
    BY <2>5 DEF OwnNames
  <2> QED BY <1>1, <2>1, <2>6, <2>7, <2>8, ProperEach
<1>5. lines # {} => Proper(events)
  <2>1. PICK o : o = Dashboards!OptionalEvents
    OBVIOUS
  <2>2. DOMAIN o = 1 .. 4 /\ \A i, k \in 1 .. 4 : o[i] = o[k] => i = k
    BY <2>1 DEF Dashboards!OptionalEvents
  <2>3. \A i \in 1 .. 4 : PanelOf(o[i]) = "observed-events"
    BY <2>1 DEF Dashboards!OptionalEvents, PanelOf
  <2>4. PICK f : f = [i \in lines |-> Dashboards!Series(o[i], "Sum", {})]
    OBVIOUS
  <2>5. lines \subseteq 1 .. 4 /\ \A i \in lines : f[i].metric = o[i]
    BY <2>1, <2>2, <2>4 DEF Dashboards!Series
  <2> HIDE DEF lines
  <2>6. \A i \in lines : PanelOf(f[i].metric) = "observed-events"
    BY <2>3, <2>5
  <2>7. \A i, k \in lines : f[i] = f[k] => i = k
    BY <2>2, <2>5
  <2>10. lines # {} => OwnLines(f, lines, "observed-events")
    BY <2>6, <2>7 DEF OwnLines
  <2>8. lines # {} => Proper(Dashboards!Panel("observed-events", [i \in lines |-> f[i]]))
    BY <2>10, ProperLines
  <2>9. [i \in lines |-> f[i]] = [i \in lines |-> Dashboards!Series(Dashboards!OptionalEvents[i], "Sum", {})]
    BY <2>1, <2>4
  <2> QED BY <1>1, <2>8, <2>9
<1>6. \A p \in Dashboards!AccountPanels(names) : Proper(p)
  BY <1>2, <1>4, <1>5
<1>7. \A i \in DOMAIN events.queries : events.queries[i].metric \in names
  <2>1. PICK f : f = [i \in lines |-> Dashboards!Series(Dashboards!OptionalEvents[i], "Sum", {})]
    OBVIOUS
  <2>2. \A i \in lines : f[i].metric = Dashboards!OptionalEvents[i]
    BY <2>1 DEF Dashboards!Series
  <2>3. events.queries = f /\ DOMAIN f = lines
    BY <1>1, <2>1 DEF Dashboards!Panel
  <2> QED BY <2>2, <2>3
<1>8. ASSUME NEW p \in Dashboards!AccountPanels(names), NEW i \in DOMAIN p.queries,
             PanelOf(p.queries[i].metric) = "observed-events"
      PROVE  p.queries[i].metric \in names
  <2>1. p.id = "observed-events"
    BY <1>6, <1>8 DEF Proper
  <2>2. p = events
    BY <1>2, <1>3, <2>1
  <2> QED BY <1>7, <2>2
<1>9. \A p, q \in Dashboards!AccountPanels(names) : p.id = q.id => p = q
  BY <1>2, <1>3
<1> QED BY <1>6, <1>8, <1>9

\* The panels that are shown are those of the subject: of some operation, or of the
\* metrics that were found.
PanelsInv ==
  /\ subject \in Subject
  /\ observed # Dashboards!Pending /\ subject.kind = "account" =>
       observed \subseteq Dashboards!MetricNames(subject.series)
  /\ \/ board = {}
     \/ /\ subject.kind = "table"
        /\ \E op \in Dashboards!Operations : board = Dashboards!TablePanels(subject, op)
     \/ subject.kind = "queue" /\ board = Dashboards!QueuePanels(subject)
     \/ /\ subject.kind = "account"
        /\ \E names : /\ names \subseteq Dashboards!MetricNames(subject.series)
                      /\ board = Dashboards!AccountPanels(names)

\* Of such panels the dashboard is right.
LEMMA PanelsShow ==
  ASSUME PanelsInv
  PROVE  Dashboards!ReadOnce /\ Dashboards!LimitsBind /\ Dashboards!EventsWereSeen
<1>1. CASE board = {}
  BY <1>1 DEF Dashboards!ReadOnce, Dashboards!LimitsBind, Dashboards!EventsWereSeen,
              Dashboards!OnBoard
<1>2. CASE subject.kind = "table" /\ \E op \in Dashboards!Operations :
                                       board = Dashboards!TablePanels(subject, op)
  <2>1. PICK op : board = Dashboards!TablePanels(subject, op)
    BY <1>2
  <2>2. Len(subject.gsis) \in Nat
    BY <1>2, DashboardsAssumption DEF PanelsInv, DashboardsAssumption
  <2>3. /\ \A p \in board : Proper(p)
        /\ \A p, q \in board : p.id = q.id => p = q
        /\ \A p \in board : \A i \in DOMAIN p.queries : Binds(subject, p.queries[i])
        /\ \A k \in Dashboards!Scopes(subject) : \E p \in board : \E i \in DOMAIN p.queries :
             /\ p.queries[i].metric = "ConsumedReadCapacityUnits"
             /\ p.queries[i].dimensions = Dashboards!ScopeDimensions(k)
    BY <2>1, <2>2, TableIsProper
  <2>4. Dashboards!ReadOnce
    BY <2>3, ProperBoard
  <2>5. \A q \in Dashboards!Queries : Binds(subject, q)
    BY <2>3 DEF Dashboards!Queries, Dashboards!Lines
  <2>6. \A k \in Dashboards!Scopes(subject) : \E c \in Dashboards!Queries :
          /\ c.metric = "ConsumedReadCapacityUnits"
          /\ c.dimensions = Dashboards!ScopeDimensions(k)
    BY <2>3 DEF Dashboards!Queries, Dashboards!Lines
  <2>7. Dashboards!LimitsBind
    BY <2>5, <2>6 DEF Dashboards!LimitsBind, Binds
  <2>8. Dashboards!EventsWereSeen
    BY <1>2 DEF Dashboards!EventsWereSeen
  <2> QED BY <2>4, <2>7, <2>8
<1>3. CASE subject.kind = "queue" /\ board = Dashboards!QueuePanels(subject)
  <2>1. Dashboards!ReadOnce
    BY <1>3, QueueIsProper, ProperBoard
  <2>2. Dashboards!LimitsBind /\ Dashboards!EventsWereSeen
    BY <1>3 DEF Dashboards!LimitsBind, Dashboards!EventsWereSeen
  <2> QED BY <2>1, <2>2
<1>4. CASE /\ subject.kind = "account"
           /\ \E names : /\ names \subseteq Dashboards!MetricNames(subject.series)
                         /\ board = Dashboards!AccountPanels(names)
  <2>1. PICK names : /\ names \subseteq Dashboards!MetricNames(subject.series)
                     /\ board = Dashboards!AccountPanels(names)
    BY <1>4
  <2>2. /\ \A p \in board : Proper(p)
        /\ \A p, q \in board : p.id = q.id => p = q
        /\ \A p \in board : \A i \in DOMAIN p.queries :
             PanelOf(p.queries[i].metric) = "observed-events" => p.queries[i].metric \in names
    BY <2>1, AccountIsProper
  <2>3. Dashboards!ReadOnce
    BY <2>2, ProperBoard
  <2>4. Dashboards!LimitsBind
    BY <1>4 DEF Dashboards!LimitsBind
  <2>5. ASSUME NEW q \in Dashboards!Queries, q.metric \in Dashboards!Range(Dashboards!OptionalEvents)
        PROVE  [metric |-> q.metric, dimensions |-> {}] \in subject.series
    <3>1. PanelOf(q.metric) = "observed-events"
      <4>1. q.metric \in {"Open", "Click", "Subscription", "RenderingFailure"}
        BY <2>5 DEF Dashboards!Range, Dashboards!OptionalEvents
      <4> QED BY <4>1 DEF PanelOf
    <3>2. q.metric \in names
      BY <2>2, <2>5, <3>1 DEF Dashboards!Queries, Dashboards!Lines
    <3>3. PICK s \in subject.series : s.dimensions = {} /\ s.metric = q.metric
      BY <2>1, <3>2 DEF Dashboards!MetricNames
    <3>4. subject.series \subseteq [metric : STRING, dimensions : SUBSET STRING]
      BY <1>4, DashboardsAssumption DEF PanelsInv, DashboardsAssumption
    <3>5. s = [metric |-> q.metric, dimensions |-> {}]
      BY <3>3, <3>4
    <3> QED BY <3>3, <3>5
  <2>6. Dashboards!EventsWereSeen
    BY <2>5 DEF Dashboards!EventsWereSeen
  <2> QED BY <2>3, <2>4, <2>6
<1> QED BY <1>1, <1>2, <1>3, <1>4 DEF PanelsInv

\* The panels begin that way.
LEMMA PanelsInitial == Dashboards!PanelsInit => PanelsInv
BY DEF Dashboards!PanelsInit, PanelsInv

\* And stay so.
LEMMA PanelsStep == PanelsInv /\ [Dashboards!PanelsNext]_panelVars => PanelsInv'
<1> SUFFICES ASSUME PanelsInv, [Dashboards!PanelsNext]_panelVars PROVE PanelsInv'
  OBVIOUS
<1>1. CASE Dashboards!ResolveTarget
  BY <1>1 DEF Dashboards!ResolveTarget, PanelsInv
<1>2. ASSUME NEW op \in Dashboards!Operations, Dashboards!ResolveDashboard(op)
      PROVE  PanelsInv'
  <2>1. subject' = subject /\ observed' = observed /\ observed # Dashboards!Pending
    BY <1>2 DEF Dashboards!ResolveDashboard
  <2>2. subject.kind \in {"table", "queue", "account"}
    BY DashboardsAssumption DEF PanelsInv, DashboardsAssumption
  <2>3. /\ subject.kind = "table" => board' = Dashboards!TablePanels(subject, op)
        /\ subject.kind = "queue" => board' = Dashboards!QueuePanels(subject)
        /\ subject.kind = "account" => board' = Dashboards!AccountPanels(observed)
    BY <1>2 DEF Dashboards!ResolveDashboard
  <2>4. CASE subject.kind = "table"
    BY <2>1, <2>3, <2>4 DEF PanelsInv
  <2>5. CASE subject.kind = "queue"
    BY <2>1, <2>3, <2>5 DEF PanelsInv
  <2>6. CASE subject.kind = "account"
    BY <2>1, <2>3, <2>6 DEF PanelsInv
  <2> QED BY <2>2, <2>4, <2>5, <2>6
<1>3. CASE UNCHANGED panelVars
  BY <1>3 DEF panelVars, PanelsInv
<1> QED BY <1>1, <1>2, <1>3 DEF Dashboards!PanelsNext

-----------------------------------------------------------------------------
\* A set in some order: a sequence that has each of its elements.
LEMMA ListOfSet ==
  ASSUME NEW S, IsFiniteSet(S), NEW q \in Tree!SetToSeqs(S)
  PROVE  /\ q \in Seq(S) /\ \A x \in S : \E i \in DOMAIN q : q[i] = x
         /\ q = <<>> => S = {}
<1>1. \A U : Tree!Cardinality(U) = Cardinality(U)
  BY Zenon DEF Tree!Cardinality, Cardinality
<1>2. PICK n \in Nat : n = Cardinality(S)
  BY FS_CardinalityType
<1>3. q \in [1 .. n -> S] /\ \A i, j \in 1 .. n : i # j => q[i] # q[j]
  BY <1>1, <1>2 DEF Tree!SetToSeqs
<1>4. IsFiniteSet(1 .. n) /\ Cardinality(1 .. n) = n
  BY FS_Interval
<1>5. \A x \in S : \E i \in 1 .. n : q[i] = x
  <2>1. PICK D : D = 1 .. n
    OBVIOUS
  <2>2. q \in [D -> S] /\ Cardinality(D) = Cardinality(S)
    BY <1>2, <1>3, <1>4, <2>1
  <2>3. q \in Injection(D, S)
    BY <1>3, <2>1, <2>2 DEF Injection, IsInjective
  <2>4. q \in Surjection(D, S)
    BY <2>2, <2>3, FS_Injection
  <2> QED BY <2>1, <2>4 DEF Surjection
<1>6. q \in Seq(S) /\ DOMAIN q = 1 .. n
  BY <1>3
<1> QED BY <1>5, <1>6

\* What is made of each element of a finite set is finite.
LEMMA FiniteImage ==
  ASSUME NEW S, IsFiniteSet(S), NEW f, DOMAIN f = S
  PROVE  IsFiniteSet({f[x] : x \in S})
<1>1. PICK T : T = {f[x] : x \in S}
  OBVIOUS
<1>2. [x \in S |-> f[x]] \in Surjection(S, T)
  BY <1>1 DEF Surjection
<1> QED BY <1>1, <1>2, FS_Surjection

\* Of some places of a list with one key there is a last.
LEMMA LastPlace ==
  ASSUME NEW q, Len(q) \in Nat, DOMAIN q = 1 .. Len(q), NEW P \in SUBSET DOMAIN q, P # {}
  PROVE  \E i \in P : \A j \in P : j <= i
<1>1. P \in SUBSET Nat /\ \A x \in P : x <= Len(q)
  OBVIOUS
<1> QED BY <1>1, GreatestElement

\* The rows that are left of some places of a list: one of each key.
LEMMA LastChildren ==
  ASSUME NEW q, Len(q) \in Nat, DOMAIN q = 1 .. Len(q), NEW P \in SUBSET DOMAIN q
  PROVE  /\ DOMAIN Tree!LastOf(q, P, Tree!Child) = {Tree!Child(q[i]) : i \in P}
         /\ \A k \in DOMAIN Tree!LastOf(q, P, Tree!Child) :
              \E i \in P : /\ Tree!LastOf(q, P, Tree!Child)[k] = q[i]
                           /\ Tree!Child(q[i]) = k
<1>1. PICK final : final = [k \in {Tree!Child(q[i]) : i \in P} |->
        CHOOSE i \in P : Tree!Child(q[i]) = k /\ \A j \in P : Tree!Child(q[j]) = k => j <= i]
  OBVIOUS
<1>2. Tree!LastOf(q, P, Tree!Child) = [k \in {Tree!Child(q[i]) : i \in P} |-> q[final[k]]]
  BY <1>1 DEF Tree!LastOf
<1>3. ASSUME NEW k \in {Tree!Child(q[i]) : i \in P}
      PROVE  final[k] \in P /\ Tree!Child(q[final[k]]) = k
  <2>1. PICK K : K = {i \in P : Tree!Child(q[i]) = k}
    OBVIOUS
  <2>2. K \in SUBSET DOMAIN q /\ K # {}
    BY <1>3, <2>1
  <2>3. \E i \in K : \A j \in K : j <= i
    BY <2>2, LastPlace
  <2>4. \E i \in P : Tree!Child(q[i]) = k /\ \A j \in P : Tree!Child(q[j]) = k => j <= i
    BY <2>1, <2>3
  <2> QED BY <1>1, <2>4
<1> QED BY <1>2, <1>3
\* And of each parent.
LEMMA LastParents ==
  ASSUME NEW q, Len(q) \in Nat, DOMAIN q = 1 .. Len(q), NEW P \in SUBSET DOMAIN q
  PROVE  /\ DOMAIN Tree!LastOf(q, P, Tree!Parent) = {Tree!Parent(q[i]) : i \in P}
         /\ \A k \in DOMAIN Tree!LastOf(q, P, Tree!Parent) :
              \E i \in P : /\ Tree!LastOf(q, P, Tree!Parent)[k] = q[i]
                           /\ Tree!Parent(q[i]) = k
<1>1. PICK final : final = [k \in {Tree!Parent(q[i]) : i \in P} |->
        CHOOSE i \in P : Tree!Parent(q[i]) = k /\ \A j \in P : Tree!Parent(q[j]) = k => j <= i]
  OBVIOUS
<1>2. Tree!LastOf(q, P, Tree!Parent) = [k \in {Tree!Parent(q[i]) : i \in P} |-> q[final[k]]]
  BY <1>1 DEF Tree!LastOf
<1>3. ASSUME NEW k \in {Tree!Parent(q[i]) : i \in P}
      PROVE  final[k] \in P /\ Tree!Parent(q[final[k]]) = k
  <2>1. PICK K : K = {i \in P : Tree!Parent(q[i]) = k}
    OBVIOUS
  <2>2. K \in SUBSET DOMAIN q /\ K # {}
    BY <1>3, <2>1
  <2>3. \E i \in K : \A j \in K : j <= i
    BY <2>2, LastPlace
  <2>4. \E i \in P : Tree!Parent(q[i]) = k /\ \A j \in P : Tree!Parent(q[j]) = k => j <= i
    BY <2>1, <2>3
  <2> QED BY <1>1, <2>4
<1> QED BY <1>2, <1>3

-----------------------------------------------------------------------------
\* The table a row of the answer names as the parent.
RowTable(f) ==
  IF driver = "postgres"
  THEN IF f.rschema = SearchNames[1] THEN QuoteIdent(f.rtable) ELSE Qualified(f.rschema, f.rtable)
  ELSE f.rtable

\* The vendor's query tells the constraint f.
Tells(f) ==
  /\ driver \in {"mysql", "sqlserver", "postgres"} => Tree!Folded(f.schema)
  /\ driver = "oracle" => f.schema = default
  /\ driver = "postgres" => Len(f.cols) = 1
  /\ driver = "sqlite" => f.table # f.rtable

\* Its row of a pair of columns.
Row(f, i) ==
  [name |-> IF driver = "sqlite" THEN 0 ELSE f.name, table |-> f.table, col |-> f.cols[i],
   rtable |-> RowTable(f), rcol |-> f.rcols[i]]

\* The answer has a row of each pair of columns of those constraints.
LEMMA RowsAsked ==
  ASSUME driver \in Tree!Engines
  PROVE  Tree!ForeignRows = UNION {{Row(f, i) : i \in DOMAIN f.cols} : f \in {g \in fks : Tells(g)}}
<1>1. ASSUME NEW f PROVE Tree!Pairs(f, RowTable(f)) = {Row(f, i) : i \in DOMAIN f.cols}
  BY DEF Tree!Pairs, Row
<1>2. CASE driver = "mysql" \/ driver = "sqlserver"
  <2>1. /\ Tree!ForeignRows = Tree!MySqlRows
        /\ {g \in fks : Tells(g)} = {g \in fks : Tree!Folded(g.schema)}
        /\ \A f : RowTable(f) = f.rtable
    BY <1>2 DEF Tree!ForeignRows, Tells, RowTable
  <2> QED BY <1>1, <2>1 DEF Tree!MySqlRows
<1>3. CASE driver = "oracle"
  <2>1. /\ Tree!ForeignRows = Tree!OracleRows
        /\ {g \in fks : Tells(g)} = {g \in fks : g.schema = default}
        /\ \A f : RowTable(f) = f.rtable
    BY <1>3 DEF Tree!ForeignRows, Tells, RowTable
  <2> QED BY <1>1, <2>1 DEF Tree!OracleRows
<1>4. CASE driver = "sqlite"
  <2>1. /\ Tree!ForeignRows = Tree!SqliteRows
        /\ {g \in fks : Tells(g)} = {g \in fks : g.table # g.rtable}
        /\ \A f : RowTable(f) = f.rtable
    BY <1>4 DEF Tree!ForeignRows, Tells, RowTable
  <2> QED BY <1>1, <2>1 DEF Tree!SqliteRows
<1>5. CASE driver = "postgres"
  <2>1. /\ Tree!ForeignRows = Tree!PostgresRows
        /\ {g \in fks : Tells(g)} = {g \in fks : Tree!Folded(g.schema) /\ Len(g.cols) = 1}
        /\ \A f : RowTable(f) = IF f.rschema = SearchNames[1] THEN QuoteIdent(f.rtable)
                                ELSE Qualified(f.rschema, f.rtable)
    BY <1>5 DEF Tree!ForeignRows, Tells, RowTable
  <2> QED BY <1>1, <2>1 DEF Tree!PostgresRows
<1> QED BY <1>2, <1>3, <1>4, <1>5 DEF Tree!Engines

\* A row is one of a constraint that is asked for, and each has its rows.
LEMMA RowOfConstraint ==
  ASSUME driver \in Tree!Engines
  PROVE  \A r : r \in Tree!ForeignRows <=>
           \E f \in fks : Tells(f) /\ \E i \in DOMAIN f.cols : r = Row(f, i)
BY RowsAsked

\* There are finitely many.
LEMMA RowsAreFinite ==
  ASSUME driver \in Tree!Engines, fks \subseteq ForeignKeys
  PROVE  IsFiniteSet(Tree!ForeignRows)
<1>1. PICK G : G = {g \in fks : Tells(g)}
  OBVIOUS
<1>2. IsFiniteSet(G)
  <2>1. G \in SUBSET ForeignKeys /\ IsFiniteSet(ForeignKeys)
    BY <1>1, TreeAssumption DEF TreeAssumption
  <2> QED BY <2>1, FS_Subset
<1>3. PICK R : R = [f \in G |-> {Row(f, i) : i \in DOMAIN f.cols}]
  OBVIOUS
<1>4. ASSUME NEW f \in G PROVE IsFiniteSet(R[f])
  <2>1. f \in ForeignKeys
    BY <1>1
  <2>2. f.cols \in Seq(Columns)
    BY <2>1, TreeAssumption DEF TreeAssumption
  <2>3. PICK n \in Nat : DOMAIN f.cols = 1 .. n
    BY <2>2
  <2>4. IsFiniteSet(1 .. n)
    BY <2>3, FS_Interval
  <2>5. PICK h : h = [i \in 1 .. n |-> Row(f, i)]
    OBVIOUS
  <2>6. DOMAIN h = 1 .. n /\ {h[i] : i \in 1 .. n} = {Row(f, i) : i \in 1 .. n}
    BY <2>5
  <2>7. IsFiniteSet({h[i] : i \in 1 .. n})
    BY <2>4, <2>6, FiniteImage
  <2> QED BY <1>3, <2>3, <2>6, <2>7
<1>9. DOMAIN R = G
  BY <1>3
<1>5. IsFiniteSet({R[f] : f \in G})
  BY <1>2, <1>9, FiniteImage
<1>6. \A T \in {R[f] : f \in G} : IsFiniteSet(T)
  BY <1>4
<1>7. IsFiniteSet(UNION {R[f] : f \in G})
  BY <1>5, <1>6, FS_UNION
<1>8. Tree!ForeignRows = UNION {R[f] : f \in G}
  BY <1>1, <1>3, RowsAsked
<1> QED BY <1>7, <1>8

\* Every row of the answer has a place in the list that is read.
LEMMA RowsAreListed ==
  ASSUME driver \in Tree!Engines, fks \subseteq ForeignKeys, NEW q \in Tree!Orders(Tree!ForeignRows)
  PROVE  /\ Len(q) \in Nat /\ DOMAIN q = 1 .. Len(q)
         /\ \A i \in DOMAIN q : q[i] \in Tree!ForeignRows
         /\ \A r \in Tree!ForeignRows : \E i \in DOMAIN q : q[i] = r
<1>1. PICK S : S = Tree!ForeignRows
  OBVIOUS
<1>2. IsFiniteSet(S) /\ q \in Tree!SetToSeqs(S)
  BY <1>1, RowsAreFinite DEF Tree!Orders
<1>3. q \in Seq(S) /\ \A x \in S : \E i \in DOMAIN q : q[i] = x
  BY <1>2, ListOfSet
<1> QED BY <1>1, <1>3

-----------------------------------------------------------------------------
\* The catalog has what its tables allow, and the history all of it.
CatalogOk ==
  /\ driver \in Tree!Engines
  /\ tables \subseteq Tree!Existing \X Tables
  /\ fks \subseteq ForeignKeys \intersect everFk
  /\ \A f \in fks : Tree!On(f) \subseteq tables
  /\ uks \subseteq UniqueKeys \intersect everUk
  /\ \A u \in uks : <<u.schema, u.table>> \in tables
  /\ ddl \in Nat /\ (ddl = 0 => tables = Tree!Existing \X Tables)

\* The tables of the schema s that the filter accepts.
Accepts(s) == {<<s, Tree!Ident(t)>> : t \in {u \in Tables : u \in filter.tables}}

\* The tree has tables by the name the driver gives them, each with all its columns if
\* nobody changed the schema, and those of the default schema, which is read first.
TablesOk ==
  /\ step \in {"schemas", "tables", "columns", "foreign", "unique", "done", "failed"}
  /\ cached \in BOOLEAN /\ (cached <=> step = "done")
  /\ rest \in Seq(Tree!Existing)
  /\ default = Tree!None \/ default \in Tree!Existing
  /\ step = "schemas" => named = {} /\ columns = {} /\ default = Tree!None
  /\ step = "columns" => driver # "sqlite" /\ rest # <<>>
  /\ step \in {"foreign", "unique"} => default # Tree!None
  /\ driver = "sqlite" /\ step \notin {"schemas", "failed"} => default = SearchNames[1]
  /\ driver = "sqlite" /\ step = "tables" => rest # <<>> /\ rest[1] = default
  /\ columns \subseteq named \X Columns
  /\ \A x \in named : \E s \in Tree!Existing, t \in Tables : x = <<s, Tree!Ident(t)>>

\* What is read without a change in between.
ReadOk ==
  ddl = 0 /\ step \notin {"schemas", "failed"} =>
    /\ driver = "sqlite" => \A x \in named \X Columns : x[1][2] # x[2] => x \in columns
    /\ driver # "sqlite" => \A t \in named : \/ {t} \X Columns \subseteq columns
                                             \/ step = "columns" /\ t \in Accepts(Head(rest))
    /\ default # Tree!None => \/ Accepts(default) \subseteq named
                              \/ step = "tables" /\ rest # <<>> /\ rest[1] = default

\* A constraint that the catalog had tells the row r.
Told(r) ==
  \E f \in everFk : /\ {f.schema, f.rschema} \subseteq Tree!Existing
                    /\ {f.table, f.rtable} \subseteq Tables
                    /\ Tells(f) /\ \E i \in DOMAIN f.cols : r = Row(f, i)

\* Both maps have told rows of known columns, and lose none but to another.
KeysOk ==
  /\ step \in {"schemas", "tables", "columns", "foreign"} =>
       DOMAIN to = {} /\ DOMAIN from = {} /\ unique = {}
  /\ \A k \in DOMAIN to : /\ Tree!Child(to[k]) = k /\ Tree!Referring(to[k]) /\ Told(to[k])
                          /\ Tree!Referred(to[k]) => Tree!Parent(to[k]) \in DOMAIN from
  /\ \A k \in DOMAIN from : Tree!Parent(from[k]) = k /\ Tree!Referred(from[k]) /\ Told(from[k])
  /\ ddl = 0 /\ step \in {"unique", "done"} /\ default # Tree!None =>
       /\ \A k \in DOMAIN to : to[k] \in Tree!ForeignRows
       /\ \A k \in DOMAIN from : from[k] \in Tree!ForeignRows
       /\ \A r \in Tree!ForeignRows :
            /\ Tree!Referring(r) => Tree!Child(r) \in DOMAIN to
            /\ Tree!Referred(r) => Tree!Parent(r) \in DOMAIN from

TreeInv == CatalogOk /\ TablesOk /\ ReadOk /\ KeysOk /\ Tree!KeysAreOwn

-----------------------------------------------------------------------------
\* A table or a column of the tree is there by the name the driver gave the table.
LEMMA TreeNames ==
  ASSUME TablesOk
  PROVE  /\ \A t \in Tree!InDefault : \E u \in Tables : t = Tree!Ident(u)
         /\ \A r : Tree!Referring(r) => r.table \in Tree!InDefault
         /\ \A r : Tree!Referred(r) => r.rtable \in Tree!InDefault
<1>1. ASSUME NEW t \in Tree!InDefault PROVE \E u \in Tables : t = Tree!Ident(u)
  <2>1. PICK x \in named : x[2] = t
    BY <1>1 DEF Tree!InDefault
  <2>2. PICK s \in Tree!Existing, u \in Tables : x = <<s, Tree!Ident(u)>>
    BY DEF TablesOk
  <2> QED BY <2>1, <2>2
<1>2. ASSUME NEW t, NEW c, Tree!InTree(t, c) PROVE t \in Tree!InDefault
  <2>1. <<default, t>> \in named
    BY <1>2 DEF TablesOk, Tree!InTree
  <2>2. <<default, t>>[1] = default /\ <<default, t>>[2] = t
    OBVIOUS
  <2> QED BY <2>1, <2>2 DEF Tree!InDefault
<1> QED BY <1>1, <1>2 DEF Tree!Referring, Tree!Referred

\* A told row between tables of the tree is a foreign key that there was.
LEMMA ToldIsTrue ==
  ASSUME CatalogOk, TablesOk, step = "done", NEW r, Told(r),
         r.table \in Tree!InDefault, r.rtable \in Tree!InDefault
  PROVE  \/ \E f \in everFk : ~Tree!Ambiguous(f) /\ Tree!Says(r, f)
         \/ \E f \in everFk : /\ Tree!Ambiguous(f) /\ Tree!Folded(f.schema) /\ Tree!Says(r, f)
                              /\ driver # "oracle" \/ f.schema = default
                              /\ driver # "postgres" \/ f.rschema = SearchNames[1]
<1>1. PICK f \in everFk : /\ {f.schema, f.rschema} \subseteq Tree!Existing
                          /\ {f.table, f.rtable} \subseteq Tables
                          /\ Tells(f) /\ \E i \in DOMAIN f.cols : r = Row(f, i)
  BY DEF Told
<1>2. PICK i \in DOMAIN f.cols : r = Row(f, i)
  BY <1>1
<1>3. r.table = f.table /\ r.col = f.cols[i] /\ r.rtable = RowTable(f) /\ r.rcol = f.rcols[i]
  BY <1>2 DEF Row
<1>4. driver \in {"mysql", "sqlserver", "oracle", "postgres", "sqlite"}
  BY DEF CatalogOk, Tree!Engines
<1>5. CASE driver # "postgres"
  <2>1. \A t : Tree!Ident(t) = t
    BY <1>5 DEF Tree!Ident
  <2>2. Tree!Says(r, f)
    BY <1>3, <1>5, <2>1 DEF Tree!Says, RowTable
  <2>3. driver = "sqlite" => ~Tree!Ambiguous(f)
    BY <1>1 DEF TablesOk, Tree!Existing, Tree!Ambiguous
  <2>4. driver # "sqlite" => Tree!Folded(f.schema) /\ (driver # "oracle" \/ f.schema = default)
    BY <1>1, <1>4, <1>5 DEF Tells, Tree!Folded
  <2> QED BY <1>5, <2>2, <2>3, <2>4
<1>6. CASE driver = "postgres"
  <2>1. \A t : Tree!Ident(t) = QuoteIdent(t)
    BY <1>6 DEF Tree!Ident
  <2>2. PICK t \in Tables, u \in Tables : r.table = QuoteIdent(t) /\ r.rtable = QuoteIdent(u)
    BY <2>1, TreeNames
  <2>3. QuoteIdent(f.table) = f.table
    BY <1>1, <1>3, <2>2, TreeAssumption DEF TreeAssumption
  <2>4. f.rschema = SearchNames[1]
    <3>1. f.rschema \in Schemas /\ f.rtable \in Tables
      BY <1>1, <1>6 DEF Tree!Existing
    <3>2. Qualified(f.rschema, f.rtable) # QuoteIdent(u)
      BY <2>2, <3>1, TreeAssumption DEF TreeAssumption
    <3> QED BY <1>3, <1>6, <2>2, <3>2 DEF RowTable
  <2>5. r.rtable = QuoteIdent(f.rtable)
    BY <1>3, <1>6, <2>4 DEF RowTable
  <2>6. Tree!Says(r, f)
    BY <1>3, <2>1, <2>3, <2>5 DEF Tree!Says
  <2>7. Tree!Folded(f.schema)
    BY <1>1, <1>6 DEF Tells
  <2> QED BY <1>6, <2>4, <2>6, <2>7
<1> QED BY <1>5, <1>6

\* What a diagram of the whole schema has.
LEMMA WholeSchemaIs ==
  ASSUME TablesOk, KeysOk, NEW r \in Tree!WholeSchema
  PROVE  /\ Told(r) /\ r.table \in Tree!InDefault /\ r.rtable \in Tree!InDefault
         /\ Tree!Parent(r) \in DOMAIN from
<1>1. \/ \E k \in DOMAIN to : r = to[k] /\ Tree!Referred(to[k])
      \/ \E k \in DOMAIN from : r = from[k] /\ Tree!Referring(from[k])
  BY DEF Tree!WholeSchema, Tree!Relations
<1>2. ASSUME NEW k \in DOMAIN to, r = to[k], Tree!Referred(to[k])
      PROVE  Told(r) /\ Tree!Referring(r) /\ Tree!Referred(r) /\ Tree!Parent(r) \in DOMAIN from
  BY <1>2 DEF KeysOk
<1>3. ASSUME NEW k \in DOMAIN from, r = from[k], Tree!Referring(from[k])
      PROVE  Told(r) /\ Tree!Referring(r) /\ Tree!Referred(r) /\ Tree!Parent(r) \in DOMAIN from
  BY <1>3 DEF KeysOk
<1> QED BY <1>1, <1>2, <1>3, TreeNames

\* Such a diagram shows foreign keys that there were.
LEMMA RelationsShown ==
  ASSUME CatalogOk, TablesOk, KeysOk
  PROVE  Tree!RelationsAreTrue
<1> SUFFICES ASSUME step = "done", NEW r \in Tree!WholeSchema
             PROVE  \/ \E f \in everFk : ~Tree!Ambiguous(f) /\ Tree!Says(r, f)
                    \/ \E f \in everFk : /\ Tree!Ambiguous(f) /\ Tree!Folded(f.schema) /\ Tree!Says(r, f)
                                         /\ driver # "oracle" \/ f.schema = default
                                         /\ driver # "postgres" \/ f.rschema = SearchNames[1]
  BY Zenon DEF Tree!RelationsAreTrue
<1> QED BY WholeSchemaIs, ToldIsTrue

\* The diagram around a table is a part of it.
LEMMA AroundShown ==
  ASSUME TablesOk, KeysOk
  PROVE  Tree!AroundIsPart
<1> SUFFICES ASSUME step = "done", NEW t \in Tree!InDefault
             PROVE  /\ Tree!Around(t) \subseteq Tree!WholeSchema
                    /\ \A r \in Tree!WholeSchema : r.rtable = t =>
                         (\E q \in Tree!Around(t) : Tree!Parent(q) = Tree!Parent(r))
                           \/ ~Tree!Referring(from[Tree!Parent(r)])
                    /\ \A r \in Tree!Around(t) : {r.table, r.rtable} \subseteq Tree!DefinedFor(t)
  BY Zenon DEF Tree!AroundIsPart
<1>1. ASSUME NEW r \in Tree!Around(t)
      PROVE  \/ \E k \in DOMAIN to : r = to[k] /\ k[1] = t /\ Tree!Referred(to[k])
             \/ \E k \in DOMAIN from : r = from[k] /\ k[1] = t /\ Tree!Referring(from[k])
  BY <1>1 DEF Tree!Around
<1>2. ASSUME NEW k \in DOMAIN to
      PROVE  to[k].table = k[1]
  <2>1. k = <<to[k].table, to[k].col>>
    BY DEF KeysOk, Tree!Child
  <2> QED BY <2>1
<1>3. ASSUME NEW k \in DOMAIN from
      PROVE  from[k].rtable = k[1]
  <2>1. k = <<from[k].rtable, from[k].rcol>>
    BY DEF KeysOk, Tree!Parent
  <2> QED BY <2>1
<1>4. ASSUME NEW r \in Tree!Around(t)
      PROVE  r \in Tree!WholeSchema /\ {r.table, r.rtable} \subseteq Tree!DefinedFor(t)
  <2>1. ASSUME NEW k \in DOMAIN to, r = to[k], k[1] = t, Tree!Referred(to[k])
        PROVE  r \in Tree!WholeSchema /\ {r.table, r.rtable} \subseteq Tree!DefinedFor(t)
    <3>1. r.rtable \in Tree!InDefault /\ r.table = t
      BY <1>2, <2>1, TreeNames
    <3>2. r \in Tree!WholeSchema
      BY <2>1, <3>1 DEF Tree!WholeSchema, Tree!Relations
    <3>3. {r.table, r.rtable} \subseteq Tree!DefinedFor(t)
      BY <2>1, <3>1 DEF Tree!DefinedFor
    <3> QED BY <3>2, <3>3
  <2>2. ASSUME NEW k \in DOMAIN from, r = from[k], k[1] = t, Tree!Referring(from[k])
        PROVE  r \in Tree!WholeSchema /\ {r.table, r.rtable} \subseteq Tree!DefinedFor(t)
    <3>1. r.table \in Tree!InDefault /\ r.rtable = t
      BY <1>3, <2>2, TreeNames
    <3>2. r \in Tree!WholeSchema
      BY <2>2, <3>1 DEF Tree!WholeSchema, Tree!Relations
    <3>3. {r.table, r.rtable} \subseteq Tree!DefinedFor(t)
      BY <2>2, <3>1 DEF Tree!DefinedFor
    <3> QED BY <3>2, <3>3
  <2> QED BY <1>1, <2>1, <2>2
<1>5. ASSUME NEW r \in Tree!WholeSchema, r.rtable = t, Tree!Referring(from[Tree!Parent(r)])
      PROVE  \E q \in Tree!Around(t) : Tree!Parent(q) = Tree!Parent(r)
  <2>1. PICK k \in DOMAIN from : k = Tree!Parent(r)
    BY WholeSchemaIs
  <2>2. Tree!Parent(from[k]) = k
    BY DEF KeysOk
  <2>3. k[1] = t
    BY <1>5, <2>1 DEF Tree!Parent
  <2>4. from[k] \in Tree!Around(t)
    BY <1>5, <2>1, <2>3 DEF Tree!Around
  <2> QED BY <2>1, <2>2, <2>4
<1> QED BY <1>4, <1>5

\* With the keys of a schema nobody changes, the diagram has them all, but for those it
\* may leave out.
LEMMA EveryShown ==
  ASSUME CatalogOk, TablesOk, ReadOk, KeysOk
  PROVE  Tree!EveryRelation
<1> SUFFICES ASSUME step = "done", ddl = 0, NEW f \in fks, ~Tree!Ambiguous(f) \/ driver = "sqlite",
                    NEW i \in DOMAIN f.cols, {f.table, f.rtable} \subseteq filter.tables,
                    ~Tree!Untold(f, i), ~Tree!Displaced(f, i)
             PROVE  \E r \in Tree!WholeSchema :
                      Tree!Says(r, f) /\ r.col = f.cols[i] /\ r.rcol = f.rcols[i]
  BY Zenon DEF Tree!EveryRelation
<1>1. /\ {f.schema, f.rschema} \subseteq Tree!Existing /\ {f.table, f.rtable} \subseteq Tables
      /\ f.cols[i] \in Columns /\ f.rcols[i] \in Columns
  <2>1. Tree!On(f) \subseteq Tree!Existing \X Tables /\ f \in ForeignKeys
    BY DEF CatalogOk
  <2>2. f.cols \in Seq(Columns) /\ f.rcols \in [DOMAIN f.cols -> Columns]
    BY <2>1, TreeAssumption DEF TreeAssumption
  <2>3. {f.schema, f.rschema} \subseteq Tree!Existing /\ {f.table, f.rtable} \subseteq Tables
    BY <2>1 DEF Tree!On
  <2> QED BY <2>2, <2>3
<1>2. f.schema = default /\ f.rschema = default /\ default # Tree!None
  <2>1. default # Tree!None
    <3>1. \A s \in Tree!Existing : s # Tree!None
      BY TreeAssumption DEF Tree!Existing, Tree!None, TreeAssumption
    <3>2. driver = "sqlite" => default = SearchNames[1] /\ f.schema = SearchNames[1]
      BY <1>1 DEF TablesOk, Tree!Existing
    <3>3. driver # "sqlite" => default = f.schema
      BY DEF Tree!Ambiguous
    <3> QED BY <1>1, <3>1, <3>2, <3>3
  <2>2. driver = "sqlite" => f.schema = default /\ f.rschema = default
    BY <1>1 DEF TablesOk, Tree!Existing
  <2>3. driver # "sqlite" => f.schema = default /\ f.rschema = default
    BY DEF Tree!Ambiguous
  <2> QED BY <2>1, <2>2, <2>3
<1>3. /\ driver = "postgres" => Len(f.cols) <= 1 /\ QuoteIdent(f.table) = f.table /\ default = SearchNames[1]
      /\ driver = "sqlite" => f.table # f.rtable /\ f.cols[i] # f.table /\ f.rcols[i] # f.rtable
  <2>1. Len(f.cols) \in Nat
    BY TreeAssumption DEF TreeAssumption, CatalogOk
  <2> QED BY <2>1 DEF Tree!Untold
<1>4. Tree!Ident(f.table) = f.table
  BY <1>3 DEF Tree!Ident
<1>5. PICK r : r = Row(f, i)
  OBVIOUS
<1>6. r.table = f.table /\ r.col = f.cols[i] /\ r.rtable = Tree!Ident(f.rtable) /\ r.rcol = f.rcols[i]
  <2>1. RowTable(f) = Tree!Ident(f.rtable)
    BY <1>2, <1>3 DEF RowTable, Tree!Ident
  <2> QED BY <1>5, <2>1 DEF Row
<1>7. r \in Tree!ForeignRows
  <2>1. driver = "postgres" => Len(f.cols) = 1
    <3>1. f.cols \in Seq(Columns)
      BY TreeAssumption DEF TreeAssumption, CatalogOk
    <3>2. PICK n \in Nat : n = Len(f.cols) /\ i \in 1 .. n
      BY <3>1
    <3>3. driver = "postgres" => n <= 1
      BY <1>3, <3>2
    <3>4. 1 <= n
      BY <3>2
    <3>5. driver = "postgres" => n = 1
      BY <3>3, <3>4
    <3> QED BY <3>2, <3>5
  <2>2. Tells(f)
    BY <1>2, <1>3, <2>1 DEF Tells, Tree!Folded
  <2> QED BY <1>5, <2>2, RowOfConstraint DEF CatalogOk
<1>8. Accepts(default) \subseteq named
  BY <1>2 DEF ReadOk
<1>9. ASSUME NEW t \in {f.table, f.rtable}
      PROVE  <<default, Tree!Ident(t)>> \in named /\ Tree!Ident(t) \in Tree!InDefault
  <2>1. <<default, Tree!Ident(t)>> \in Accepts(default)
    BY <1>1 DEF Accepts
  <2>2. PICK x : x = <<default, Tree!Ident(t)>>
    OBVIOUS
  <2>3. x \in named /\ x[1] = default /\ x[2] = Tree!Ident(t)
    BY <1>8, <2>1, <2>2
  <2> QED BY <2>2, <2>3 DEF Tree!InDefault
<1>10. Tree!Referring(r) /\ Tree!Referred(r)
  <2>1. ASSUME NEW t, NEW c \in Columns, <<default, t>> \in named, driver = "sqlite" => c # t
        PROVE  Tree!InTree(t, c)
    <3>1. CASE driver = "sqlite"
      <4>1. PICK x : x = <<<<default, t>>, c>>
        OBVIOUS
      <4>2. x \in named \X Columns /\ x[1][2] # x[2]
        BY <2>1, <3>1, <4>1
      <4>3. x \in columns
        BY <3>1, <4>2 DEF ReadOk
      <4> QED BY <4>1, <4>3 DEF Tree!InTree
    <3>2. CASE driver # "sqlite"
      <4>1. {<<default, t>>} \X Columns \subseteq columns
        BY <2>1, <3>2 DEF ReadOk
      <4> QED BY <4>1 DEF Tree!InTree
    <3> QED BY <3>1, <3>2
  <2>2. driver = "sqlite" => Tree!Ident(f.rtable) = f.rtable
    BY DEF Tree!Ident
  <2>3. Tree!InTree(r.table, r.col)
    BY <1>1, <1>3, <1>4, <1>6, <1>9, <2>1
  <2>4. Tree!InTree(r.rtable, r.rcol)
    BY <1>1, <1>3, <1>6, <1>9, <2>1, <2>2
  <2> QED BY <2>3, <2>4 DEF Tree!Referring, Tree!Referred
<1>11. /\ Tree!Child(r) \in DOMAIN to /\ Tree!Parent(r) \in DOMAIN from
       /\ to[Tree!Child(r)] \in Tree!ForeignRows /\ from[Tree!Parent(r)] \in Tree!ForeignRows
       /\ Tree!Child(to[Tree!Child(r)]) = Tree!Child(r)
       /\ Tree!Parent(from[Tree!Parent(r)]) = Tree!Parent(r)
  BY <1>2, <1>7, <1>10 DEF KeysOk
<1>12. ASSUME NEW q \in Tree!ForeignRows,
              Tree!Says(q, f), q.col = f.cols[i], q.rcol = f.rcols[i]
       PROVE  /\ q.table = r.table /\ q.rtable = r.rtable
              /\ q.table \in Tree!InDefault /\ q.rtable \in Tree!InDefault
              /\ Tree!Referring(q) /\ Tree!Referred(q)
  <2>1. q.table = r.table /\ q.rtable = r.rtable
    BY <1>4, <1>6, <1>12 DEF Tree!Says
  <2>2. q.col = r.col /\ q.rcol = r.rcol
    BY <1>6, <1>12
  <2>3. q.table \in Tree!InDefault /\ q.rtable \in Tree!InDefault
    BY <1>4, <1>6, <1>9, <2>1
  <2> QED BY <1>10, <2>1, <2>2, <2>3 DEF Tree!Referring, Tree!Referred
<1>13. CASE \A q \in Tree!ForeignRows :
                q.table = f.table /\ q.col = f.cols[i] =>
                  Tree!Says(q, f) /\ q.col = f.cols[i] /\ q.rcol = f.rcols[i]
  <2>1. PICK k, q : k \in DOMAIN to /\ k = Tree!Child(r) /\ q = to[k]
    BY <1>11
  <2>2. q \in Tree!ForeignRows /\ q.table = f.table /\ q.col = f.cols[i] /\ k[1] = f.table
    BY <1>6, <1>11, <2>1 DEF Tree!Child
  <2>3. Tree!Says(q, f) /\ q.col = f.cols[i] /\ q.rcol = f.rcols[i]
    BY <1>13, <2>2
  <2>4. q.table \in Tree!InDefault /\ q.rtable \in Tree!InDefault /\ Tree!Referred(q)
    BY <1>12, <2>2, <2>3
  <2>5. q \in Tree!WholeSchema
    BY <2>1, <2>2, <2>4 DEF Tree!WholeSchema, Tree!Relations
  <2> QED BY <2>3, <2>5
<1>14. CASE \A q \in Tree!ForeignRows :
                q.rtable = Tree!Ident(f.rtable) /\ q.rcol = f.rcols[i] =>
                  Tree!Says(q, f) /\ q.col = f.cols[i] /\ q.rcol = f.rcols[i]
  <2>1. PICK k, q : k \in DOMAIN from /\ k = Tree!Parent(r) /\ q = from[k]
    BY <1>11
  <2>2. /\ q \in Tree!ForeignRows /\ q.rtable = Tree!Ident(f.rtable) /\ q.rcol = f.rcols[i]
        /\ k[1] = q.rtable
    BY <1>6, <1>11, <2>1 DEF Tree!Parent
  <2>3. Tree!Says(q, f) /\ q.col = f.cols[i] /\ q.rcol = f.rcols[i]
    BY <1>14, <2>2
  <2>4. q.table \in Tree!InDefault /\ q.rtable \in Tree!InDefault /\ Tree!Referring(q)
    BY <1>12, <2>2, <2>3
  <2>5. q \in Tree!WholeSchema
    BY <2>1, <2>2, <2>4 DEF Tree!WholeSchema, Tree!Relations
  <2> QED BY <2>3, <2>5
<1> QED BY <1>13, <1>14 DEF Tree!Displaced

\* What the tree and its diagrams show is right.
LEMMA TreeShows ==
  ASSUME TreeInv
  PROVE  /\ Tree!RelationsAreTrue /\ Tree!EveryRelation /\ Tree!AroundIsPart
         /\ Tree!KeysAreOwn /\ Tree!TreeIsWhole
<1>1. CatalogOk /\ TablesOk /\ ReadOk /\ KeysOk /\ Tree!KeysAreOwn
  BY DEF TreeInv
<1>2. Tree!TreeIsWhole
  <2>1. (cached <=> step = "done") /\ \A x \in columns : x[1] \in named
    BY <1>1 DEF TablesOk
  <2>2. step = "done" /\ ddl = 0 /\ driver # "sqlite" =>
          \A t \in named : {t} \X Columns \subseteq columns
    BY <1>1 DEF ReadOk
  <2> QED BY <2>1, <2>2 DEF Tree!TreeIsWhole
<1> QED BY <1>1, <1>2, RelationsShown, EveryShown, AroundShown

-----------------------------------------------------------------------------
-----------------------------------------------------------------------------
\* The tree begins empty, before a catalog of what there may be.
LEMMA TreeInitial == Tree!Init => TreeInv
<1> SUFFICES ASSUME Tree!Init PROVE TreeInv
  OBVIOUS
<1>1. CatalogOk
  BY DEF Tree!Init, CatalogOk
<1>2. TablesOk
  <2>1. /\ step = "schemas" /\ default = Tree!None /\ named = {} /\ columns = {} /\ cached = FALSE
        /\ rest \in Seq(Tree!Existing)
    BY DEF Tree!Init
  <2> QED BY <2>1 DEF TablesOk
<1>3. DOMAIN Tree!Empty = {}
  BY DEF Tree!Empty
<1>6. DOMAIN to = {} /\ DOMAIN from = {} /\ unique = {} /\ step = "schemas"
  BY <1>3 DEF Tree!Init
<1>4. KeysOk
  BY <1>6 DEF KeysOk
<1>5. ReadOk /\ Tree!KeysAreOwn
  BY DEF Tree!Init, ReadOk, Tree!KeysAreOwn
<1> QED BY <1>1, <1>2, <1>4, <1>5 DEF TreeInv

\* A row that was told stays so, and the answer is the same to the same question.
LEMMA ToldStays ==
  ASSUME UNCHANGED <<driver, default>>, everFk \subseteq everFk', NEW r, Told(r)
  PROVE  Told(r)'
<1>1. driver' = driver /\ default' = default
  OBVIOUS
<1>2. PICK f \in everFk : /\ {f.schema, f.rschema} \subseteq Tree!Existing
                          /\ {f.table, f.rtable} \subseteq Tables
                          /\ Tells(f) /\ \E i \in DOMAIN f.cols : r = Row(f, i)
  BY DEF Told
<1>3. Tree!Existing' = Tree!Existing /\ (Tells(f) => Tells(f)')
  BY <1>1 DEF Tree!Existing, Tells, Tree!Folded
<1>4. \A i \in DOMAIN f.cols : Row(f, i)' = Row(f, i)
  BY <1>1 DEF Row, RowTable
<1> QED BY <1>2, <1>3, <1>4 DEF Told

LEMMA RowsStay ==
  ASSUME UNCHANGED <<driver, default, fks>>
  PROVE  Tree!ForeignRows' = Tree!ForeignRows
BY DEF Tree!ForeignRows, Tree!MySqlRows, Tree!OracleRows, Tree!PostgresRows, Tree!SqliteRows,
       Tree!Pairs, Tree!Folded

\* As long as no key is read there is nothing to say of them.
LEMMA NoKeys ==
  ASSUME KeysOk, step \in {"schemas", "tables", "columns", "foreign"}, UNCHANGED <<to, from, unique>>,
         step' # "unique", step' = "done" => default' = Tree!None
  PROVE  KeysOk'
<1>1. DOMAIN to' = {} /\ DOMAIN from' = {} /\ unique' = {}
  BY DEF KeysOk
<1> QED BY <1>1 DEF KeysOk

\* The keys stay right as long as the columns stay, and the catalog if nobody changed it.
LEMMA KeysStay ==
  ASSUME KeysOk, UNCHANGED <<driver, default, columns, to, from>>, everFk \subseteq everFk',
         step' \in {"schemas", "tables", "columns", "foreign"} => step' = step /\ unique' = unique,
         ddl' = 0 /\ step' \in {"unique", "done"} =>
           ddl = 0 /\ step \in {"unique", "done"} /\ fks' = fks
  PROVE  KeysOk'
<1>1. driver' = driver /\ default' = default /\ columns' = columns /\ to' = to /\ from' = from
  OBVIOUS
<1>2. \A r : (Tree!Referring(r)' <=> Tree!Referring(r)) /\ (Tree!Referred(r)' <=> Tree!Referred(r))
  BY <1>1 DEF Tree!Referring, Tree!Referred, Tree!InTree
<1>3. ASSUME NEW k \in DOMAIN to
      PROVE  /\ Tree!Child(to[k]) = k /\ Tree!Referring(to[k])' /\ Told(to[k])'
             /\ Tree!Referred(to[k])' => Tree!Parent(to[k]) \in DOMAIN from
  <2>1. PICK r : r = to[k]
    OBVIOUS
  <2>2. /\ Tree!Child(r) = k /\ Tree!Referring(r) /\ Told(r)
        /\ Tree!Referred(r) => Tree!Parent(r) \in DOMAIN from
    BY <2>1 DEF KeysOk
  <2>3. Told(r)'
    BY <2>2, ToldStays
  <2>4. to'[k] = r
    BY <1>1, <2>1
  <2> QED BY <1>1, <1>2, <2>1, <2>2, <2>3, <2>4
<1>4. ASSUME NEW k \in DOMAIN from
      PROVE  Tree!Parent(from[k]) = k /\ Tree!Referred(from[k])' /\ Told(from[k])'
  <2>1. PICK r : r = from[k]
    OBVIOUS
  <2>2. Tree!Parent(r) = k /\ Tree!Referred(r) /\ Told(r)
    BY <2>1 DEF KeysOk
  <2>3. Told(r)'
    BY <2>2, ToldStays
  <2>4. from'[k] = r
    BY <1>1, <2>1
  <2> QED BY <1>2, <2>1, <2>2, <2>3, <2>4
<1>5. ddl' = 0 /\ step' \in {"unique", "done"} /\ default' # Tree!None =>
        /\ \A k \in DOMAIN to : to[k] \in Tree!ForeignRows'
        /\ \A k \in DOMAIN from : from[k] \in Tree!ForeignRows'
        /\ \A r \in Tree!ForeignRows' :
             /\ Tree!Referring(r)' => Tree!Child(r) \in DOMAIN to
             /\ Tree!Referred(r)' => Tree!Parent(r) \in DOMAIN from
  BY <1>1, <1>2, RowsStay DEF KeysOk
<1>6. step' \in {"schemas", "tables", "columns", "foreign"} =>
        DOMAIN to = {} /\ DOMAIN from = {} /\ unique' = {}
  BY DEF KeysOk
<1> QED BY <1>1, <1>3, <1>4, <1>5, <1>6 DEF KeysOk, Tree!Child, Tree!Parent

-----------------------------------------------------------------------------
\* Somebody else's statement.
LEMMA TreeDdl ==
  ASSUME TreeInv, Tree!Ddl
  PROVE  TreeInv'
<1>1. /\ CatalogOk /\ TablesOk /\ ReadOk /\ KeysOk
      /\ step # "done" /\ ddl' = ddl + 1
      /\ everFk' = everFk \union fks' /\ everUk' = everUk \union uks'
      /\ UNCHANGED <<driver, filter, step, schemas, default, rest, named, columns, to, from,
                     unique, cached>>
  BY DEF TreeInv, Tree!Ddl
<1>2. ddl' \in Nat /\ ddl' # 0
  BY <1>1 DEF CatalogOk
<1>3. Tree!Existing' = Tree!Existing
  BY <1>1 DEF Tree!Existing
<1>4. CatalogOk'
  <2>1. CASE \E t \in Schemas \X Tables : Tree!Create(t)
    <3>1. PICK t \in Schemas \X Tables : /\ t[1] \in Tree!Existing /\ tables' = tables \union {t}
                                         /\ UNCHANGED <<fks, uks>>
      BY <2>1 DEF Tree!Create
    <3>2. t \in Tree!Existing \X Tables
      BY <3>1
    <3>3. tables' \subseteq Tree!Existing \X Tables /\ tables \subseteq tables'
      BY <1>1, <3>1, <3>2 DEF CatalogOk
    <3> QED BY <1>1, <1>2, <1>3, <3>1, <3>3 DEF CatalogOk
  <2>2. CASE \E t \in Schemas \X Tables : Tree!Drop(t)
    <3>1. PICK t \in Schemas \X Tables : /\ tables' = tables \ {t}
                                         /\ fks' = {f \in fks : t \notin Tree!On(f)}
                                         /\ uks' = {u \in uks : <<u.schema, u.table>> # t}
      BY <2>2 DEF Tree!Drop
    <3>2. \A f \in fks' : Tree!On(f) \subseteq tables'
      BY <1>1, <3>1 DEF CatalogOk
    <3>3. \A u \in uks' : <<u.schema, u.table>> \in tables'
      BY <1>1, <3>1 DEF CatalogOk
    <3> QED BY <1>1, <1>2, <1>3, <3>1, <3>2, <3>3 DEF CatalogOk
  <2>3. CASE \E f \in ForeignKeys : Tree!Constrain(f)
    <3>1. PICK f \in ForeignKeys : /\ Tree!On(f) \subseteq tables /\ fks' = fks \union {f}
                                   /\ UNCHANGED <<tables, uks>>
      BY <2>3 DEF Tree!Constrain
    <3> QED BY <1>1, <1>2, <1>3, <3>1 DEF CatalogOk
  <2> QED BY <2>1, <2>2, <2>3 DEF Tree!Ddl
<1>5. TablesOk'
  <2>1. \A t : Tree!Ident(t)' = Tree!Ident(t)
    BY <1>1 DEF Tree!Ident
  <2> QED BY <1>1, <1>3, <2>1 DEF TablesOk
<1>6. ReadOk'
  BY <1>2 DEF ReadOk
<1>7. KeysOk'
  BY <1>1, <1>2, KeysStay
<1>8. Tree!KeysAreOwn'
  BY <1>1 DEF Tree!KeysAreOwn
<1> QED BY <1>4, <1>5, <1>6, <1>7, <1>8 DEF TreeInv

\* A query leaves the catalog as it is.
LEMMA CatalogStays ==
  ASSUME CatalogOk, UNCHANGED <<driver, Tree!catalog>>
  PROVE  CatalogOk'
<1>1. /\ driver' = driver /\ tables' = tables /\ fks' = fks /\ uks' = uks /\ ddl' = ddl
      /\ everFk' = everFk /\ everUk' = everUk
  BY DEF Tree!catalog
<1> QED BY <1>1 DEF CatalogOk, Tree!Existing

\* What is brought to the front is the first.
LEMMA ToFrontIs ==
  ASSUME NEW S, NEW list \in Seq(S), list # <<>>, NEW d \in S, \E i \in DOMAIN list : list[i] = d
  PROVE  /\ Tree!ToFront(list, d) \in Seq(S) /\ Tree!ToFront(list, d) # <<>>
         /\ Tree!ToFront(list, d)[1] = d
<1>1. PICK c \in DOMAIN list : c = CHOOSE i \in DOMAIN list : list[i] = d
  OBVIOUS
<1>2. PICK a : a = SubSeq(list, 1, c - 1)
  OBVIOUS
<1>3. PICK b : b = SubSeq(list, c + 1, Len(list))
  OBVIOUS
<1>4. a \in Seq(S) /\ b \in Seq(S)
  BY <1>2, <1>3
<1>5. PICK e : e = a \o b
  OBVIOUS
<1>6. e \in Seq(S)
  BY <1>4, <1>5
<1>7. Tree!ToFront(list, d) = <<d>> \o e
  BY <1>1, <1>2, <1>3, <1>5 DEF Tree!ToFront, Tree!RemoveAt
<1>8. PICK z : z = <<d>> \o e
  OBVIOUS
<1>9. z \in Seq(S) /\ z # <<>> /\ z[1] = d
  BY <1>6, <1>8
<1> QED BY <1>7, <1>8, <1>9

\* The default schema is one of those that are told, if any is.
LEMMA DefaultIs ==
  ASSUME NEW S, NEW list \in Seq(S)
  PROVE  /\ list = <<>> => Tree!DefaultOf(list) = Tree!None
         /\ list # <<>> => \E i \in DOMAIN list : list[i] = Tree!DefaultOf(list)
<1>1. PICK found : found = {n \in DOMAIN SearchNames : SearchNames[n] \in Tree!ToSet(list)}
  OBVIOUS
<1>2. Tree!DefaultOf(list) =
        IF found # {} THEN SearchNames[Tree!Min(found)] ELSE IF list # <<>> THEN list[1] ELSE Tree!None
  BY <1>1 DEF Tree!DefaultOf
<1>3. CASE list = <<>>
  <2>1. Tree!ToSet(list) = {}
    BY <1>3 DEF Tree!ToSet
  <2>2. found = {}
    BY <1>1, <2>1
  <2> QED BY <1>2, <1>3, <2>2
<1>4. CASE list # <<>> /\ found = {}
  <2>1. 1 \in DOMAIN list
    BY <1>4
  <2> QED BY <1>2, <1>4, <2>1
<1>5. CASE list # <<>> /\ found # {}
  <2>1. found \in SUBSET Nat
    <3>1. DOMAIN SearchNames \subseteq Nat
      BY TreeAssumption DEF TreeAssumption
    <3> QED BY <1>1, <3>1
  <2>2. \E x \in found : \A y \in found : x <= y
    BY <1>5, <2>1, LeastElement
  <2>3. Tree!Min(found) \in found
    BY <2>2 DEF Tree!Min
  <2>4. SearchNames[Tree!Min(found)] \in Tree!ToSet(list)
    BY <1>1, <2>3
  <2>5. \E i \in DOMAIN list : list[i] = SearchNames[Tree!Min(found)]
    BY <2>4 DEF Tree!ToSet
  <2> QED BY <1>2, <1>5, <2>5
<1> QED BY <1>3, <1>4, <1>5

\* The schemas are read, the default one is the first.
LEMMA TreeGetSchemas ==
  ASSUME TreeInv, Tree!GetSchemas
  PROVE  TreeInv'
<1>1. /\ CatalogOk /\ TablesOk /\ ReadOk /\ KeysOk
      /\ step = "schemas" /\ step' = "tables" /\ rest' = schemas'
      /\ UNCHANGED <<driver, filter, named, columns, to, from, unique, cached, Tree!catalog>>
  BY DEF TreeInv, Tree!GetSchemas
<1>2. PICK S : S = {s \in Tree!Existing : Tree!Accepted(s)}
  OBVIOUS
<1>3. PICK list \in Tree!SetToSeqs(S) :
        default' = Tree!DefaultOf(list) /\ schemas' = Tree!ToFront(list, default')
  BY <1>2 DEF Tree!GetSchemas
<1>4. IsFiniteSet(S)
  <2>1. IsFiniteSet(Tree!Existing)
    <3>1. IsFiniteSet({SearchNames[1]}) /\ IsFiniteSet(Schemas)
      BY FS_Singleton, TreeAssumption DEF TreeAssumption
    <3> QED BY <3>1 DEF Tree!Existing
  <2>2. S \in SUBSET Tree!Existing
    BY <1>2
  <2> QED BY <2>1, <2>2, FS_Subset
<1>5. list \in Seq(S) /\ (list = <<>> => S = {})
  BY <1>4, ListOfSet
<1>6. /\ list = <<>> => default' = Tree!None /\ rest' = <<>>
      /\ list # <<>> => default' \in S /\ rest' \in Seq(S) /\ rest' # <<>> /\ rest'[1] = default'
  <2>1. CASE list = <<>>
    BY <1>1, <1>3, <1>5, <2>1, DefaultIs DEF Tree!ToFront
  <2>2. CASE list # <<>>
    <3>1. \E i \in DOMAIN list : list[i] = default'
      BY <1>3, <1>5, <2>2, DefaultIs
    <3>2. default' \in S
      BY <1>5, <3>1
    <3> QED BY <1>1, <1>3, <1>5, <2>2, <3>1, <3>2, ToFrontIs
  <2> QED BY <2>1, <2>2
<1>7. driver = "sqlite" => S = {SearchNames[1]}
  BY <1>2 DEF Tree!Existing, Tree!Accepted
<1>8. Tree!Existing' = Tree!Existing /\ driver' = driver /\ S \subseteq Tree!Existing
  BY <1>1, <1>2 DEF Tree!Existing
<1>9. rest' \in Seq(Tree!Existing) /\ (default' = Tree!None \/ default' \in Tree!Existing)
  <2>1. CASE list = <<>>
    BY <1>6, <2>1
  <2>2. CASE list # <<>>
    <3>1. PICK q : q = rest'
      OBVIOUS
    <3>2. q \in Seq(S) /\ default' \in S
      BY <1>6, <2>2, <3>1
    <3>3. q \in Seq(Tree!Existing)
      BY <1>8, <3>2
    <3> QED BY <1>8, <3>1, <3>2, <3>3
  <2> QED BY <2>1, <2>2
<1>10. named' = {} /\ columns' = {}
  BY <1>1 DEF TablesOk
<1>11. TablesOk'
  <2>1. driver = "sqlite" => list # <<>> /\ default' = SearchNames[1] /\ rest' # <<>> /\ rest'[1] = default'
    BY <1>5, <1>6, <1>7
  <2>2. cached' \in BOOLEAN /\ (cached' <=> step' = "done")
    BY <1>1 DEF TablesOk
  <2> QED BY <1>1, <1>8, <1>9, <1>10, <2>1, <2>2 DEF TablesOk
<1>12. ReadOk'
  <2>1. default' # Tree!None => rest' # <<>> /\ rest'[1] = default'
    BY <1>6
  <2> QED BY <1>1, <1>10, <2>1 DEF ReadOk
<1>13. CatalogOk'
  BY <1>1, CatalogStays
<1>14. KeysOk'
  BY <1>1, NoKeys
<1>15. Tree!KeysAreOwn'
  BY <1>1 DEF Tree!KeysAreOwn
<1> QED BY <1>11, <1>12, <1>13, <1>14, <1>15 DEF TreeInv

\* The tables of a schema, as they are told.
LEMMA TablesOfIs ==
  ASSUME CatalogOk, NEW s
  PROVE  /\ \A x \in Tree!TablesOf(s) : s \in Tree!Existing /\ x \in Accepts(s)
         /\ ddl = 0 /\ s \in Tree!Existing => Accepts(s) \subseteq Tree!TablesOf(s)
<1>1. ASSUME NEW x \in Tree!TablesOf(s) PROVE s \in Tree!Existing /\ x \in Accepts(s)
  <2>1. PICK t \in tables : t[1] = s /\ t[2] \in filter.tables /\ x = <<s, Tree!Ident(t[2])>>
    BY <1>1 DEF Tree!TablesOf
  <2>2. t[1] \in Tree!Existing /\ t[2] \in Tables
    BY DEF CatalogOk
  <2> QED BY <2>1, <2>2 DEF Accepts
<1>2. ASSUME ddl = 0, s \in Tree!Existing, NEW x \in Accepts(s) PROVE x \in Tree!TablesOf(s)
  <2>1. PICK u \in Tables : u \in filter.tables /\ x = <<s, Tree!Ident(u)>>
    BY <1>2 DEF Accepts
  <2>2. PICK t : t = <<s, u>>
    OBVIOUS
  <2>3. t \in tables /\ t[1] = s /\ t[2] = u
    BY <1>2, <2>2 DEF CatalogOk
  <2> QED BY <2>1, <2>3 DEF Tree!TablesOf
<1> QED BY <1>1, <1>2

\* The names in the tree stay.
LEMMA NamesStay ==
  ASSUME UNCHANGED <<driver, filter>>
  PROVE  /\ Tree!Existing' = Tree!Existing /\ \A t : Tree!Ident(t)' = Tree!Ident(t)
         /\ \A s : Accepts(s)' = Accepts(s)
<1>1. driver' = driver /\ filter' = filter
  OBVIOUS
<1>2. \A t : Tree!Ident(t)' = Tree!Ident(t)
  BY <1>1 DEF Tree!Ident
<1> QED BY <1>1, <1>2 DEF Tree!Existing, Accepts

\* The tables of the next schema.
LEMMA TreeGetTables ==
  ASSUME TreeInv, Tree!GetTables
  PROVE  TreeInv'
<1>1. /\ CatalogOk /\ TablesOk /\ ReadOk /\ KeysOk
      /\ driver # "sqlite" /\ step = "tables" /\ rest # <<>> /\ step' = "columns"
      /\ named' = named \union Tree!TablesOf(Head(rest))
      /\ UNCHANGED <<driver, filter, schemas, default, rest, columns, to, from, unique, cached,
                     Tree!catalog>>
  BY DEF TreeInv, Tree!GetTables
<1>2. PICK s \in Tree!Existing : s = Head(rest) /\ s = rest[1]
  BY <1>1 DEF TablesOk
<1>3. /\ \A x \in Tree!TablesOf(s) : x \in Accepts(s)
      /\ ddl = 0 => Accepts(s) \subseteq Tree!TablesOf(s)
  BY <1>1, TablesOfIs
<1>4. /\ Tree!Existing' = Tree!Existing /\ \A t : Tree!Ident(t)' = Tree!Ident(t)
      /\ \A q : Accepts(q)' = Accepts(q)
  BY <1>1, NamesStay
<1>5. TablesOk'
  <2>1. \A x \in named' : \E q \in Tree!Existing, t \in Tables : x = <<q, Tree!Ident(t)>>
    <3>1. ASSUME NEW x \in Accepts(s)
          PROVE  \E q \in Tree!Existing, t \in Tables : x = <<q, Tree!Ident(t)>>
      BY <3>1 DEF Accepts
    <3> QED BY <1>1, <1>2, <1>3, <3>1 DEF TablesOk
  <2>2. columns' \subseteq named' \X Columns
    BY <1>1 DEF TablesOk
  <2> QED BY <1>1, <1>4, <2>1, <2>2 DEF TablesOk
<1>6. ReadOk'
  <2> SUFFICES ASSUME ddl = 0
               PROVE  /\ \A t \in named' : {t} \X Columns \subseteq columns \/ t \in Accepts(s)
                      /\ default # Tree!None => Accepts(default) \subseteq named'
    <3>1. ddl' = ddl
      BY <1>1 DEF Tree!catalog
    <3> QED BY <1>1, <1>2, <1>4, <3>1 DEF ReadOk
  <2>1. \A t \in named : {t} \X Columns \subseteq columns
    BY <1>1 DEF ReadOk
  <2>2. default # Tree!None => Accepts(default) \subseteq named \/ s = default
    BY <1>1, <1>2 DEF ReadOk
  <2> QED BY <1>1, <1>2, <1>3, <2>1, <2>2
<1>7. CatalogOk'
  BY <1>1, CatalogStays
<1>8. KeysOk'
  BY <1>1, NoKeys
<1>9. Tree!KeysAreOwn'
  BY <1>1 DEF Tree!KeysAreOwn
<1> QED BY <1>5, <1>6, <1>7, <1>8, <1>9 DEF TreeInv

\* SQLite tells both at once.
LEMMA TreeGetTablesAndColumns ==
  ASSUME TreeInv, Tree!GetTablesAndColumns
  PROVE  TreeInv'
<1>1. /\ CatalogOk /\ TablesOk /\ ReadOk /\ KeysOk
      /\ driver = "sqlite" /\ step = "tables" /\ rest # <<>> /\ step' = "foreign"
      /\ named' = Tree!TablesOf(Head(rest))
      /\ columns' = {x \in named' \X Columns : x[1][2] # x[2]} /\ rest' = Tail(rest)
      /\ UNCHANGED <<driver, filter, schemas, default, to, from, unique, cached, Tree!catalog>>
  BY DEF TreeInv, Tree!GetTablesAndColumns
<1>2. rest \in Seq(Tree!Existing) /\ default = SearchNames[1] /\ rest[1] = default
  BY <1>1 DEF TablesOk
<1>3. Head(rest) = default /\ default \in Tree!Existing /\ rest' \in Seq(Tree!Existing)
  BY <1>1, <1>2
<1>4. default # Tree!None
  BY <1>2, TreeAssumption DEF TreeAssumption, Tree!None
<1>5. /\ \A x \in Tree!TablesOf(default) : x \in Accepts(default)
      /\ ddl = 0 => Accepts(default) \subseteq Tree!TablesOf(default)
  BY <1>1, <1>3, TablesOfIs
<1>6. /\ Tree!Existing' = Tree!Existing /\ \A t : Tree!Ident(t)' = Tree!Ident(t)
      /\ \A q : Accepts(q)' = Accepts(q)
  BY <1>1, NamesStay
<1>7. TablesOk'
  <2>1. \A x \in named' : \E q \in Tree!Existing, t \in Tables : x = <<q, Tree!Ident(t)>>
    <3>1. ASSUME NEW x \in Accepts(default)
          PROVE  \E q \in Tree!Existing, t \in Tables : x = <<q, Tree!Ident(t)>>
      BY <1>3, <3>1 DEF Accepts
    <3> QED BY <1>1, <1>3, <1>5, <3>1
  <2>2. columns' \subseteq named' \X Columns
    BY <1>1
  <2>3. cached' \in BOOLEAN /\ (cached' <=> step' = "done")
    BY <1>1 DEF TablesOk
  <2> QED BY <1>1, <1>2, <1>3, <1>4, <1>6, <2>1, <2>2, <2>3 DEF TablesOk
<1>8. ReadOk'
  <2> SUFFICES ASSUME ddl = 0
               PROVE  /\ \A x \in named' \X Columns : x[1][2] # x[2] => x \in columns'
                      /\ Accepts(default) \subseteq named'
    <3>1. ddl' = ddl
      BY <1>1 DEF Tree!catalog
    <3> QED BY <1>1, <1>6, <3>1 DEF ReadOk
  <2> QED BY <1>1, <1>3, <1>5
<1>9. CatalogOk'
  BY <1>1, CatalogStays
<1>10. KeysOk'
  BY <1>1, NoKeys
<1>11. Tree!KeysAreOwn'
  BY <1>1 DEF Tree!KeysAreOwn
<1> QED BY <1>7, <1>8, <1>9, <1>10, <1>11 DEF TreeInv

\* The columns of the schema just read.
LEMMA TreeSetColumns ==
  ASSUME TreeInv, Tree!SetColumns
  PROVE  TreeInv'
<1>1. /\ CatalogOk /\ TablesOk /\ ReadOk /\ KeysOk
      /\ step = "columns" /\ step' = "tables" /\ rest' = Tail(rest)
      /\ columns' = columns \union
           {x \in {<<t[1], Tree!Ident(t[2])>> : t \in {u \in tables : u[1] = Head(rest)}} \X Columns :
              x[1] \in named}
      /\ UNCHANGED <<driver, filter, schemas, default, named, to, from, unique, cached, Tree!catalog>>
  BY DEF TreeInv, Tree!SetColumns
<1>2. PICK s \in Tree!Existing : s = Head(rest)
  BY <1>1 DEF TablesOk
<1>3. driver # "sqlite" /\ rest' \in Seq(Tree!Existing)
  BY <1>1 DEF TablesOk
<1>4. /\ Tree!Existing' = Tree!Existing /\ \A t : Tree!Ident(t)' = Tree!Ident(t)
      /\ \A q : Accepts(q)' = Accepts(q)
  BY <1>1, NamesStay
<1>5. columns' \subseteq named \X Columns /\ columns \subseteq columns'
  BY <1>1 DEF TablesOk
<1>6. TablesOk'
  <2>1. cached' \in BOOLEAN /\ (cached' <=> step' = "done")
    BY <1>1 DEF TablesOk
  <2> QED BY <1>1, <1>3, <1>4, <1>5, <2>1 DEF TablesOk
<1>7. ReadOk'
  <2> SUFFICES ASSUME ddl = 0
               PROVE  /\ \A t \in named : {t} \X Columns \subseteq columns'
                      /\ default # Tree!None => Accepts(default) \subseteq named
    <3>1. ddl' = ddl
      BY <1>1 DEF Tree!catalog
    <3> QED BY <1>1, <1>3, <1>4, <3>1 DEF ReadOk
  <2>1. ASSUME NEW t \in named, t \in Accepts(s), NEW c \in Columns
        PROVE  <<t, c>> \in columns'
    <3>1. PICK u \in Tables : t = <<s, Tree!Ident(u)>>
      BY <2>1 DEF Accepts
    <3>2. PICK y : y = <<s, u>>
      OBVIOUS
    <3>3. y \in tables /\ y[1] = s /\ y[2] = u
      BY <1>1, <3>2 DEF CatalogOk
    <3>4. t \in {<<w[1], Tree!Ident(w[2])>> : w \in {v \in tables : v[1] = s}}
      BY <3>1, <3>3
    <3> QED BY <1>1, <1>2, <2>1, <3>4
  <2>2. \A t \in named : {t} \X Columns \subseteq columns \/ t \in Accepts(s)
    BY <1>1, <1>2, <1>3 DEF ReadOk
  <2>3. \A t \in named : {t} \X Columns \subseteq columns'
    BY <1>5, <2>1, <2>2
  <2>4. default # Tree!None => Accepts(default) \subseteq named
    BY <1>1 DEF ReadOk
  <2> QED BY <2>3, <2>4
<1>8. CatalogOk'
  BY <1>1, CatalogStays
<1>9. KeysOk'
  BY <1>1, NoKeys
<1>10. Tree!KeysAreOwn'
  BY <1>1 DEF Tree!KeysAreOwn
<1> QED BY <1>6, <1>7, <1>8, <1>9, <1>10 DEF TreeInv

\* The tables are read; without a default schema the tree is done.
LEMMA TreeTablesRead ==
  ASSUME TreeInv, Tree!TablesRead
  PROVE  TreeInv'
<1>1. /\ CatalogOk /\ TablesOk /\ ReadOk /\ KeysOk
      /\ step = "tables" /\ rest = <<>>
      /\ step' = IF default = Tree!None THEN "done" ELSE "foreign"
      /\ cached' = (default = Tree!None)
      /\ UNCHANGED <<driver, filter, schemas, default, rest, named, columns, to, from, unique,
                     Tree!catalog>>
  BY DEF TreeInv, Tree!TablesRead
<1>2. /\ Tree!Existing' = Tree!Existing /\ \A t : Tree!Ident(t)' = Tree!Ident(t)
      /\ \A q : Accepts(q)' = Accepts(q)
  BY <1>1, NamesStay
<1>3. /\ step' \in {"done", "foreign"} /\ (step' = "done" <=> default = Tree!None)
      /\ cached' \in BOOLEAN /\ (cached' <=> step' = "done")
  BY <1>1
<1>4. TablesOk'
  BY <1>1, <1>2, <1>3 DEF TablesOk
<1>5. ReadOk'
  <2>1. ddl' = ddl
    BY <1>1 DEF Tree!catalog
  <2> QED BY <1>1, <1>2, <1>3, <2>1 DEF ReadOk
<1>6. CatalogOk'
  BY <1>1, CatalogStays
<1>7. KeysOk'
  BY <1>1, <1>3, NoKeys
<1>8. Tree!KeysAreOwn'
  BY <1>1 DEF Tree!KeysAreOwn, KeysOk
<1> QED BY <1>4, <1>5, <1>6, <1>7, <1>8 DEF TreeInv

\* A row of the answer is told.
LEMMA AnswersAreTold ==
  ASSUME CatalogOk, NEW r \in Tree!ForeignRows
  PROVE  Told(r)
<1>1. PICK f \in fks : Tells(f) /\ \E i \in DOMAIN f.cols : r = Row(f, i)
  BY RowOfConstraint DEF CatalogOk
<1>2. f \in everFk /\ Tree!On(f) \subseteq Tree!Existing \X Tables
  BY DEF CatalogOk
<1>3. {f.schema, f.rschema} \subseteq Tree!Existing /\ {f.table, f.rtable} \subseteq Tables
  BY <1>2 DEF Tree!On
<1> QED BY <1>1, <1>2, <1>3 DEF Told

\* The answer is sorted into both maps.
LEMMA TreeSetForeignKeys ==
  ASSUME TreeInv, Tree!SetForeignKeys
  PROVE  TreeInv'
<1>1. /\ CatalogOk /\ TablesOk /\ ReadOk /\ KeysOk
      /\ step = "foreign" /\ step' = "unique"
      /\ UNCHANGED <<driver, filter, schemas, default, rest, named, columns, unique, cached,
                     Tree!catalog>>
  BY DEF TreeInv, Tree!SetForeignKeys
<1>2. PICK rows \in Tree!Orders(Tree!ForeignRows) :
        /\ to' = Tree!LastOf(rows, {i \in DOMAIN rows : Tree!Referring(rows[i])}, Tree!Child)
        /\ from' = Tree!LastOf(rows, {i \in DOMAIN rows : Tree!Referred(rows[i])}, Tree!Parent)
  BY DEF Tree!SetForeignKeys
<1>3. /\ Len(rows) \in Nat /\ DOMAIN rows = 1 .. Len(rows)
      /\ \A i \in DOMAIN rows : rows[i] \in Tree!ForeignRows
      /\ \A r \in Tree!ForeignRows : \E i \in DOMAIN rows : rows[i] = r
  BY <1>1, RowsAreListed DEF CatalogOk
<1>4. PICK P \in SUBSET DOMAIN rows : P = {i \in DOMAIN rows : Tree!Referring(rows[i])}
  OBVIOUS
<1>5. PICK Q \in SUBSET DOMAIN rows : Q = {i \in DOMAIN rows : Tree!Referred(rows[i])}
  OBVIOUS
<1>6. /\ DOMAIN to' = {Tree!Child(rows[i]) : i \in P}
      /\ \A k \in DOMAIN to' : \E i \in P : to'[k] = rows[i] /\ Tree!Child(rows[i]) = k
  BY <1>2, <1>3, <1>4, LastChildren
<1>7. /\ DOMAIN from' = {Tree!Parent(rows[i]) : i \in Q}
      /\ \A k \in DOMAIN from' : \E i \in Q : from'[k] = rows[i] /\ Tree!Parent(rows[i]) = k
  BY <1>2, <1>3, <1>5, LastParents
<1>8. /\ driver' = driver /\ default' = default /\ columns' = columns
      /\ fks' = fks /\ everFk' = everFk
  BY <1>1 DEF Tree!catalog
<1>9. \A r : (Tree!Referring(r)' <=> Tree!Referring(r)) /\ (Tree!Referred(r)' <=> Tree!Referred(r))
  BY <1>8 DEF Tree!Referring, Tree!Referred, Tree!InTree
<1>10. \A i \in DOMAIN rows : Told(rows[i])'
  BY <1>1, <1>3, <1>8, AnswersAreTold, ToldStays
<1>11. Tree!ForeignRows' = Tree!ForeignRows
  BY <1>8, RowsStay
<1>12. ASSUME NEW k \in DOMAIN to'
       PROVE  /\ Tree!Child(to'[k]) = k /\ Tree!Referring(to[k])' /\ Told(to[k])'
              /\ Tree!Referred(to[k])' => Tree!Parent(to'[k]) \in DOMAIN from'
              /\ to'[k] \in Tree!ForeignRows
  <2>1. PICK i \in P : to'[k] = rows[i] /\ Tree!Child(rows[i]) = k
    BY <1>6
  <2>2. PICK r : r = rows[i]
    OBVIOUS
  <2>3. Tree!Referring(r)' /\ Told(r)' /\ r \in Tree!ForeignRows
    BY <1>3, <1>4, <1>9, <1>10, <2>2
  <2>4. Tree!Referred(r)' => Tree!Parent(r) \in DOMAIN from'
    BY <1>5, <1>7, <1>9, <2>2
  <2> QED BY <2>1, <2>2, <2>3, <2>4
<1>13. ASSUME NEW k \in DOMAIN from'
       PROVE  /\ Tree!Parent(from'[k]) = k /\ Tree!Referred(from[k])' /\ Told(from[k])'
              /\ from'[k] \in Tree!ForeignRows
  <2>1. PICK i \in Q : from'[k] = rows[i] /\ Tree!Parent(rows[i]) = k
    BY <1>7
  <2>2. PICK r : r = rows[i]
    OBVIOUS
  <2>3. Tree!Referred(r)' /\ Told(r)' /\ r \in Tree!ForeignRows
    BY <1>3, <1>5, <1>9, <1>10, <2>2
  <2> QED BY <2>1, <2>2, <2>3
<1>14. ASSUME NEW r \in Tree!ForeignRows
       PROVE  /\ Tree!Referring(r) => Tree!Child(r) \in DOMAIN to'
              /\ Tree!Referred(r) => Tree!Parent(r) \in DOMAIN from'
  <2>1. PICK i \in DOMAIN rows : rows[i] = r
    BY <1>3
  <2> QED BY <1>4, <1>5, <1>6, <1>7, <2>1
<1>15. KeysOk'
  <2>1. step' \notin {"schemas", "tables", "columns", "foreign"}
    BY <1>1
  <2> QED BY <1>9, <1>11, <1>12, <1>13, <1>14, <2>1 DEF KeysOk, Tree!Child, Tree!Parent
<1>16. /\ Tree!Existing' = Tree!Existing /\ \A t : Tree!Ident(t)' = Tree!Ident(t)
       /\ \A q : Accepts(q)' = Accepts(q)
  BY <1>1, NamesStay
<1>17. TablesOk'
  BY <1>1, <1>16 DEF TablesOk
<1>18. ReadOk'
  <2>1. ddl' = ddl
    BY <1>1 DEF Tree!catalog
  <2> QED BY <1>1, <1>16, <2>1 DEF ReadOk
<1>19. CatalogOk'
  BY <1>1, CatalogStays
<1>20. Tree!KeysAreOwn'
  BY <1>1 DEF Tree!KeysAreOwn
<1> QED BY <1>15, <1>17, <1>18, <1>19, <1>20 DEF TreeInv

\* The unique keys, and the tree is done.
LEMMA TreeSetUniqueKeys ==
  ASSUME TreeInv, Tree!SetUniqueKeys
  PROVE  TreeInv'
<1>1. /\ CatalogOk /\ TablesOk /\ ReadOk /\ KeysOk
      /\ step = "unique" /\ step' = "done" /\ cached' = TRUE
      /\ unique' = {u \in Tree!UniqueRows : <<default, u.table>> \in named}
      /\ UNCHANGED <<driver, filter, schemas, default, rest, named, columns, to, from, Tree!catalog>>
  BY DEF TreeInv, Tree!SetUniqueKeys
<1>2. /\ Tree!Existing' = Tree!Existing /\ \A t : Tree!Ident(t)' = Tree!Ident(t)
      /\ \A q : Accepts(q)' = Accepts(q)
  BY <1>1, NamesStay
<1>3. /\ driver' = driver /\ default' = default /\ ddl' = ddl /\ fks' = fks
      /\ everFk' = everFk /\ everUk' = everUk
  BY <1>1 DEF Tree!catalog
<1>4. TablesOk'
  BY <1>1, <1>2 DEF TablesOk
<1>5. ReadOk'
  BY <1>1, <1>2, <1>3 DEF ReadOk
<1>6. CatalogOk'
  BY <1>1, CatalogStays
<1>7. KeysOk'
  <2>1. step' \notin {"schemas", "tables", "columns", "foreign"}
    BY <1>1
  <2> QED BY <1>1, <1>3, <2>1, KeysStay
<1>8. ASSUME NEW v \in unique'
      PROVE  \/ v \in everUk /\ (v.schema = default \/ Tree!Folded(v.schema))
             \/ driver = "postgres" /\ v \in everUk
             \/ driver = "sqlserver" /\ \E w, x \in everUk :
                  /\ w.name = x.name /\ w # x /\ w.name = v.name
                  /\ w.table = v.table /\ w.cols \subseteq v.cols
  <2>1. v \in Tree!UniqueRows /\ uks \subseteq everUk /\ uks \subseteq UniqueKeys
    BY <1>1, <1>8 DEF CatalogOk
  <2>2. CASE driver = "postgres"
    BY <2>1, <2>2 DEF Tree!UniqueRows, Tree!PostgresUnique
  <2>3. CASE driver = "mysql"
    BY <2>1, <2>3 DEF Tree!UniqueRows
  <2>4. CASE driver = "oracle"
    BY <2>1, <2>4 DEF Tree!UniqueRows, Tree!OracleUnique
  <2>5. CASE driver = "sqlite"
    <3>1. v \in uks
      BY <2>1, <2>5 DEF Tree!UniqueRows
    <3>2. v.schema = SearchNames[1]
      BY <1>1, <2>5, <3>1 DEF CatalogOk, Tree!Existing
    <3>3. default = SearchNames[1]
      BY <1>1, <2>5 DEF TablesOk
    <3> QED BY <2>1, <3>1, <3>2, <3>3
  <2>6. CASE driver = "sqlserver"
    <3>1. v \in Tree!SqlServerUnique
      BY <2>1, <2>6 DEF Tree!UniqueRows
    <3>2. PICK u \in uks : /\ Tree!Folded(u.schema)
                           /\ v = [u EXCEPT !.cols = UNION {w.cols : w \in {x \in uks : x.name = u.name}}]
      BY <3>1 DEF Tree!SqlServerUnique
    <3>3. PICK C : C = UNION {w.cols : w \in {x \in uks : x.name = u.name}}
      OBVIOUS
    <3>4. u \in [name : Nat, schema : Schemas, table : Tables, cols : SUBSET Columns]
      BY <2>1, TreeAssumption DEF TreeAssumption
    <3>5. v.name = u.name /\ v.table = u.table /\ v.schema = u.schema /\ v.cols = C
      BY <3>2, <3>3, <3>4
    <3>6. u.cols \subseteq C
      BY <3>3
    <3>7. CASE \E x \in uks : x.name = u.name /\ x # u
      BY <2>1, <2>6, <3>5, <3>6, <3>7
    <3>8. CASE \A x \in uks : x.name = u.name => x = u
      <4>1. {x \in uks : x.name = u.name} = {u}
        BY <3>8
      <4>2. C = u.cols
        BY <3>3, <4>1
      <4>3. v = u
        BY <3>2, <3>3, <3>4, <4>2
      <4> QED BY <2>1, <3>2, <4>3
    <3> QED BY <3>7, <3>8
  <2> QED BY <1>1, <2>2, <2>3, <2>4, <2>5, <2>6 DEF CatalogOk, Tree!Engines
<1>9. Tree!KeysAreOwn'
  <2>1. \A s : Tree!Folded(s)' <=> Tree!Folded(s)
    BY <1>3 DEF Tree!Folded
  <2> QED BY <1>3, <1>8, <2>1 DEF Tree!KeysAreOwn
<1> QED BY <1>4, <1>5, <1>6, <1>7, <1>9 DEF TreeInv

\* A query that fails.
LEMMA TreeQueryFails ==
  ASSUME TreeInv, Tree!QueryFails
  PROVE  TreeInv'
<1>1. /\ CatalogOk /\ TablesOk /\ ReadOk /\ KeysOk
      /\ step \notin {"done", "failed"} /\ step' = "failed"
      /\ UNCHANGED <<driver, filter, schemas, default, rest, named, columns, to, from, unique,
                     cached, Tree!catalog>>
  BY DEF TreeInv, Tree!QueryFails
<1>2. /\ Tree!Existing' = Tree!Existing /\ \A t : Tree!Ident(t)' = Tree!Ident(t)
      /\ \A q : Accepts(q)' = Accepts(q)
  BY <1>1, NamesStay
<1>3. everFk' = everFk
  BY <1>1 DEF Tree!catalog
<1>4. TablesOk'
  BY <1>1, <1>2 DEF TablesOk
<1>5. ReadOk' /\ Tree!KeysAreOwn'
  BY <1>1 DEF ReadOk, Tree!KeysAreOwn
<1>6. CatalogOk'
  BY <1>1, CatalogStays
<1>7. KeysOk'
  <2>1. step' \notin {"schemas", "tables", "columns", "foreign", "unique", "done"}
    BY <1>1
  <2> QED BY <1>1, <1>3, <2>1, KeysStay
<1> QED BY <1>4, <1>5, <1>6, <1>7 DEF TreeInv

\* So the tree is right after every step.
LEMMA TreeStep == TreeInv /\ [Tree!Next]_treeVars => TreeInv'
<1> SUFFICES ASSUME TreeInv, [Tree!Next]_treeVars PROVE TreeInv'
  OBVIOUS
<1>1. CASE UNCHANGED treeVars
  <2>1. /\ CatalogOk /\ TablesOk /\ ReadOk /\ KeysOk /\ Tree!KeysAreOwn
        /\ driver' = driver /\ filter' = filter /\ step' = step /\ default' = default
        /\ rest' = rest /\ named' = named /\ columns' = columns /\ to' = to /\ from' = from
        /\ unique' = unique /\ cached' = cached /\ ddl' = ddl /\ fks' = fks
        /\ everFk' = everFk /\ everUk' = everUk /\ UNCHANGED Tree!catalog
    BY <1>1 DEF TreeInv, treeVars, Tree!catalog
  <2>2. /\ Tree!Existing' = Tree!Existing /\ \A t : Tree!Ident(t)' = Tree!Ident(t)
        /\ \A q : Accepts(q)' = Accepts(q)
    BY <2>1, NamesStay
  <2>3. CatalogOk'
    BY <2>1, CatalogStays
  <2>4. TablesOk'
    BY <2>1, <2>2 DEF TablesOk
  <2>5. ReadOk'
    BY <2>1, <2>2 DEF ReadOk
  <2>6. KeysOk'
    BY <2>1, KeysStay
  <2>7. Tree!KeysAreOwn'
    BY <2>1 DEF Tree!KeysAreOwn, Tree!Folded
  <2> QED BY <2>3, <2>4, <2>5, <2>6, <2>7 DEF TreeInv
<1> QED BY <1>1, TreeDdl, TreeGetSchemas, TreeGetTables, TreeGetTablesAndColumns, TreeSetColumns,
           TreeTablesRead, TreeSetForeignKeys, TreeSetUniqueKeys, TreeQueryFails DEF Tree!Next

-----------------------------------------------------------------------------
\* Each part keeps its invariant, whichever of them takes the next step.
LEMMA ViewsInvariant == MCSpec => [](TreeInv /\ PanelsInv /\ BucketInv /\ OverviewInv)
<1>1. MCInit => TreeInv /\ PanelsInv /\ BucketInv /\ OverviewInv
  BY TreeInitial, PanelsInitial, BucketInitial, OverviewInitial DEF MCInit
<1>2. TreeInv /\ [MCNext]_<<on, vars, vendorVars, treeVars, awsVars>> => TreeInv'
  <2>1. [MCNext]_<<on, vars, vendorVars, treeVars, awsVars>> => [Tree!Next]_treeVars
    BY DEF MCNext
  <2> QED BY <2>1, TreeStep
<1>3. PanelsInv /\ [MCNext]_<<on, vars, vendorVars, treeVars, awsVars>> => PanelsInv'
  <2>1. [MCNext]_<<on, vars, vendorVars, treeVars, awsVars>> => [Dashboards!PanelsNext]_panelVars
    BY DEF MCNext, awsVars
  <2> QED BY <2>1, PanelsStep
<1>4. BucketInv /\ [MCNext]_<<on, vars, vendorVars, treeVars, awsVars>> => BucketInv'
  <2>1. [MCNext]_<<on, vars, vendorVars, treeVars, awsVars>> => [Dashboards!BucketNext]_bucketVars
    BY DEF MCNext, awsVars
  <2> QED BY <2>1, BucketStep
<1>5. OverviewInv /\ [MCNext]_<<on, vars, vendorVars, treeVars, awsVars>> => OverviewInv'
  <2>1. [MCNext]_<<on, vars, vendorVars, treeVars, awsVars>> =>
          [Dashboards!OverviewNext]_overviewVars
    BY DEF MCNext, awsVars
  <2> QED BY <2>1, OverviewStep
<1> QED BY <1>1, <1>2, <1>3, <1>4, <1>5, PTL DEF MCSpec

\* For any catalog and any statements between the queries, any resources, configurations
\* and limits: the diagrams of a resource tree show foreign keys that there were, and all
\* of them if nobody changed the schema, but for those the drivers cannot tell; and a
\* metric dashboard asks once for each series of its own subject, at its own region
\* (getInfomationSchemas of the SQL drivers, the ER diagrams, the metric adapters).
THEOREM ViewsTrue == MCSpec => []ViewsAreTrue
<1>1. TreeInv => /\ Tree!RelationsAreTrue /\ Tree!EveryRelation /\ Tree!AroundIsPart
                 /\ Tree!KeysAreOwn /\ Tree!TreeIsWhole
  BY TreeShows
<1>2. PanelsInv => Dashboards!ReadOnce /\ Dashboards!LimitsBind /\ Dashboards!EventsWereSeen
  BY PanelsShow
<1>3. BucketInv => Dashboards!AsksWhatItShows /\ Dashboards!ConfigurationIsKnown
  BY BucketHonest
<1>4. OverviewInv => Dashboards!EachIsCompared
  BY DEF OverviewInv
<1>5. TreeInv /\ PanelsInv /\ BucketInv /\ OverviewInv => ViewsAreTrue
  BY <1>1, <1>2, <1>3, <1>4 DEF ViewsAreTrue
<1> QED BY <1>5, ViewsInvariant, PTL
=============================================================================
