---------------------------- MODULE Tuning_proofs ----------------------------
(***************************************************************************)
(* Proofs about the parts of a performance tuning context, for any         *)
(* callers, limits, tables, requests and datapoints.                       *)
(*                                                                         *)
(* First OracleSession: typing, that a capture leaves the session its      *)
(* STATISTICS_LEVEL (LevelRestored), that no statement of a user runs      *)
(* under the level of a capture (Unmixed) and that a capture shows its own *)
(* cursor (OwnCursor).  Everything rests on the order of the connection's  *)
(* queue: what waits behind the first statement of a capture can only be   *)
(* the deletes of PLAN_TABLE rows, so the capture is alone from its second *)
(* on.                                                                     *)
(*                                                                         *)
(* Then the contexts: that each says what it should (ContextsAreHonest),   *)
(* by an invariant for each of TuningContext, DynamoContext and            *)
(* DynamoEvidence, of which the others leave the variables alone.          *)
(***************************************************************************)
EXTENDS MC_Tuning, FiniteSetTheorems, WellFoundedInduction, TLAPS

\* From the ALTER SESSION's answer on nothing else is issued.
Alone == {"select", "cursor", "display", "restore"}
\* ... nor from the ALTER SESSION itself on.
Inside == Alone \union {"on"}

\* The place of the caller who waits as the i-th.
At(i) == pc[queue[i]]

\* Whoever waits for a statement is in the queue, once.
Queued ==
  /\ \A i, k \in 1..Len(queue) : queue[i] = queue[k] => i = k
  /\ \A i \in 1..Len(queue) : At(i) \in Issued
  /\ \A j \in Caller : pc[j] \in Issued => \E i \in 1..Len(queue) : queue[i] = j

\* The guard is up exactly while a capture is on its way.
Guard == \A j \in Caller : exclusive = j <=> pc[j] \in Capture

\* What may be issued before and behind a statement of a capture.
Order ==
  /\ \A i, k \in 1..Len(queue) : At(i) = "param" /\ i < k => At(k) = "delete"
  /\ \A i \in 1..Len(queue) : At(i) = "on" =>
       i = Len(queue) /\ \A k \in 1..Len(queue) : k < i => At(k) = "delete"
  /\ \A i \in 1..Len(queue) : At(i) \in Alone => Len(queue) = 1
  /\ \A i \in 1..Len(queue) : At(i) = "close" => i = 1

\* Where the level is that of a capture, and what the capture will restore.
Level ==
  /\ con = "open" /\ excuse = {} /\ level = "ALL" =>
       \E j \in Caller : pc[j] \in Alone \union {"close"}
  /\ \A j \in Caller : pc[j] \in Inside /\ excuse = {} => previous[j] = "TYPICAL"
  /\ Unmixed

\* Nothing runs between the SELECT of a capture and the look for its cursor.
Own ==
  /\ \A j \in Caller : pc[j] = "cursor" => prev = j
  /\ OwnCursor

\* The inductive invariant of OracleSession.
IInv == TypeOK /\ Queued /\ Guard /\ Order /\ Level /\ Own

-----------------------------------------------------------------------------
\* What is in a sequence is of its set.
LEMMA Members == ASSUME NEW S, NEW q \in Seq(S), NEW i \in 1..Len(q) PROVE q[i] \in S
OBVIOUS

\* The queue without its head is shorter by one.
LEMMA Shifted ==
  ASSUME NEW S, NEW q \in Seq(S), q # <<>>
  PROVE  /\ Len(q) \in Nat \ {0} /\ Head(q) = q[1]
         /\ Tail(q) \in Seq(S) /\ Len(Tail(q)) = Len(q) - 1
         /\ \A i \in 1..(Len(q) - 1) : Tail(q)[i] = q[i + 1]
OBVIOUS

\* The queue with one more.
LEMMA Appended ==
  ASSUME NEW S, NEW q \in Seq(S), NEW e \in S
  PROVE  /\ Len(q) \in Nat
         /\ Append(q, e) \in Seq(S) /\ Len(Append(q, e)) = Len(q) + 1
         /\ \A i \in 1..Len(q) : Append(q, e)[i] = q[i]
         /\ Append(q, e)[Len(q) + 1] = e
OBVIOUS

\* The head of the queue is done: the others move up.
LEMMA Left ==
  ASSUME IInv, NEW j \in Caller, queue # <<>>, j = Head(queue), Then(j, "idle")
  PROVE  /\ queue' \in Seq(Caller) /\ pc' \in [Caller -> Issued \union {"absent", "idle"}]
         /\ Queued' /\ Order'
         /\ pc'[j] = "idle" /\ \A k \in Caller \ {j} : pc'[k] = pc[k]
<1>1. /\ Len(queue) \in Nat \ {0} /\ j = queue[1]
      /\ queue' \in Seq(Caller) /\ Len(queue') = Len(queue) - 1
      /\ \A i \in 1..(Len(queue) - 1) : queue'[i] = queue[i + 1]
  BY Shifted DEF IInv, TypeOK, Then
<1>2. /\ pc' \in [Caller -> Issued \union {"absent", "idle"}]
      /\ pc'[j] = "idle" /\ \A k \in Caller \ {j} : pc'[k] = pc[k]
  BY DEF IInv, TypeOK, Then
<1>3. \A i \in 1..Len(queue) : queue[i] \in Caller
  <2>1. queue \in Seq(Caller)
    BY DEF IInv, TypeOK
  <2> QED BY <2>1, Members
<1>4. \A i \in 1..Len(queue') :
        i + 1 \in 1..Len(queue) /\ queue'[i] = queue[i + 1] /\ queue'[i] # j
        /\ pc'[queue'[i]] = pc[queue[i + 1]]
  BY <1>1, <1>2, <1>3 DEF IInv, Queued
<1>5. Queued'
  <2>1. \A i, k \in 1..Len(queue') : queue'[i] = queue'[k] => i = k
    BY <1>1, <1>4 DEF IInv, Queued
  <2>2. \A i \in 1..Len(queue') : pc'[queue'[i]] \in Issued
    BY <1>4 DEF IInv, Queued, At
  <2>3. ASSUME NEW k \in Caller, pc'[k] \in Issued
        PROVE \E i \in 1..Len(queue') : queue'[i] = k
    <3>1. k # j
      BY <2>3, <1>2 DEF Issued, PlanRow, Capture
    <3>2. PICK i \in 1..Len(queue) : queue[i] = k
      BY <3>1, <2>3, <1>2 DEF IInv, Queued
    <3>3. i # 1
      BY <3>1, <3>2, <1>1
    <3>4. i - 1 \in 1..Len(queue') /\ (i - 1) + 1 = i
      BY <3>3, <1>1
    <3>5. queue'[i - 1] = k
      BY <3>2, <3>4, <1>1
    <3> QED BY <3>4, <3>5
  <2> QED BY <2>1, <2>2, <2>3 DEF Queued, At
<1>6. Order'
  <2> DEFINE m == Len(queue')
  <2>1. \A i, k \in 1..m : pc'[queue'[i]] = "param" /\ i < k => pc'[queue'[k]] = "delete"
    BY <1>1, <1>4, SMTT(30) DEF IInv, Order, At
  <2>2. \A i \in 1..m : pc'[queue'[i]] = "on" =>
          i = m /\ \A k \in 1..m : k < i => pc'[queue'[k]] = "delete"
    BY <1>1, <1>4 DEF IInv, Order, At
  <2>3. \A i \in 1..m : pc'[queue'[i]] \in Alone => m = 1
    <3>1. ASSUME NEW i \in 1..m PROVE pc'[queue'[i]] \notin Alone
      <4>1. Len(queue) # 1
        BY <1>1
      <4> QED BY <4>1, <1>4 DEF IInv, Order, At
    <3> QED BY <3>1
  <2>4. \A i \in 1..m : pc'[queue'[i]] = "close" => i = 1
    <3>1. ASSUME NEW i \in 1..m PROVE pc'[queue'[i]] # "close"
      BY <1>1, <1>4 DEF IInv, Order, At
    <3> QED BY <3>1
  <2> QED BY <2>1, <2>2, <2>3, <2>4 DEF Order, At
<1> QED BY <1>1, <1>2, <1>5, <1>6

\* The head of the queue was answered and issues its next statement.
LEMMA Continued ==
  ASSUME IInv, NEW j \in Caller, NEW s \in Issued, queue # <<>>, j = Head(queue),
         Then(j, s),
         s # "delete" => \A i \in 2..Len(queue) : At(i) # "param",
         \A i \in 2..Len(queue) : At(i) # "on",
         s = "on" => \A i \in 2..Len(queue) : At(i) = "delete",
         s \in Alone \union {"close"} => Len(queue) = 1
  PROVE  /\ queue' \in Seq(Caller) /\ pc' \in [Caller -> Issued \union {"absent", "idle"}]
         /\ Queued' /\ Order'
         /\ pc'[j] = s /\ \A k \in Caller \ {j} : pc'[k] = pc[k]
<1> DEFINE n == Len(queue)
<1>0. s # "idle"
  BY DEF Issued, PlanRow, Capture
<1>1. /\ n \in Nat \ {0} /\ j = queue[1]
      /\ queue' \in Seq(Caller) /\ Len(queue') = n
      /\ \A i \in 1..(n - 1) : queue'[i] = queue[i + 1]
      /\ queue'[n] = j
  <2>1. /\ n \in Nat \ {0} /\ j = queue[1]
        /\ Tail(queue) \in Seq(Caller) /\ Len(Tail(queue)) = n - 1
        /\ \A i \in 1..(n - 1) : Tail(queue)[i] = queue[i + 1]
    BY Shifted, ZenonT(60) DEF IInv, TypeOK
  <2>2. queue' = Append(Tail(queue), j)
    BY <1>0 DEF Then
  <2> QED BY <2>1, <2>2, Appended
<1>2. /\ pc' \in [Caller -> Issued \union {"absent", "idle"}]
      /\ pc'[j] = s /\ \A k \in Caller \ {j} : pc'[k] = pc[k]
  BY DEF IInv, TypeOK, Then
<1>3. \A i \in 1..n : queue[i] \in Caller
  <2>1. queue \in Seq(Caller)
    BY DEF IInv, TypeOK
  <2> QED BY <2>1, Members
<1>4. /\ \A i \in 1..(n - 1) :
           /\ i + 1 \in 1..n /\ queue'[i] = queue[i + 1] /\ queue'[i] # j
           /\ pc'[queue'[i]] = pc[queue[i + 1]]
      /\ pc'[queue'[n]] = s
  BY <1>1, <1>2, <1>3 DEF IInv, Queued
<1>5. Queued'
  <2>1. \A i, k \in 1..n : queue'[i] = queue'[k] => i = k
    <3> SUFFICES ASSUME NEW i \in 1..n, NEW k \in 1..n, queue'[i] = queue'[k] PROVE i = k
      OBVIOUS
    <3>1. CASE i = n \/ k = n
      BY <3>1, <1>1, <1>4
    <3>2. CASE i # n /\ k # n
      BY <3>2, <1>1, <1>4 DEF IInv, Queued
    <3> QED BY <3>1, <3>2
  <2>2. ASSUME NEW i \in 1..n PROVE pc'[queue'[i]] \in Issued
    <3>1. CASE i = n
      BY <3>1, <1>4
    <3>2. CASE i # n
      BY <3>2, <1>1, <1>4 DEF IInv, Queued, At
    <3> QED BY <3>1, <3>2
  <2>3. ASSUME NEW k \in Caller, pc'[k] \in Issued
        PROVE \E i \in 1..n : queue'[i] = k
    <3>1. CASE k = j
      BY <3>1, <1>1
    <3>2. CASE k # j
      <4>1. PICK i \in 1..n : queue[i] = k
        BY <3>2, <2>3, <1>2 DEF IInv, Queued
      <4>2. i # 1
        BY <3>2, <4>1, <1>1
      <4>3. i - 1 \in 1..(n - 1) /\ (i - 1) + 1 = i
        BY <4>2, <1>1
      <4>4. queue'[i - 1] = k
        BY <4>1, <4>3, <1>1
      <4> QED BY <4>3, <4>4, <1>1
    <3> QED BY <3>1, <3>2
  <2> QED BY <1>1, <2>1, <2>2, <2>3 DEF Queued, At
<1>6. Order'
  <2>1. \A i, k \in 1..n : pc'[queue'[i]] = "param" /\ i < k => pc'[queue'[k]] = "delete"
    <3> SUFFICES ASSUME NEW i \in 1..n, NEW k \in 1..n, pc'[queue'[i]] = "param", i < k
                 PROVE  pc'[queue'[k]] = "delete"
      OBVIOUS
    <3>1. i # n /\ At(i + 1) = "param"
      BY <1>1, <1>4 DEF At
    <3>2. CASE k = n
      BY <3>1, <3>2, <1>1, <1>4
    <3>3. CASE k # n
      BY <3>1, <3>3, <1>1, <1>4 DEF IInv, Order, At
    <3> QED BY <3>2, <3>3
  <2>2. \A i \in 1..n : pc'[queue'[i]] = "on" =>
          i = n /\ \A k \in 1..n : k < i => pc'[queue'[k]] = "delete"
    BY <1>1, <1>4 DEF At
  <2>3. \A i \in 1..n : pc'[queue'[i]] \in Alone => n = 1
    <3> SUFFICES ASSUME NEW i \in 1..n, pc'[queue'[i]] \in Alone PROVE n = 1
      OBVIOUS
    <3>1. CASE i = n
      BY <3>1, <1>4
    <3>2. CASE i # n
      BY <3>2, <1>1, <1>4 DEF IInv, Order, At
    <3> QED BY <3>1, <3>2
  <2>4. \A i \in 1..n : pc'[queue'[i]] = "close" => i = 1
    <3> SUFFICES ASSUME NEW i \in 1..n, pc'[queue'[i]] = "close" PROVE i = 1
      OBVIOUS
    <3>1. CASE i = n
      BY <3>1, <1>4
    <3>2. CASE i # n
      BY <3>2, <1>1, <1>4 DEF IInv, Order, At
    <3> QED BY <3>1, <3>2
  <2> QED BY <1>1, <2>1, <2>2, <2>3, <2>4 DEF Order, At
<1> QED BY <1>1, <1>2, <1>5, <1>6

\* A caller that waited for nothing issues a statement.
LEMMA Entered ==
  ASSUME IInv, NEW j \in Caller, pc[j] = "idle", exclusive = NoOne,
         NEW s \in {"query", "explain", "param"}, Fresh(j, s)
  PROVE  /\ queue' \in Seq(Caller) /\ pc' \in [Caller -> Issued \union {"absent", "idle"}]
         /\ Queued' /\ Order'
         /\ pc'[j] = s /\ \A k \in Caller \ {j} : pc'[k] = pc[k]
<1> DEFINE n == Len(queue)
<1>0. s \in Issued /\ s \notin Inside
  BY DEF Issued, PlanRow, Capture, Inside, Alone
<1>1. /\ n \in Nat /\ queue' \in Seq(Caller) /\ Len(queue') = n + 1
      /\ \A i \in 1..n : queue'[i] = queue[i]
      /\ queue'[n + 1] = j
  <2>1. queue \in Seq(Caller) /\ queue' = Append(queue, j)
    BY DEF IInv, TypeOK, Fresh
  <2> QED BY <2>1, Appended
<1>2. /\ pc' \in [Caller -> Issued \union {"absent", "idle"}]
      /\ pc'[j] = s /\ \A k \in Caller \ {j} : pc'[k] = pc[k]
  BY <1>0 DEF IInv, TypeOK, Fresh
<1>3. \A i \in 1..n : queue[i] \in Caller /\ queue[i] # j
  <2>1. \A i \in 1..n : queue[i] \in Caller
    <3>1. queue \in Seq(Caller)
      BY DEF IInv, TypeOK
    <3> QED BY <3>1, Members
  <2>2. pc[j] \notin Issued
    BY DEF Issued, PlanRow, Capture
  <2> QED BY <2>1, <2>2 DEF IInv, Queued, At
<1>4. /\ \A i \in 1..n : queue'[i] = queue[i] /\ pc'[queue'[i]] = At(i)
      /\ pc'[queue'[n + 1]] = s
  BY <1>1, <1>2, <1>3 DEF At
<1>5. \A i \in 1..n : At(i) \notin Capture
  BY <1>3, CallersAssumption DEF IInv, Guard, At
<1>6. Queued'
  <2>1. \A i, k \in 1..(n + 1) : queue'[i] = queue'[k] => i = k
    BY <1>1, <1>3 DEF IInv, Queued
  <2>2. \A i \in 1..(n + 1) : pc'[queue'[i]] \in Issued
    BY <1>0, <1>1, <1>4 DEF IInv, Queued
  <2>3. ASSUME NEW k \in Caller, pc'[k] \in Issued
        PROVE \E i \in 1..(n + 1) : queue'[i] = k
    <3>1. CASE k = j
      BY <3>1, <1>1
    <3>2. CASE k # j
      <4>1. PICK i \in 1..n : queue[i] = k
        BY <3>2, <2>3, <1>2 DEF IInv, Queued
      <4> QED BY <4>1, <1>1
    <3> QED BY <3>1, <3>2
  <2> QED BY <1>1, <2>1, <2>2, <2>3 DEF Queued, At
<1>7. Order'
  <2>1. \A i \in 1..(n + 1) : pc'[queue'[i]] = "param" => i = n + 1
    BY <1>1, <1>4, <1>5 DEF Capture
  <2>2. \A i \in 1..(n + 1) : pc'[queue'[i]] \notin Inside
    BY <1>0, <1>1, <1>4, <1>5 DEF Capture, Inside, Alone
  <2>3. \A i \in 1..(n + 1) : pc'[queue'[i]] = "close" => i = 1
    BY <1>1, <1>4 DEF IInv, Order
  <2> QED BY <1>1, <2>1, <2>2, <2>3 DEF Order, At, Inside
<1> QED BY <1>1, <1>2, <1>6, <1>7

\* What the others wait for while j's statement is the oldest.
LEMMA Front ==
  ASSUME IInv, NEW j \in Caller, queue # <<>>, j = Head(queue)
  PROVE  /\ \A k \in Caller \ {j} : pc[k] \notin Alone \union {"close"}
         /\ \A k \in Caller \ {j} : pc[k] = "on" => pc[j] = "delete"
         /\ \A i \in 2..Len(queue) :
              /\ At(i) = "on" => pc[j] = "delete"
              /\ At(i) \in Capture => exclusive \notin {j, NoOne}
         /\ pc[j] = "param" => \A i \in 2..Len(queue) : At(i) = "delete"
         /\ pc[j] \in Inside => Len(queue) = 1
<1>1. /\ Len(queue) \in Nat \ {0} /\ j = queue[1]
  BY Shifted DEF IInv, TypeOK
<1>2. \A i \in 1..Len(queue) : queue[i] \in Caller
  <2>1. queue \in Seq(Caller)
    BY DEF IInv, TypeOK
  <2> QED BY <2>1, Members
<1>3. ASSUME NEW i \in 2..Len(queue)
      PROVE  /\ At(i) = "on" => pc[j] = "delete"
             /\ At(i) \in Capture => exclusive \notin {j, NoOne}
             /\ At(i) \notin Alone \union {"close"}
             /\ pc[j] = "param" => At(i) = "delete"
             /\ pc[j] \notin Inside
  <2>1. i \in 1..Len(queue) /\ 1 \in 1..Len(queue) /\ 1 < i /\ queue[i] # j /\ queue[i] \in Caller
    BY <1>1, <1>2 DEF IInv, Queued
  <2>2. At(i) = "on" => pc[j] = "delete"
    BY <2>1, <1>1 DEF IInv, Order, At
  <2>3. At(i) \in Capture => exclusive \notin {j, NoOne}
    BY <2>1, CallersAssumption DEF IInv, Guard, At
  <2>4. At(i) \notin Alone \union {"close"}
    BY <2>1, <1>1 DEF IInv, Order
  <2>5. pc[j] = "param" => At(i) = "delete"
    BY <2>1, <1>1 DEF IInv, Order, At
  <2>6. pc[j] \notin Inside
    BY <2>1, <1>1 DEF IInv, Order, At, Inside
  <2> QED BY <2>2, <2>3, <2>4, <2>5, <2>6
<1>4. ASSUME NEW k \in Caller \ {j}, pc[k] \in Issued
      PROVE \E i \in 2..Len(queue) : queue[i] = k
  <2>1. PICK i \in 1..Len(queue) : queue[i] = k
    BY <1>4 DEF IInv, Queued
  <2> QED BY <2>1, <1>1
<1>5. \A k \in Caller \ {j} : pc[k] \notin Alone \union {"close"}
  BY <1>3, <1>4 DEF At, Issued, Capture, Alone
<1>6. \A k \in Caller \ {j} : pc[k] = "on" => pc[j] = "delete"
  BY <1>3, <1>4 DEF At, Issued, Capture
<1>7. pc[j] \in Inside => Len(queue) = 1
  <2> SUFFICES ASSUME pc[j] \in Inside, Len(queue) # 1 PROVE FALSE
    OBVIOUS
  <2>1. \A n \in Nat \ {0} : n # 1 => 2 \in 2..n
    OBVIOUS
  <2> QED BY <2>1, <1>1, <1>3
<1> QED BY <1>3, <1>5, <1>6, <1>7

\* A call is answered with one of the answers there are.
LEMMA Settled ==
  ASSUME IInv, NEW j \in Caller, NEW a \in {"failed", "plan"}, Settle(j, a)
  PROVE  answer' \in [Tuning -> {"none", "awaited", "timed out", "failed", "plan"}]
BY DEF IInv, TypeOK, Settle

\* Initially nobody waits.
LEMMA InitInv == Init => IInv
<1> SUFFICES ASSUME Init PROVE IInv
  OBVIOUS
<1>1. TypeOK
  <2>1. pc \in [Caller -> Issued \union {"absent", "idle"}]
    BY DEF Init
  <2>2. queue \in Seq(Caller)
    BY DEF Init
  <2> QED BY <2>1, <2>2 DEF Init, TypeOK
<1>2. \A j \in Caller : pc[j] \in {"idle", "absent"}
  BY DEF Init
<1>3. \A j \in Caller : pc[j] \notin Issued
  BY <1>2 DEF Issued, PlanRow, Capture
<1>4. Queued /\ Order
  <2>1. Len(queue) = 0
    BY DEF Init
  <2> QED BY <2>1, <1>3 DEF Queued, Order
<1>5. Guard
  BY <1>3, CallersAssumption DEF Init, Guard, Issued
<1>6. Level /\ Own
  BY <1>2 DEF Init, Level, Own, Inside, Alone, Unmixed, OwnCursor
<1> QED BY <1>1, <1>4, <1>5, <1>6 DEF IInv

-----------------------------------------------------------------------------
(***************************************************************************)
(* Steps outside a capture                                                 *)
(***************************************************************************)
\* A call begins.
LEMMA Entering ==
  ASSUME IInv, NEW j \in Caller, Query(j) \/ Tune(j) \/ StartAnalyze(j) PROVE IInv'
<1>1. PICK s \in {"query", "explain", "param"} :
        Fresh(j, s) /\ (s = "param" => StartAnalyze(j))
        /\ (s # "param" => Query(j) \/ Tune(j))
  BY DEF Query, Tune, StartAnalyze
<1>2. pc[j] = "idle" /\ exclusive = NoOne
  BY DEF Query, Tune, StartAnalyze, Idle, Available
<1>3. /\ queue' \in Seq(Caller) /\ pc' \in [Caller -> Issued \union {"absent", "idle"}]
      /\ Queued' /\ Order'
      /\ pc'[j] = s /\ \A k \in Caller \ {j} : pc'[k] = pc[k]
  BY <1>1, <1>2, Entered
<1>4. UNCHANGED <<con, level, callTimeout, previous, prev, shown, tainted, excuse>>
  BY DEF Query, Tune, StartAnalyze
<1>5. TypeOK'
  <2>1. /\ exclusive' \in Caller \union {NoOne} /\ failed' \in [Caller -> BOOLEAN]
        /\ answer' \in [Tuning -> {"none", "awaited", "timed out", "failed", "plan"}]
    BY DEF IInv, TypeOK, Query, Tune, StartAnalyze
  <2> QED BY <2>1, <1>3, <1>4 DEF IInv, TypeOK
<1>6. Guard'
  <2>1. \A k \in Caller : pc[k] \notin Capture
    BY <1>2, CallersAssumption DEF IInv, Guard
  <2>2. CASE s = "param"
    BY <2>1, <2>2, <1>1, <1>3 DEF StartAnalyze, Guard, Capture
  <2>3. CASE s # "param"
    <3>1. exclusive' = exclusive /\ s \notin Capture
      BY <2>3, <1>1 DEF Query, Tune, Capture
    <3> QED BY <3>1, <2>1, <1>2, <1>3, CallersAssumption DEF Guard
  <2> QED BY <2>2, <2>3
<1>7. Level'
  <2>1. \A k \in Caller : pc'[k] \in Inside => pc[k] = pc'[k]
    BY <1>3 DEF Inside, Alone
  <2>2. \A k \in Caller : pc[k] \in Alone \union {"close"} => pc[k] = pc'[k]
    BY <1>2, <1>3 DEF Alone
  <2> QED BY <2>1, <2>2, <1>4 DEF IInv, Level, Unmixed
<1>8. Own'
  BY <1>3, <1>4 DEF IInv, Own, OwnCursor
<1> QED BY <1>3, <1>5, <1>6, <1>7, <1>8 DEF IInv

\* A statement outside a capture that does not begin one.
LEMMA Outside ==
  ASSUME IInv, NEW j \in Caller, queue # <<>>, j = Head(queue),
         pc[j] \in {"query"} \union PlanRow,
         NEW s \in {"idle"} \union PlanRow, Then(j, s),
         s \in PlanRow \ {"delete"} => exclusive = NoOne,
         s = "delete" => pc[j] # "delete",
         UNCHANGED <<con, level, exclusive, previous, excuse>>,
         callTimeout' \in {"own", "capture"}, failed' \in [Caller -> BOOLEAN],
         answer' \in [Tuning -> {"none", "awaited", "timed out", "failed", "plan"}],
         prev' \in {prev, j}, UNCHANGED <<tainted, shown>>
  PROVE  IInv'
<1>1. pc[j] \notin Capture \union Inside \union {"close"} /\ s \notin Capture \union Inside \union {"close"}
  BY DEF PlanRow, Capture, Inside, Alone
<1>2. /\ queue' \in Seq(Caller) /\ pc' \in [Caller -> Issued \union {"absent", "idle"}]
      /\ Queued' /\ Order'
      /\ pc'[j] = s /\ \A k \in Caller \ {j} : pc'[k] = pc[k]
  <2>1. CASE s = "idle"
    BY <2>1, Left
  <2>2. CASE s # "idle"
    <3>1. s \in Issued /\ s \notin Alone \union {"close", "on"}
      BY <2>2, <1>1 DEF Issued, Inside
    <3>2. s # "delete" => \A i \in 2..Len(queue) : At(i) # "param"
      BY <2>2, Front DEF Capture
    <3>3. \A i \in 2..Len(queue) : At(i) # "on"
      <4>1. CASE s = "delete"
        BY <4>1, Front
      <4>2. CASE s # "delete"
        BY <4>2, <2>2, Front DEF Capture
      <4> QED BY <4>1, <4>2
    <3> QED BY <3>1, <3>2, <3>3, Continued
  <2> QED BY <2>1, <2>2
<1>3. TypeOK'
  BY <1>2 DEF IInv, TypeOK
<1>4. Guard'
  BY <1>1, <1>2 DEF IInv, Guard
<1>5. \A k \in Caller : /\ pc[k] \notin Alone \union {"close"}
                        /\ pc'[k] \notin Alone
                        /\ pc'[k] \in Inside => pc[k] = pc'[k]
  BY <1>1, <1>2, Front DEF Inside
<1>6. Level'
  BY <1>5 DEF IInv, Level, Unmixed
<1>7. Own'
  BY <1>5 DEF IInv, Own, OwnCursor, Alone
<1> QED BY <1>2, <1>3, <1>4, <1>6, <1>7 DEF IInv

\* A statement after which its caller is done, whatever it did to the level.
LEMMA Ending ==
  ASSUME IInv, NEW j \in Caller, queue # <<>>, j = Head(queue), Then(j, "idle"),
         exclusive' = IF exclusive = j THEN NoOne ELSE exclusive,
         con' \in {con, "closed"}, level' \in {"TYPICAL", "ALL"},
         excuse' \subseteq {"onLost", "closeFailed"}, excuse \subseteq excuse',
         \/ con' = "closed" \/ excuse' # {} \/ level' = "TYPICAL"
         \/ level' = level /\ pc[j] \notin Alone \union {"close"},
         callTimeout' \in {"own", "capture"}, failed' \in [Caller -> BOOLEAN],
         answer' \in [Tuning -> {"none", "awaited", "timed out", "failed", "plan"}],
         prev' \in {prev, j}, UNCHANGED <<previous, tainted, shown>>
  PROVE  IInv'
<1>1. /\ queue' \in Seq(Caller) /\ pc' \in [Caller -> Issued \union {"absent", "idle"}]
      /\ Queued' /\ Order'
      /\ pc'[j] = "idle" /\ \A k \in Caller \ {j} : pc'[k] = pc[k]
  BY Left
<1>2. TypeOK'
  BY <1>1 DEF IInv, TypeOK
<1>3. Guard'
  BY <1>1, CallersAssumption DEF IInv, Guard, Capture
<1>4. \A k \in Caller \ {j} : pc[k] \notin Alone \union {"close"}
  BY Front
<1>5. Level'
  <2>1. ~(con' = "open" /\ excuse' = {} /\ level' = "ALL")
    <3> SUFFICES ASSUME con' = "open", excuse' = {}, level' = "ALL" PROVE FALSE
      OBVIOUS
    <3>1. con = "open" /\ excuse = {} /\ level = "ALL" /\ pc[j] \notin Alone \union {"close"}
      BY DEF IInv, TypeOK
    <3> QED BY <3>1, <1>4 DEF IInv, Level
  <2>2. \A k \in Caller : pc'[k] \in Inside /\ excuse' = {} => previous'[k] = "TYPICAL"
    BY <1>1 DEF IInv, Level, Inside, Alone
  <2> QED BY <2>1, <2>2 DEF IInv, Level, Unmixed
<1>6. Own'
  BY <1>1, <1>4 DEF IInv, Own, OwnCursor, Alone
<1> QED BY <1>1, <1>2, <1>3, <1>5, <1>6 DEF IInv

\* The parameter statement of a capture is issued behind the deletes of others.
LEMMA Beginning ==
  ASSUME IInv, NEW j \in Caller, queue # <<>>, j = Head(queue),
         pc[j] \in {"delete", "resolve"}, Then(j, "param"),
         exclusive = NoOne, exclusive' = j, callTimeout' = "capture",
         prev' \in {prev, j},
         UNCHANGED <<con, level, failed, previous, answer, shown, tainted, excuse>>
  PROVE  IInv'
<1>1. "param" \in Issued /\ "param" \notin Alone \union {"close"}
  BY DEF Issued, Capture, Alone
<1>2. \A i \in 2..Len(queue) : At(i) \notin Capture
  BY Front
<1>3. \A i \in 2..Len(queue) : At(i) # "param" /\ At(i) # "on"
  BY <1>2 DEF Capture
<1>4. /\ queue' \in Seq(Caller) /\ pc' \in [Caller -> Issued \union {"absent", "idle"}]
      /\ Queued' /\ Order'
      /\ pc'[j] = "param" /\ \A k \in Caller \ {j} : pc'[k] = pc[k]
  BY <1>1, <1>3, Continued
<1>5. TypeOK'
  BY <1>4 DEF IInv, TypeOK
<1>6. \A k \in Caller : pc[k] \notin Capture
  BY CallersAssumption DEF IInv, Guard
<1>7. Guard'
  BY <1>4, <1>6 DEF Guard, Capture
<1>8. \A k \in Caller : pc[k] \notin Alone \union {"close"} /\ pc'[k] \notin Inside
  BY <1>4, <1>6, Front DEF Inside, Alone, Capture
<1>9. Level' /\ Own'
  BY <1>8 DEF IInv, Level, Own, Unmixed, OwnCursor, Inside, Alone
<1> QED BY <1>4, <1>5, <1>7, <1>9 DEF IInv

\* A step outside a capture, of a query or of a plan that is explained.
LEMMA PlanStep ==
  ASSUME IInv, NEW j \in Caller,
         QueryRuns(j) \/ Explained(j) \/ Rows(j) \/ Deleted(j) \/ Resolved(j)
  PROVE  IInv'
<1> USE DEF Answered, Ran, PlanRow
<1>0. failed \in [Caller -> BOOLEAN] /\ callTimeout \in {"own", "capture"}
      /\ answer \in [Tuning -> {"none", "awaited", "timed out", "failed", "plan"}]
  BY DEF IInv, TypeOK
<1>1. CASE QueryRuns(j)
  <2>1. queue # <<>> /\ j = Head(queue) /\ pc[j] = "query" /\ con = "open"
    BY <1>1 DEF QueryRuns
  <2>2. ~(level = "ALL" /\ excuse = {})
    <3>1. \A k \in Caller : pc[k] \notin Alone \union {"close"}
      BY <2>1, Front DEF Alone
    <3> QED BY <2>1, <3>1 DEF IInv, Level
  <2>3. tainted' = tainted
    <3>1. tainted \in BOOLEAN
      BY DEF IInv, TypeOK
    <3>2. tainted' = (tainted \/ (level = "ALL" /\ excuse = {}))
      BY <1>1 DEF QueryRuns
    <3> QED BY <2>2, <3>1, <3>2
  <2> QED BY <1>0, <1>1, <2>1, <2>3, Outside DEF QueryRuns
<1>2. CASE Explained(j)
  <2>1. CASE Then(j, "rows") /\ Available /\ Ran(j) /\ UNCHANGED failed /\ UNCHANGED answer
    BY <1>0, <1>2, <2>1, Outside DEF Explained, Available
  <2>2. CASE Then(j, "delete") /\ failed' = [failed EXCEPT ![j] = TRUE] /\ Ran(j) /\ UNCHANGED answer
    BY <1>0, <1>2, <2>2, Outside DEF Explained
  <2>3. CASE Settle(j, "failed") /\ Then(j, "idle") /\ UNCHANGED <<prev, failed>>
    <3>1. answer' \in [Tuning -> {"none", "awaited", "timed out", "failed", "plan"}]
      BY <2>3, Settled
    <3> QED BY <1>0, <1>2, <2>3, <3>1, Outside DEF Explained
  <2> QED BY <1>2, <2>1, <2>2, <2>3 DEF Explained
<1>3. CASE Rows(j)
  <2>1. failed' \in [Caller -> BOOLEAN] /\ prev' \in {prev, j}
    BY <1>0, <1>3 DEF Rows
  <2> QED BY <1>0, <1>3, <2>1, Outside DEF Rows
<1>4. ASSUME queue # <<>>, j = Head(queue), pc[j] \in {"delete", "resolve"}, prev' \in {prev, j},
             UNCHANGED <<con, level, previous, shown, tainted, excuse>>,
             BeginCapture(j) \/ EstimateOnly(j)
      PROVE  IInv'
  <2>1. CASE Available /\ exclusive' = j /\ callTimeout' = "capture" /\ Then(j, "param")
             /\ UNCHANGED <<answer, failed>>
    BY <1>4, <2>1, Beginning DEF Available
  <2>2. CASE (Settle(j, "failed") \/ Settle(j, "plan")) /\ Then(j, "idle")
             /\ UNCHANGED <<exclusive, callTimeout, failed>>
    <3>1. answer' \in [Tuning -> {"none", "awaited", "timed out", "failed", "plan"}]
      BY <2>2, Settled
    <3> QED BY <1>0, <1>4, <2>2, <3>1, Outside
  <2> QED BY <1>4, <2>1, <2>2 DEF BeginCapture, EstimateOnly
<1>5. CASE Deleted(j)
  <2>1. /\ queue # <<>> /\ j = Head(queue) /\ pc[j] = "delete" /\ prev' \in {prev, j}
        /\ UNCHANGED <<con, level, previous, shown, tainted, excuse>>
    BY <1>5 DEF Deleted
  <2>2. CASE Settle(j, "failed") /\ Then(j, "idle") /\ UNCHANGED <<exclusive, callTimeout, failed>>
    <3>1. answer' \in [Tuning -> {"none", "awaited", "timed out", "failed", "plan"}]
      BY <2>2, Settled
    <3> QED BY <1>0, <2>1, <2>2, <3>1, Outside
  <2>3. CASE Available /\ Then(j, "resolve") /\ UNCHANGED <<answer, exclusive, callTimeout, failed>>
    BY <1>0, <2>1, <2>3, Outside DEF Available
  <2>4. CASE BeginCapture(j) \/ EstimateOnly(j)
    BY <1>4, <2>1, <2>4
  <2> QED BY <1>5, <2>2, <2>3, <2>4 DEF Deleted
<1>6. CASE Resolved(j)
  BY <1>4, <1>6 DEF Resolved
<1> QED BY <1>1, <1>2, <1>3, <1>5, <1>6

-----------------------------------------------------------------------------
(***************************************************************************)
(* Steps of a capture                                                      *)
(***************************************************************************)
\* A capture fails before its level is set.
LEMMA EarlyFailure ==
  ASSUME IInv, NEW j \in Caller, queue # <<>>, j = Head(queue),
         pc[j] \in {"param", "on"}, FailsEarly(j),
         \/ UNCHANGED <<level, excuse>>
         \/ level' = "ALL" /\ excuse' = excuse \union {"onLost"},
         UNCHANGED <<con, previous, prev, shown, tainted>>
  PROVE  IInv'
<1>1. answer' \in [Tuning -> {"none", "awaited", "timed out", "failed", "plan"}]
  BY Settled DEF FailsEarly
<1>2. exclusive = j
  BY DEF IInv, Guard, Capture
<1>3. failed' \in [Caller -> BOOLEAN]
  BY DEF FailsEarly, Fail, IInv, TypeOK
<1>4. excuse' \subseteq {"onLost", "closeFailed"} /\ level' \in {"TYPICAL", "ALL"}
  BY DEF IInv, TypeOK
<1> QED BY <1>1, <1>2, <1>3, <1>4, Ending DEF FailsEarly, IInv, TypeOK, Alone

\* A statement of a capture that has another behind it.
LEMMA Proceeding ==
  ASSUME IInv, NEW j \in Caller, queue # <<>>, j = Head(queue),
         pc[j] \in {"param", "on"} \union Alone,
         NEW s \in Inside, Then(j, s), s = "on" <=> pc[j] = "param",
         con = "open", con' = con, exclusive' = exclusive, callTimeout' = callTimeout,
         answer' = answer, excuse' = excuse, tainted' = tainted,
         level' \in {"TYPICAL", "ALL"}, level' = level \/ s # "on",
         failed' \in [Caller -> BOOLEAN], prev' \in {prev, j},
         previous' = IF s = "on" THEN [previous EXCEPT ![j] = level] ELSE previous,
         s = "cursor" => prev' = j,
         shown' = shown
  PROVE  IInv'
<1>1. /\ s \in Issued /\ s # "delete" /\ s # "close" /\ s \in Capture
      /\ "param" \notin Alone /\ "on" \notin Alone
  BY DEF Inside, Alone, Issued, Capture
<1>2. exclusive = j
  BY DEF IInv, Guard, Capture, Alone
<1>3. /\ \A i \in 2..Len(queue) : At(i) # "param" /\ At(i) # "on"
      /\ s = "on" => \A i \in 2..Len(queue) : At(i) = "delete"
      /\ s \in Alone => Len(queue) = 1
  BY <1>1, <1>2, Front DEF Capture, Inside
<1>4. /\ queue' \in Seq(Caller) /\ pc' \in [Caller -> Issued \union {"absent", "idle"}]
      /\ Queued' /\ Order'
      /\ pc'[j] = s /\ \A k \in Caller \ {j} : pc'[k] = pc[k]
  BY <1>1, <1>3, Continued
<1>5. previous' \in [Caller -> {"TYPICAL", "ALL"}]
  BY DEF IInv, TypeOK
<1>6. TypeOK'
  BY <1>4, <1>5 DEF IInv, TypeOK
<1>7. Guard'
  BY <1>1, <1>2, <1>4 DEF IInv, Guard
<1>8. \A k \in Caller \ {j} : pc[k] \notin Inside \union {"close"}
  BY <1>2, Front, CallersAssumption DEF IInv, Guard, Inside, Alone, Capture
<1>9. Level'
  <2>1. con = "open" /\ excuse = {} /\ level' = "ALL" => s \in Alone
    <3> SUFFICES ASSUME con = "open", excuse = {}, level' = "ALL", s = "on" PROVE FALSE
      BY DEF Inside
    <3>1. level = "ALL" /\ pc[j] = "param"
      OBVIOUS
    <3>2. pc[j] \notin Alone \union {"close"}
      BY <3>1 DEF Alone
    <3> QED BY <3>1, <3>2, <1>8 DEF IInv, Level, Inside
  <2>2. ASSUME excuse = {} PROVE previous'[j] = "TYPICAL"
    <3>1. CASE s = "on"
      <4>1. pc[j] \notin Alone \union {"close"}
        BY <3>1 DEF Alone
      <4>2. level = "TYPICAL"
        BY <2>2, <4>1, <1>8 DEF IInv, Level, TypeOK, Inside
      <4> QED BY <3>1, <4>2 DEF IInv, TypeOK
    <3>2. CASE s # "on"
      <4>1. pc[j] \in Inside
        BY <3>2 DEF Inside
      <4> QED BY <2>2, <3>2, <4>1 DEF IInv, Level
    <3> QED BY <3>1, <3>2
  <2>3. \A k \in Caller : pc'[k] \in Inside => k = j
    BY <1>4, <1>8
  <2> QED BY <1>4, <2>1, <2>2, <2>3 DEF IInv, Level, Unmixed
<1>10. Own'
  BY <1>4, <1>8 DEF IInv, Own, OwnCursor, Inside, Alone
<1> QED BY <1>4, <1>6, <1>7, <1>9, <1>10 DEF IInv

\* A step of a capture under its level.
LEMMA CaptureStep ==
  ASSUME IInv, NEW j \in Caller,
         Param(j) \/ On(j) \/ Select(j) \/ Cursor(j) \/ Display(j)
  PROVE  IInv'
<1> USE DEF Answered, Ran, Inside, Alone
<1>0. /\ failed \in [Caller -> BOOLEAN] /\ callTimeout \in {"own", "capture"}
      /\ level \in {"TYPICAL", "ALL"}
      /\ Fail(j) => failed' \in [Caller -> BOOLEAN]
  BY DEF IInv, TypeOK, Fail
<1>1. CASE Param(j)
  <2>1. CASE FailsEarly(j) /\ UNCHANGED <<previous, prev>>
    <3>1. UNCHANGED <<con, level, shown, tainted, excuse>> /\ queue # <<>> /\ j = Head(queue)
          /\ pc[j] = "param"
      BY <1>1 DEF Param
    <3> QED BY <2>1, <3>1, EarlyFailure
  <2>2. CASE /\ Ran(j) /\ previous' = [previous EXCEPT ![j] = level] /\ Then(j, "on")
             /\ UNCHANGED <<exclusive, callTimeout, answer, failed>>
    BY <1>0, <1>1, <2>2, Proceeding DEF Param
  <2> QED BY <1>1, <2>1, <2>2 DEF Param
<1>2. CASE On(j)
  <2>1. CASE FailsEarly(j) /\ UNCHANGED prev
             /\ \/ UNCHANGED <<level, excuse>>
                \/ level' = "ALL" /\ excuse' = excuse \union {"onLost"}
    BY <1>2, <2>1, EarlyFailure DEF On
  <2>2. CASE Ran(j) /\ level' = "ALL" /\ Then(j, "select")
             /\ UNCHANGED <<exclusive, callTimeout, answer, failed, excuse>>
    BY <1>0, <1>2, <2>2, Proceeding DEF On
  <2> QED BY <1>2, <2>1, <2>2 DEF On
<1>3. CASE Select(j)
  BY <1>0, <1>3, Proceeding DEF Select
<1>4. CASE Cursor(j)
  <2>1. CASE Fail(j) /\ Then(j, "restore") /\ UNCHANGED <<prev, shown>>
    BY <1>0, <1>4, <2>1, Proceeding DEF Cursor
  <2>2. CASE Ran(j) /\ Then(j, "display") /\ shown' = (shown \/ prev # j) /\ UNCHANGED failed
    <3>1. prev = j
      BY <1>4 DEF Cursor, IInv, Own
    <3>2. shown \in BOOLEAN
      BY DEF IInv, TypeOK
    <3>3. shown' = shown
      BY <2>2, <3>1, <3>2
    <3> QED BY <1>0, <1>4, <2>2, <3>3, Proceeding DEF Cursor
  <2> QED BY <1>4, <2>1, <2>2 DEF Cursor
<1>5. CASE Display(j)
  BY <1>0, <1>5, Proceeding DEF Display
<1> QED BY <1>1, <1>2, <1>3, <1>4, <1>5

\* The level is given back.
LEMMA RestoreStep == ASSUME IInv, NEW j \in Caller, Restore(j) PROVE IInv'
<1>1. /\ queue # <<>> /\ j = Head(queue) /\ pc[j] = "restore" /\ con = "open"
      /\ UNCHANGED <<con, previous, shown, tainted, excuse>>
  BY DEF Restore, Answered
<1>2. exclusive = j
  BY <1>1 DEF IInv, Guard, Capture
<1>3. previous[j] \in {"TYPICAL", "ALL"} /\ (excuse = {} => previous[j] = "TYPICAL")
  BY <1>1 DEF IInv, TypeOK, Level, Inside, Alone
<1>4. CASE Ran(j) /\ level' = previous[j] /\ Leave(j) /\ Then(j, "idle") /\ UNCHANGED failed
  <2>1. answer' \in [Tuning -> {"none", "awaited", "timed out", "failed", "plan"}]
    BY <1>4, Settled DEF Leave
  <2>2. failed \in [Caller -> BOOLEAN] /\ excuse \subseteq {"onLost", "closeFailed"}
    BY DEF IInv, TypeOK
  <2> QED BY <1>1, <1>2, <1>3, <1>4, <2>1, <2>2, Ending DEF Ran, Leave
<1>5. CASE /\ exclusive' = NoOne /\ callTimeout' = "own" /\ Then(j, "close") /\ Fail(j)
           /\ level' \in {level} \union (IF LostAnswers THEN {previous[j]} ELSE {})
           /\ UNCHANGED <<prev, answer>>
  <2>1. Len(queue) = 1
    BY <1>1, Front DEF Inside, Alone
  <2>2. "close" \in Issued /\ "close" \notin Capture /\ "close" \notin Inside
    BY DEF Issued, Capture, Inside, Alone
  <2>3. /\ queue' \in Seq(Caller) /\ pc' \in [Caller -> Issued \union {"absent", "idle"}]
        /\ Queued' /\ Order'
        /\ pc'[j] = "close" /\ \A k \in Caller \ {j} : pc'[k] = pc[k]
    BY <1>1, <1>5, <2>1, <2>2, Continued
  <2>4. level' \in {"TYPICAL", "ALL"} /\ failed' \in [Caller -> BOOLEAN]
    BY <1>3, <1>5 DEF Fail, IInv, TypeOK
  <2>5. TypeOK'
    BY <1>1, <1>5, <2>3, <2>4 DEF IInv, TypeOK
  <2>6. Guard'
    BY <1>2, <1>5, <2>2, <2>3, CallersAssumption DEF IInv, Guard
  <2>7. \A k \in Caller : pc'[k] \notin Alone
    BY <1>1, <2>2, <2>3, Front DEF Inside
  <2>8. Level'
    <3>1. \A k \in Caller : pc'[k] \in Inside => pc[k] \in Inside
      BY <2>2, <2>3
    <3> QED BY <1>1, <2>3, <3>1 DEF IInv, Level, Unmixed
  <2>9. Own'
    BY <1>1, <2>7 DEF IInv, Own, OwnCursor, Alone
  <2> QED BY <2>3, <2>5, <2>6, <2>8, <2>9 DEF IInv
<1> QED BY <1>1, <1>4, <1>5 DEF Restore

\* The connection is closed, or what waits on a closed one is rejected.
LEMMA CloseStep == ASSUME IInv, NEW j \in Caller, Closed(j) \/ Rejected(j) PROVE IInv'
<1>1. answer' \in [Tuning -> {"none", "awaited", "timed out", "failed", "plan"}]
  BY Settled DEF Closed, Rejected
<1>2. /\ failed \in [Caller -> BOOLEAN] /\ callTimeout \in {"own", "capture"}
      /\ level \in {"TYPICAL", "ALL"} /\ excuse \subseteq {"onLost", "closeFailed"}
  BY DEF IInv, TypeOK
<1>3. CASE Closed(j)
  <2>1. exclusive # j
    BY <1>3 DEF Closed, Answered, IInv, Guard, Capture
  <2> QED BY <1>1, <1>2, <1>3, <2>1, Ending DEF Closed, Answered
<1>4. CASE Rejected(j)
  BY <1>1, <1>2, <1>4, Ending DEF Rejected
<1> QED BY <1>3, <1>4

\* The deadline of a call passes.
LEMMA DeadlineStep == ASSUME IInv, NEW j \in Caller, Deadline(j) PROVE IInv'
<1> USE DEF Deadline, IInv
<1>1. TypeOK'
  BY DEF TypeOK
<1>2. Queued' /\ Guard' /\ Order'
  BY ZenonT(60) DEF Queued, Guard, Order, At
<1>3. Level'
  BY DEF Level, Unmixed
<1>4. Own'
  BY DEF Own, OwnCursor
<1> QED BY <1>1, <1>2, <1>3, <1>4

\* The connection is opened again.
LEMMA ConnectStep == ASSUME IInv, Connect PROVE IInv'
<1> USE DEF Connect, IInv
<1>1. TypeOK'
  BY DEF TypeOK
<1>2. Queued' /\ Guard' /\ Order'
  BY DEF Queued, Guard, Order, At
<1>3. \A j \in Caller : pc[j] \notin Issued
  <2>1. Len(queue) = 0
    OBVIOUS
  <2> QED BY <2>1 DEF Queued
<1>4. Level' /\ Own'
  BY <1>3 DEF Level, Own, Unmixed, OwnCursor, Issued, Capture, Inside, Alone
<1> QED BY <1>1, <1>2, <1>4

\* The invariant holds in every state that is reached, for any callers.
THEOREM Invariance == Spec => []IInv
<1>1. IInv /\ [Next]_vars => IInv'
  <2> SUFFICES ASSUME IInv, [Next]_vars PROVE IInv'
    OBVIOUS
  <2>1. ASSUME NEW j \in Caller, Query(j) \/ Tune(j) \/ StartAnalyze(j) PROVE IInv'
    BY <2>1, Entering
  <2>2. ASSUME NEW j \in Caller, Runs(j) PROVE IInv'
    BY <2>2, PlanStep, CaptureStep, RestoreStep, CloseStep DEF Runs
  <2>3. CASE UNCHANGED vars
    <3> USE <2>3 DEF vars, IInv
    <3>1. TypeOK'
      BY DEF TypeOK
    <3>2. Queued' /\ Guard' /\ Order'
      BY DEF Queued, Guard, Order, At
    <3>3. Level'
      BY DEF Level, Unmixed
    <3>4. Own'
      BY DEF Own, OwnCursor
    <3> QED BY <3>1, <3>2, <3>3, <3>4
  <2> QED BY <2>1, <2>2, <2>3, DeadlineStep, ConnectStep DEF Next
<1> QED BY <1>1, InitInv, PTL DEF Spec

\* Typing of the connection, its queue and the callers.
THEOREM TypeCorrect == Spec => []TypeOK
<1>1. IInv => TypeOK
  BY DEF IInv
<1> QED BY <1>1, Invariance, PTL

\* Whatever fails during a capture and whoever else uses the connection, a
\* session that callers may use has its own STATISTICS_LEVEL, but for a lost
\* ALTER SESSION or a close that failed (collectPerformanceTuningActualPlan).
THEOREM LevelComesBack == Spec => []LevelRestored
<1>1. ASSUME IInv PROVE LevelRestored
  <2> SUFFICES ASSUME exclusive = NoOne, con = "open", ~Closing, excuse = {} PROVE level = "TYPICAL"
    BY DEF LevelRestored, Available
  <2>1. \A j \in Caller : pc[j] \notin Alone \union {"close"}
    BY <1>1, CallersAssumption DEF IInv, Guard, Closing, Alone, Capture
  <2> QED BY <1>1, <2>1 DEF IInv, Level, TypeOK
<1> QED BY <1>1, Invariance, PTL

\* No statement of a user runs under the level of a capture, though the guard
\* is looked at only when the statement is issued (requestSqlSub).
THEOREM NeverMixed == Spec => []Unmixed
<1>1. IInv => Unmixed
  BY DEF IInv, Level
<1> QED BY <1>1, Invariance, PTL

\* A capture shows its own cursor: the deletes other calls issue without a
\* look at the guard are before its SELECT (collectPerformanceTuningPlanRows).
THEOREM CursorIsOwn == Spec => []OwnCursor
<1>1. IInv => OwnCursor
  BY DEF IInv, Own
<1> QED BY <1>1, Invariance, PTL

-----------------------------------------------------------------------------
\* A set of numbers has a least one.
LEMMA LeastElement ==
  ASSUME NEW T \in SUBSET Nat, T # {}
  PROVE  \E x \in T : \A y \in T : x <= y
<1>1. PICK x \in T : \A y \in T : <<y, x>> \notin OpToRel(<, Nat)
  BY WFMin, NatLessThanWellFounded, Zenon
<1>2. ASSUME NEW y \in T PROVE ~ (y < x)
  BY <1>1, Zenon DEF OpToRel
<1>3. \A y \in T : x <= y
  BY <1>2
<1> QED BY <1>3

\* The tables whose sections are collected.
Collected == (1 .. Rdb!Least(resolved, MaxTables)) \X Rdb!Sections

\* What is left out is told: tables, sections in part, the version.
Told ==
  /\ notes \in Nat
  /\ resolved > MaxTables => notes > 0
  /\ partial # {} => notes > 0
  /\ ~version => notes > 0

\* Once the plan has named the tables, a section is awaited, taken or missing.
Divided ==
  /\ \A x : x \in pending \/ x \in full \/ x \in partial \/ x \in missing <=> x \in Collected
  /\ \A x \in full \union partial : x \notin missing
  /\ \A x \in pending : x \notin full \union partial \union missing

\* The sizes are numbers.
Sized ==
  /\ resolved \in Nat /\ maxPayload \in Nat
  /\ IsFiniteSet(full) /\ IsFiniteSet(partial) /\ IsFiniteSet(missing)

\* The inductive invariant of TuningContext.
RdbInv ==
  /\ stage \in {"idle", "plan", "sections", "budget", "done"}
  /\ resolved \in Nat /\ (stage # "idle" => maxPayload \in Nat)
  /\ stage \in {"idle", "plan"} => /\ resolved = 0 /\ full = {} /\ partial = {} /\ missing = {}
                                   /\ version = TRUE
  /\ stage \in {"sections", "budget"} => Told /\ Divided
  /\ stage = "budget" => pending = {}
  /\ stage # "done" => ~context.ok
  /\ Rdb!CompleteIsComplete /\ Rdb!NothingUnaccounted /\ Rdb!WithinPayload

\* Nothing was called.
LEMMA RdbInit == Rdb!Init => RdbInv
BY DEF Rdb!Init, Rdb!NoContext, RdbInv, Rdb!CompleteIsComplete, Rdb!NothingUnaccounted,
       Rdb!WithinPayload

\* A context that was not returned says nothing.
LEMMA RdbSilent ==
  ~context.ok => Rdb!CompleteIsComplete /\ Rdb!NothingUnaccounted /\ Rdb!WithinPayload
BY DEF Rdb!CompleteIsComplete, Rdb!NothingUnaccounted, Rdb!WithinPayload

\* There is a least and a greatest number of tables.
LEMMA LeastIs == ASSUME NEW a \in Nat, NEW b \in Nat
                 PROVE  /\ Rdb!Least(a, b) \in Nat /\ Rdb!Least(a, b) <= a
                        /\ a <= b => Rdb!Least(a, b) = a
BY DEF Rdb!Least

\* A call, and one that ends without a plan.
LEMMA RdbCalls == ASSUME RdbInv, Rdb!Call \/ Rdb!PlanFails PROVE RdbInv'
<1>1. CASE Rdb!Call
  <2>1. stage = "idle" /\ stage' = "plan" /\ maxPayload' \in Nat
        /\ UNCHANGED <<resolved, pending, full, partial, missing, notes, version, context>>
    BY <1>1, LimitsAssumption DEF Rdb!Call
  <2>2. ~context'.ok
    BY <2>1 DEF RdbInv
  <2>3. (Rdb!CompleteIsComplete /\ Rdb!NothingUnaccounted /\ Rdb!WithinPayload)'
    BY <2>2 DEF Rdb!CompleteIsComplete, Rdb!NothingUnaccounted, Rdb!WithinPayload
  <2> QED BY <2>1, <2>2, <2>3 DEF RdbInv
<1>2. CASE Rdb!PlanFails
  <2>1. /\ stage = "plan" /\ stage' = "done" /\ ~context'.ok
        /\ UNCHANGED <<resolved, maxPayload, pending, full, partial, missing, notes, version>>
    BY <1>2 DEF Rdb!PlanFails, Rdb!End, Rdb!NoContext
  <2>2. (Rdb!CompleteIsComplete /\ Rdb!NothingUnaccounted /\ Rdb!WithinPayload)'
    BY <2>1 DEF Rdb!CompleteIsComplete, Rdb!NothingUnaccounted, Rdb!WithinPayload
  <2> QED BY <2>1, <2>2 DEF RdbInv
<1> QED BY <1>1, <1>2

\* The plan names the tables.
LEMMA RdbPlanned == ASSUME RdbInv, Rdb!Planned PROVE RdbInv'
<1>1. /\ stage = "plan" /\ stage' = "sections" /\ resolved' \in Nat
      /\ pending' = (1 .. Rdb!Least(resolved', MaxTables)) \X Rdb!Sections
      /\ UNCHANGED <<maxPayload, full, partial, missing, version, context>>
      /\ \E d \in 0 .. 1 : notes' = IF resolved' > MaxTables THEN d + 1 ELSE d
  BY LimitsAssumption DEF Rdb!Planned
<1>2. /\ full = {} /\ partial = {} /\ missing = {} /\ version = TRUE /\ ~context.ok
      /\ maxPayload \in Nat
  BY <1>1 DEF RdbInv
<1>3. Told'
  BY <1>1, <1>2, LimitsAssumption DEF Told
<1>4. Divided'
  BY <1>1, <1>2 DEF Divided, Collected
<1>5. (Rdb!CompleteIsComplete /\ Rdb!NothingUnaccounted /\ Rdb!WithinPayload)'
  BY <1>1, <1>2 DEF Rdb!CompleteIsComplete, Rdb!NothingUnaccounted, Rdb!WithinPayload
<1> QED BY <1>1, <1>2, <1>3, <1>4, <1>5 DEF RdbInv

\* An answer comes, or the deadline of the sections.
LEMMA RdbCollects == ASSUME RdbInv, Rdb!Collect \/ Rdb!Deadline PROVE RdbInv'
<1>1. /\ stage = "sections" /\ pending # {} /\ stage' = stage
      /\ UNCHANGED <<resolved, maxPayload, version, context>>
  BY DEF Rdb!Collect, Rdb!Deadline
<1>2. Told /\ Divided /\ ~context.ok /\ resolved \in Nat /\ maxPayload \in Nat
  BY <1>1 DEF RdbInv
<1>3. (Rdb!CompleteIsComplete /\ Rdb!NothingUnaccounted /\ Rdb!WithinPayload)'
  BY <1>1, <1>2 DEF Rdb!CompleteIsComplete, Rdb!NothingUnaccounted, Rdb!WithinPayload
<1>4. CASE Rdb!Collect
  <2>1. PICK x : /\ x = CHOOSE y \in pending : \A z \in pending : y[1] <= z[1]
                 /\ Rdb!Collected(x) /\ pending' = pending \ {x}
    BY <1>4 DEF Rdb!Collect
  <2>2. x \in pending
    <3>1. PICK T : T = {y[1] : y \in pending}
      OBVIOUS
    <3>2. \A y \in pending : y[1] \in Nat
      BY <1>2 DEF Divided, Collected
    <3>3. T \in SUBSET Nat /\ T # {}
      BY <1>1, <3>1, <3>2
    <3>4. PICK l \in T : \A y \in T : l <= y
      BY <3>3, LeastElement
    <3>5. PICK y \in pending : y[1] = l
      BY <3>1, <3>4
    <3>6. \A z \in pending : y[1] <= z[1]
      BY <3>1, <3>4, <3>5
    <3> QED BY <2>1, <3>6
  <2>3. \/ full' = full \union {x} /\ UNCHANGED <<partial, notes, missing>>
        \/ partial' = partial \union {x} /\ notes' = notes + 1 /\ UNCHANGED <<full, missing>>
        \/ missing' = missing \union {x} /\ UNCHANGED <<full, partial, notes>>
    BY <2>1 DEF Rdb!Collected
  <2>4. Told'
    BY <1>1, <1>2, <2>3 DEF Told
  <2>5. Collected' = Collected
    BY <1>1 DEF Collected
  <2>6. Divided'
    BY <1>2, <2>1, <2>2, <2>3, <2>5 DEF Divided
  <2> QED BY <1>1, <1>2, <1>3, <2>4, <2>6 DEF RdbInv
<1>5. CASE Rdb!Deadline
  <2>1. /\ missing' = missing \union pending /\ pending' = {}
        /\ UNCHANGED <<full, partial, notes>>
    BY <1>5 DEF Rdb!Deadline
  <2>2. Told'
    BY <1>1, <1>2, <2>1 DEF Told
  <2>3. Collected' = Collected
    BY <1>1 DEF Collected
  <2>4. Divided'
    BY <1>2, <2>1, <2>3 DEF Divided
  <2> QED BY <1>1, <1>2, <1>3, <2>2, <2>4 DEF RdbInv
<1> QED BY <1>4, <1>5

\* The version is asked for.
LEMMA RdbVersion == ASSUME RdbInv, Rdb!Version PROVE RdbInv'
<1>1. /\ stage = "sections" /\ pending = {} /\ stage' = "budget"
      /\ UNCHANGED <<resolved, maxPayload, pending, full, partial, missing, context>>
      /\ UNCHANGED <<version, notes>> \/ (version' = FALSE /\ notes' = notes + 1)
  BY DEF Rdb!Version
<1>2. Told /\ Divided /\ ~context.ok
  BY <1>1 DEF RdbInv
<1>3. (Rdb!CompleteIsComplete /\ Rdb!NothingUnaccounted /\ Rdb!WithinPayload)'
  BY <1>1, <1>2 DEF Rdb!CompleteIsComplete, Rdb!NothingUnaccounted, Rdb!WithinPayload
<1>4. Told'
  BY <1>1, <1>2 DEF Told
<1>5. Divided'
  BY <1>1, <1>2 DEF Divided, Collected
<1> QED BY <1>1, <1>2, <1>3, <1>4, <1>5 DEF RdbInv

\* The greatest of some numbers.
LEMMA GreatestElement ==
  ASSUME NEW n \in Nat, NEW M \in SUBSET (0 .. n), M # {}
  PROVE  Rdb!Max(M) \in M /\ \A y \in M : Rdb!Max(M) >= y
<1>1. PICK T : T = {x \in 0 .. n : n - x \in M}
  OBVIOUS
<1>2. T \in SUBSET Nat /\ T # {}
  <2>1. PICK y \in M : TRUE
    OBVIOUS
  <2>2. n - y \in 0 .. n /\ n - (n - y) = y
    BY <2>1
  <2>3. n - y \in T
    BY <1>1, <2>1, <2>2
  <2> QED BY <1>1, <2>3
<1>3. PICK x \in T : \A y \in T : x <= y
  BY <1>2, LeastElement
<1>4. n - x \in M /\ x \in 0 .. n
  BY <1>1, <1>3
<1>5. ASSUME NEW y \in M PROVE n - x >= y
  <2>1. n - y \in 0 .. n /\ n - (n - y) = y /\ y \in 0 .. n
    OBVIOUS
  <2>2. n - y \in T
    BY <1>1, <2>1
  <2>3. x <= n - y
    BY <1>3, <2>2
  <2> QED BY <1>4, <2>1, <2>3
<1>6. \E z \in M : \A y \in M : z >= y
  BY <1>4, <1>5
<1> QED BY <1>6, Zenon DEF Rdb!Max

\* What is left of the tables and the plan when the payload has been cut.
LEMMA KeptIs ==
  ASSUME resolved \in Nat
  PROVE  /\ Rdb!Kept \in 0 .. Rdb!Least(resolved, MaxTables)
         /\ Rdb!Cardinality(Rdb!Tables) = Rdb!Least(resolved, MaxTables)
         /\ ~Rdb!Fits(Rdb!Kept, TRUE) => Rdb!Kept = 0
<1>1. PICK t \in Nat : t = Rdb!Least(resolved, MaxTables)
  BY LeastIs, LimitsAssumption
<1>2. Cardinality(1 .. t) = t
  BY <1>1, FS_Interval
<1>3. Rdb!Cardinality(Rdb!Tables) = t /\ Cardinality(Rdb!Tables) = t
  <2>1. \A S : Rdb!Cardinality(S) = Cardinality(S)
    BY Zenon DEF Rdb!Cardinality, Cardinality
  <2> QED BY <1>1, <1>2, <2>1 DEF Rdb!Tables
<1>4. PICK M : M = {n \in 0 .. t : Rdb!Fits(n, TRUE)}
  OBVIOUS
<1>5. Rdb!Kept = IF M = {} THEN 0 ELSE Rdb!Max(M)
  BY <1>3, <1>4 DEF Rdb!Kept
<1>6. M # {} => Rdb!Max(M) \in M
  BY <1>1, <1>4, GreatestElement
<1>7. PICK K : K = Rdb!Kept
  OBVIOUS
<1>8. K \in 0 .. t /\ (~Rdb!Fits(K, TRUE) => K = 0)
  <2>1. CASE M = {}
    BY <1>1, <1>5, <1>7, <2>1
  <2>2. CASE M # {}
    BY <1>4, <1>5, <1>6, <1>7, <2>2
  <2> QED BY <2>1, <2>2
<1>9. ~Rdb!Fits(Rdb!Kept, TRUE) => Rdb!Kept = 0
  BY <1>7, <1>8
<1> QED BY <1>1, <1>3, <1>7, <1>8, <1>9

\* The sections that may be collected are finitely many.
LEMMA SizeIsNumber ==
  ASSUME resolved \in Nat, notes \in Nat, Divided, NEW n \in Nat, NEW p \in BOOLEAN, NEW k \in 0 .. 1
  PROVE  Rdb!SizeOf(n, p, k) \in Nat
<1>1. PICK t \in Nat : t = Rdb!Least(resolved, MaxTables)
  BY LeastIs, LimitsAssumption
<1>2. IsFiniteSet(1 .. t) /\ IsFiniteSet(Rdb!Sections)
  <2>1. IsFiniteSet(1 .. t)
    BY <1>1, FS_Interval
  <2>2. IsFiniteSet({"tableDefinition"})
    BY FS_Singleton
  <2>3. IsFiniteSet({"tableDefinition", "tableStatistics"})
    BY <2>2, FS_AddElement
  <2>4. IsFiniteSet({"tableDefinition", "tableStatistics", "columnStatistics"})
    BY <2>3, FS_AddElement
  <2>5. IsFiniteSet({"tableDefinition", "tableStatistics", "columnStatistics"} \union {"physicalHealth"})
    BY <2>4, FS_AddElement
  <2> QED BY <2>1, <2>5 DEF Rdb!Sections
<1>3. IsFiniteSet(Collected)
  BY <1>1, <1>2, FS_Product DEF Collected
<1>4. PICK A : A = {x \in full \union partial : x[1] <= n}
  OBVIOUS
<1>5. PICK D : D = Rdb!Dropped(n)
  OBVIOUS
<1>6. A \subseteq Collected /\ missing \subseteq Collected /\ D \subseteq Collected
  <2>1. A \subseteq Collected /\ missing \subseteq Collected
    BY <1>4 DEF Divided
  <2>2. D \subseteq Collected
    BY <1>5 DEF Rdb!Dropped, Rdb!Tables, Collected
  <2> QED BY <2>1, <2>2
<1>7. Cardinality(A) \in Nat /\ Cardinality(missing) \in Nat /\ Cardinality(D) \in Nat
  BY <1>3, <1>6, FS_Subset, FS_CardinalityType
<1>8. \A S : Rdb!Cardinality(S) = Cardinality(S)
  BY Zenon DEF Rdb!Cardinality, Cardinality
<1>9. Rdb!Cardinality(A) \in Nat /\ Rdb!Cardinality(missing) \in Nat /\ Rdb!Cardinality(D) \in Nat
  BY <1>7, <1>8
<1> QED BY <1>4, <1>5, <1>9 DEF Rdb!SizeOf, Rdb!BaseSize, Rdb!PlanSize, Rdb!PartSize, Rdb!NoteSize

\* The context is cut to its limit and returned, or not.
LEMMA RdbFinish == ASSUME RdbInv, Rdb!Finish PROVE RdbInv'
<1>1. /\ stage = "budget" /\ stage' = "done"
      /\ UNCHANGED <<resolved, maxPayload, pending, full, partial, missing, notes, version>>
  BY DEF Rdb!Finish
<1>2. /\ Told /\ Divided /\ pending = {} /\ resolved \in Nat /\ maxPayload \in Nat
  BY <1>1 DEF RdbInv
<1>3. PICK n : n = Rdb!Kept
  OBVIOUS
<1>4. PICK p : p = Rdb!Fits(n, TRUE)
  OBVIOUS
<1>5. PICK k : k = IF n = Rdb!Cardinality(Rdb!Tables) /\ p THEN 0 ELSE 1
  OBVIOUS
<1>6. PICK t \in Nat : t = Rdb!Least(resolved, MaxTables)
  BY <1>2, LeastIs, LimitsAssumption
<1>7. /\ n \in 0 .. t /\ (~p => n = 0) /\ p \in BOOLEAN /\ k \in 0 .. 1
      /\ k = 0 => n = t /\ p
  <2>1. /\ n \in 0 .. t /\ Rdb!Cardinality(Rdb!Tables) = t /\ (~Rdb!Fits(n, TRUE) => n = 0)
    BY <1>2, <1>3, <1>6, KeptIs
  <2>2. p \in BOOLEAN
    BY <1>4 DEF Rdb!Fits
  <2>3. ~p => n = 0
    BY <1>4, <2>1, Zenon
  <2>4. k = IF n = t /\ p THEN 0 ELSE 1
    BY <1>5, <2>1, <1>6, KeptIs, <1>2
  <2>5. k \in 0 .. 1 /\ (k = 0 => n = t /\ p)
    <3>1. CASE n = t /\ p
      BY <2>4, <3>1
    <3>2. CASE ~(n = t /\ p)
      BY <2>4, <3>2
    <3> QED BY <3>1, <3>2
  <2> QED BY <2>1, <2>2, <2>3, <2>5
<1>8. CASE Rdb!TooLarge(n, p, k)
  <2>1. ~context'.ok
    BY <1>3, <1>4, <1>5, <1>8 DEF Rdb!Finish, Rdb!NoContext
  <2>2. (Rdb!CompleteIsComplete /\ Rdb!NothingUnaccounted /\ Rdb!WithinPayload)'
    BY <2>1 DEF Rdb!CompleteIsComplete, Rdb!NothingUnaccounted, Rdb!WithinPayload
  <2> QED BY <1>1, <1>2, <2>1, <2>2 DEF RdbInv
<1>9. CASE ~Rdb!TooLarge(n, p, k)
  <2>1. context' = [ok |-> TRUE, status |-> Rdb!Status(k = 1), tables |-> n, plan |-> p,
                    missing |-> missing \union Rdb!Dropped(n)
                                \union (IF p THEN {} ELSE {Rdb!PlanPart}),
                    size |-> Rdb!SizeOf(n, p, k)]
    BY <1>3, <1>4, <1>5, <1>9, Zenon DEF Rdb!Finish
  <2>2. Rdb!WithinPayload'
    <3>1. Rdb!SizeOf(n, p, k) \in Nat
      <4>1. notes \in Nat /\ n \in Nat
        BY <1>2, <1>6, <1>7 DEF Told
      <4> QED BY <1>2, <1>7, <4>1, SizeIsNumber
    <3>2. Rdb!SizeOf(n, p, k) <= maxPayload
      BY <1>2, <1>9, <3>1 DEF Rdb!TooLarge
    <3> QED BY <1>1, <2>1, <3>2 DEF Rdb!WithinPayload
  <2>3. Rdb!CompleteIsComplete'
    <3>1. ASSUME context'.status = "complete" PROVE missing = {} /\ notes = 0 /\ k = 0
      BY <1>2, <1>7, <2>1, <3>1 DEF Rdb!Status, Told
    <3>2. ASSUME missing = {}, notes = 0, k = 0
          PROVE  /\ p /\ version /\ n = resolved
                 /\ full = (1 .. resolved) \X Rdb!Sections
      <4>1. partial = {} /\ version /\ t = resolved
        BY <1>2, <1>6, <3>2, LeastIs, LimitsAssumption DEF Told
      <4>2. \A x : x \in full <=> x \in Collected
        BY <1>2, <3>2, <4>1 DEF Divided
      <4>3. full = Collected
        <5>1. \A x \in full : x \in Collected
          BY <4>2
        <5>2. full \subseteq Collected /\ Collected \subseteq full
          BY <4>2
        <5> QED BY <5>2
      <4> QED BY <1>6, <1>7, <3>2, <4>1, <4>3 DEF Collected
    <3> QED BY <1>1, <2>1, <3>1, <3>2 DEF Rdb!CompleteIsComplete
  <2>4. Rdb!NothingUnaccounted'
    <3>1. ASSUME NEW x \in Rdb!Tables \X Rdb!Sections
          PROVE  (x[1] <= n /\ x \in full \union partial) # (x \in context'.missing)
      <4>1. x \in Collected /\ x[1] \in 1 .. t
        BY <1>6 DEF Collected, Rdb!Tables
      <4>2. x \in Rdb!Dropped(n) <=> x[1] > n
        BY DEF Rdb!Dropped, Rdb!Tables
      <4>3. x # Rdb!PlanPart
        BY <4>1 DEF Rdb!PlanPart
      <4>4. x \in context'.missing <=> x \in missing \/ x[1] > n
        BY <2>1, <4>2, <4>3
      <4>5. x \in missing <=> x \notin full \union partial
        BY <1>2, <4>1 DEF Divided
      <4>6. x[1] > n <=> ~(x[1] <= n)
        BY <1>7, <4>1
      <4> QED BY <4>4, <4>5, <4>6, Zenon
    <3>2. context'.plan # (Rdb!PlanPart \in context'.missing)
      <4>1. Rdb!PlanPart \notin missing /\ Rdb!PlanPart \notin Rdb!Dropped(n)
        BY <1>2, <1>6 DEF Rdb!PlanPart, Divided, Collected, Rdb!Dropped, Rdb!Tables
      <4> QED BY <1>7, <2>1, <4>1
    <3>3. ~context'.plan => context'.tables = 0
      BY <1>7, <2>1
    <3>4. Rdb!Tables' = Rdb!Tables
      BY <1>1 DEF Rdb!Tables
    <3> QED BY <1>1, <2>1, <3>1, <3>2, <3>3, <3>4 DEF Rdb!NothingUnaccounted
  <2> QED BY <1>1, <1>2, <2>2, <2>3, <2>4 DEF RdbInv
<1> QED BY <1>8, <1>9

\* Every step of TuningContext preserves the invariant.
LEMMA RdbStep ==
  ASSUME RdbInv, Rdb!Next \/ UNCHANGED rdbVars
  PROVE  RdbInv'
<1>1. CASE Rdb!Next
  BY <1>1, RdbCalls, RdbPlanned, RdbCollects, RdbVersion, RdbFinish DEF Rdb!Next
<1>2. CASE UNCHANGED rdbVars
  <2>1. UNCHANGED <<stage, resolved, maxPayload, pending, full, partial, missing, notes,
                    version, context>>
    BY <1>2 DEF rdbVars
  <2>2. (Told <=> Told') /\ (Divided <=> Divided')
    BY <2>1 DEF Told, Divided, Collected
  <2>3. (Rdb!CompleteIsComplete /\ Rdb!NothingUnaccounted /\ Rdb!WithinPayload)'
    BY <2>1 DEF RdbInv, Rdb!CompleteIsComplete, Rdb!NothingUnaccounted, Rdb!WithinPayload,
       Rdb!Tables
  <2> QED BY <2>1, <2>2, <2>3 DEF RdbInv
<1> QED BY <1>1, <1>2

-----------------------------------------------------------------------------
\* The inductive invariant of DynamoContext: nothing is missing but what is told.
DynamoInv ==
  /\ at \in {"start", "metadata", "pattern", "metrics", "observe", "limit", "payload", "end"}
  /\ at # "end" => ~result.ok
  /\ at \in {"start", "metadata", "pattern", "metrics", "observe"} => read = "none"
  /\ at \in {"metadata", "pattern", "metrics", "observe", "limit"} =>
       /\ call.indexes \in IndexLimits
       /\ call.target \in Gsi \union Lsi \union {NoIndex}
  /\ at \in {"observe", "limit", "payload"} =>
       (call.monitoring => series = AllSeries \/ gaps # {})
  /\ at = "payload" =>
       /\ indexes = Gsi \union Lsi \/ dynamoNotes # {}
       /\ call.target # NoIndex => call.target \in indexes
  /\ Dynamo!CompleteMissesNothing /\ Dynamo!ReadsOnlyWhenAllowed /\ Dynamo!LeastFirst

\* Nothing was asked for.
LEMMA DynamoInit == Dynamo!Init => DynamoInv
BY DEF Dynamo!Init, Dynamo!Refused, DynamoInv, Dynamo!CompleteMissesNothing,
       Dynamo!ReadsOnlyWhenAllowed, Dynamo!LeastFirst

\* While nothing is answered, a read is all there is to look at.
LEMMA DynamoSilent ==
  ASSUME ~result'.ok, UNCHANGED <<call, read>>, DynamoInv
  PROVE  (Dynamo!CompleteMissesNothing /\ Dynamo!ReadsOnlyWhenAllowed /\ Dynamo!LeastFirst)'
BY DEF DynamoInv, Dynamo!CompleteMissesNothing, Dynamo!ReadsOnlyWhenAllowed, Dynamo!LeastFirst

\* A call is refused before it is answered.
LEMMA DynamoRefuse ==
  ASSUME DynamoInv, at # "end", Dynamo!Refuse
  PROVE  DynamoInv'
<1>1. at' = "end" /\ ~result'.ok
      /\ UNCHANGED <<call, gaps, dynamoNotes, series, read, indexes, result>>
  BY DEF DynamoInv, Dynamo!Refuse
<1> QED BY <1>1, DynamoSilent DEF DynamoInv

\* The stages up to the metrics.
LEMMA DynamoDescribes ==
  ASSUME DynamoInv, Dynamo!Start \/ Dynamo!Metadata \/ Dynamo!Pattern \/ Dynamo!Metrics
  PROVE  DynamoInv'
<1>1. at \in {"start", "metadata", "pattern", "metrics"}
  BY DEF Dynamo!Start, Dynamo!Metadata, Dynamo!Pattern, Dynamo!Metrics
<1>2. ~result.ok /\ read = "none"
  BY <1>1 DEF DynamoInv
<1>3. CASE Dynamo!Refuse
  BY <1>1, <1>3, DynamoRefuse
<1>4. CASE Dynamo!Start /\ ~Dynamo!Refuse
  <2>1. /\ at' = "metadata" /\ call'.indexes \in IndexLimits
        /\ call'.target \in Gsi \union Lsi \union {NoIndex}
        /\ UNCHANGED <<gaps, dynamoNotes, series, read, indexes, result>>
    BY <1>4 DEF Dynamo!Start, Dynamo!Index
  <2>2. (Dynamo!CompleteMissesNothing /\ Dynamo!ReadsOnlyWhenAllowed /\ Dynamo!LeastFirst)'
    BY <1>2, <2>1 DEF Dynamo!CompleteMissesNothing, Dynamo!ReadsOnlyWhenAllowed,
       Dynamo!LeastFirst
  <2> QED BY <1>2, <2>1, <2>2 DEF DynamoInv
<1>5. CASE Dynamo!Metadata \/ (Dynamo!Pattern /\ ~Dynamo!Refuse)
  <2>1. /\ at' \in {"pattern", "metrics"} /\ UNCHANGED <<call, series, read, indexes, result>>
    BY <1>5 DEF Dynamo!Metadata, Dynamo!Pattern
  <2>2. (Dynamo!CompleteMissesNothing /\ Dynamo!ReadsOnlyWhenAllowed /\ Dynamo!LeastFirst)'
    BY <1>2, <2>1, DynamoSilent
  <2> QED BY <1>1, <1>2, <1>5, <2>1, <2>2 DEF DynamoInv, Dynamo!Metadata, Dynamo!Pattern
<1>6. CASE Dynamo!Metrics
  <2>1. /\ at = "metrics" /\ at' = "observe" /\ UNCHANGED <<call, read, indexes, result>>
        /\ call.monitoring => series' = AllSeries \/ gaps' # {}
    BY <1>6 DEF Dynamo!Metrics, Dynamo!Gap
  <2>2. (Dynamo!CompleteMissesNothing /\ Dynamo!ReadsOnlyWhenAllowed /\ Dynamo!LeastFirst)'
    BY <1>2, <2>1, DynamoSilent
  <2> QED BY <1>2, <2>1, <2>2 DEF DynamoInv
<1> QED BY <1>3, <1>4, <1>5, <1>6

\* A read is made where it is allowed.
LEMMA DynamoObserves == ASSUME DynamoInv, Dynamo!Observe PROVE DynamoInv'
<1>1. /\ at = "observe" /\ UNCHANGED <<call, gaps, dynamoNotes, series, indexes, result>>
      /\ \/ at' = "limit" /\ read' = read
         \/ at' = "end" /\ read' = read
         \/ /\ at' \in {"limit", "end"} /\ call.mode # "static" /\ call.allowed
            /\ call.execution /\ ~call.marker
  BY DEF Dynamo!Observe, Dynamo!Eligible
<1>2. ~result.ok /\ read = "none"
  BY <1>1 DEF DynamoInv
<1>3. (Dynamo!CompleteMissesNothing /\ Dynamo!ReadsOnlyWhenAllowed /\ Dynamo!LeastFirst)'
  BY <1>1, <1>2 DEF Dynamo!CompleteMissesNothing, Dynamo!ReadsOnlyWhenAllowed,
     Dynamo!LeastFirst
<1> QED BY <1>1, <1>2, <1>3 DEF DynamoInv

\* The indexes are cut to their limit.
LEMMA DynamoLimits == ASSUME DynamoInv, Dynamo!LimitIndexes PROVE DynamoInv'
<1>1. /\ at = "limit" /\ at' = "payload" /\ UNCHANGED <<call, gaps, series, read, result>>
  BY DEF Dynamo!LimitIndexes
<1>2. ~result.ok /\ call.indexes \in Nat \ {0} /\ call.target \in Gsi \union Lsi \union {NoIndex}
  BY <1>1, LimitsAssumption DEF DynamoInv
<1>3. (Dynamo!CompleteMissesNothing /\ Dynamo!ReadsOnlyWhenAllowed /\ Dynamo!LeastFirst)'
  BY <1>1, <1>2, DynamoSilent
<1>4. /\ indexes' = Gsi \union Lsi \/ dynamoNotes' # {}
      /\ call.target # NoIndex => call.target \in indexes'
  <2>1. CASE Dynamo!Cardinality(Dynamo!Index) <= call.indexes
    BY <1>1, <1>2, <2>1 DEF Dynamo!LimitIndexes, Dynamo!Index
  <2>2. CASE ~(Dynamo!Cardinality(Dynamo!Index) <= call.indexes)
    <3>1. PICK S \in Dynamo!kSubset(call.indexes, Gsi \union Lsi) :
            /\ \A i \in S, j \in (Gsi \union Lsi) \ S : Dynamo!Order(i) <= Dynamo!Order(j)
            /\ indexes' = S
      BY <2>2, Zenon DEF Dynamo!LimitIndexes, Dynamo!Index
    <3>2. Dynamo!Cardinality(S) = call.indexes /\ S \subseteq Gsi \union Lsi
      BY <3>1 DEF Dynamo!kSubset
    <3>3. \A T : Dynamo!Cardinality(T) = Cardinality(T)
      BY Zenon DEF Dynamo!Cardinality, Cardinality
    <3>4. S # {}
      BY <1>2, <3>2, <3>3, FS_EmptySet
    <3>5. ASSUME call.target # NoIndex, call.target \notin S PROVE FALSE
      <4>1. PICK i \in S : TRUE
        BY <3>4
      <4>2. Dynamo!Order(i) <= Dynamo!Order(call.target)
        BY <1>2, <3>1, <3>5, <4>1
      <4>3. Dynamo!Order(call.target) = 0 /\ Dynamo!Order(i) \in {1, 2}
        BY <3>5, <4>1 DEF Dynamo!Order
      <4> QED BY <4>2, <4>3
    <3>6. dynamoNotes' = dynamoNotes \union {"indexes"}
      BY <2>2 DEF Dynamo!LimitIndexes
    <3> QED BY <1>1, <3>1, <3>5, <3>6
  <2> QED BY <2>1, <2>2
<1> QED BY <1>1, <1>2, <1>3, <1>4 DEF DynamoInv

\* What a cut context is.
LEMMA CutIs ==
  ASSUME NEW S, NEW approx, Dynamo!Cut(S, approx)
  PROVE  result'.ok /\ result'.status = "partial" /\ result'.series = S
BY DEF Dynamo!Cut, Dynamo!Status

\* The context is cut to its limit and returned, or not.
LEMMA DynamoPays == ASSUME DynamoInv, Dynamo!Payload PROVE DynamoInv'
<1>1. at = "payload" /\ at' = "end" /\ UNCHANGED <<call, gaps, dynamoNotes, series, read, indexes>>
  BY DEF Dynamo!Payload
<1>2. /\ call.monitoring => series = AllSeries \/ gaps # {}
      /\ indexes = Gsi \union Lsi \/ dynamoNotes # {}
      /\ call.target # NoIndex => call.target \in indexes
      /\ Dynamo!ReadsOnlyWhenAllowed
  BY <1>1 DEF DynamoInv
<1>3. Dynamo!ReadsOnlyWhenAllowed'
  BY <1>1, <1>2 DEF Dynamo!ReadsOnlyWhenAllowed
<1>4. ASSUME result'.ok, result'.status = "partial",
             \A s \in result'.series, t \in series \ result'.series : Priority(s) <= Priority(t)
      PROVE  (Dynamo!CompleteMissesNothing /\ Dynamo!LeastFirst)'
  BY <1>1, <1>2, <1>4 DEF Dynamo!CompleteMissesNothing, Dynamo!LeastFirst
<1>5. CASE Dynamo!Fits(series, TRUE, TRUE)
  <2>1. /\ result'.status = Dynamo!Status(FALSE) /\ result'.series = series
        /\ result'.old = TRUE /\ result'.approx = TRUE
    <3>1. result' = [ok |-> TRUE, status |-> Dynamo!Status(FALSE), old |-> TRUE,
                     approx |-> TRUE, series |-> series,
                     size |-> Dynamo!SizeOf(series, TRUE, TRUE)]
      BY <1>5, Zenon DEF Dynamo!Payload
    <3> QED BY <3>1
  <2>2. Dynamo!Status(FALSE) = "complete" => gaps = {} /\ dynamoNotes = {}
    BY DEF Dynamo!Status
  <2>3. (Dynamo!CompleteMissesNothing /\ Dynamo!LeastFirst)'
    BY <1>1, <1>2, <2>1, <2>2 DEF Dynamo!CompleteMissesNothing, Dynamo!LeastFirst, Dynamo!Index
  <2> QED BY <1>1, <1>3, <2>3 DEF DynamoInv
<1>6. CASE \E approx \in BOOLEAN : Dynamo!Cut(series, approx)
  <2>1. result'.ok /\ result'.status = "partial" /\ result'.series = series
    BY <1>6, CutIs
  <2>2. (Dynamo!CompleteMissesNothing /\ Dynamo!LeastFirst)'
    BY <1>4, <2>1
  <2> QED BY <1>1, <1>3, <2>2 DEF DynamoInv
<1>7. CASE result' = Dynamo!Refused
  <2>1. ~result'.ok
    BY <1>7 DEF Dynamo!Refused
  <2>2. (Dynamo!CompleteMissesNothing /\ Dynamo!LeastFirst)'
    BY <2>1 DEF Dynamo!CompleteMissesNothing, Dynamo!LeastFirst
  <2> QED BY <1>1, <1>3, <2>2 DEF DynamoInv
<1>8. CASE \E S \in Dynamo!Cuts : Dynamo!Cut(S, FALSE)
  <2>1. PICK S \in Dynamo!Cuts : Dynamo!Cut(S, FALSE)
    BY <1>8
  <2>2. result'.ok /\ result'.status = "partial" /\ result'.series = S
    BY <2>1, CutIs
  <2>3. \A s \in S, t \in series \ S : Priority(s) <= Priority(t)
    BY <2>1 DEF Dynamo!Cuts
  <2>4. (Dynamo!CompleteMissesNothing /\ Dynamo!LeastFirst)'
    BY <1>4, <2>2, <2>3
  <2> QED BY <1>1, <1>3, <2>4 DEF DynamoInv
<1> QED BY <1>5, <1>6, <1>7, <1>8 DEF Dynamo!Payload

\* Every step of DynamoContext preserves the invariant.
LEMMA DynamoStep ==
  ASSUME DynamoInv, Dynamo!Next \/ UNCHANGED dynamoVars
  PROVE  DynamoInv'
<1>1. CASE Dynamo!Next
  BY <1>1, DynamoDescribes, DynamoObserves, DynamoLimits, DynamoPays DEF Dynamo!Next
<1>2. CASE UNCHANGED dynamoVars
  <2>1. UNCHANGED <<at, call, gaps, dynamoNotes, series, read, indexes, result>>
    BY <1>2 DEF dynamoVars
  <2>2. (Dynamo!CompleteMissesNothing /\ Dynamo!ReadsOnlyWhenAllowed /\ Dynamo!LeastFirst)'
    BY <2>1 DEF DynamoInv, Dynamo!CompleteMissesNothing, Dynamo!ReadsOnlyWhenAllowed,
       Dynamo!LeastFirst
  <2> QED BY <2>1, <2>2 DEF DynamoInv
<1> QED BY <1>1, <1>2

-----------------------------------------------------------------------------
\* Attributes have a type, keys a name, and those of a key schema have both.
Typed(attributes) == \A a \in Evidence!ToSet(attributes) : a.type \in {"S", "N", "B"}
\* A list of keys that have names.
KeysNamed(keys) == /\ keys \in Seq(Evidence!ToSet(keys))
                   /\ \A k \in Evidence!ToSet(keys) : k.name # ""
\* A key of a schema: a name, and a type there is.
IsKey(x) == x.name # "" /\ x.type \in {"S", "N", "B"}

\* A sequence that is not empty has a first element, and all are of its set.
LEMMA Filled ==
  ASSUME NEW S, NEW s \in Seq(S), s # <<>> \/ Len(s) > 0
  PROVE  s # <<>> /\ s[1] \in S /\ \A i \in DOMAIN s : s[i] \in S
OBVIOUS

\* Sequences of one and of two.
LEMMA OneOrTwo ==
  ASSUME NEW x, NEW y
  PROVE  /\ <<x>> \in Seq({x}) /\ Len(<<x>>) = 1
         /\ <<x>> \o <<>> \in Seq({x}) /\ Len(<<x>> \o <<>>) = 1
         /\ <<x>> \o <<y>> \in Seq({x, y}) /\ Len(<<x>> \o <<y>>) = 2
<1>1. <<x>> \in Seq({x, y}) /\ <<y>> \in Seq({x, y}) /\ Len(<<x>>) = 1 /\ Len(<<y>>) = 1
  OBVIOUS
<1>2. <<x>> \in Seq({x}) /\ <<>> \in Seq({x}) /\ Len(<<>>) = 0
  OBVIOUS
<1> QED BY <1>1, <1>2

\* A type of an attribute is found or is "S".
LEMMA KnownType ==
  ASSUME NEW attributes, NEW name, Typed(attributes)
  PROVE  Evidence!TypeOf(attributes, name) \in {"S", "N", "B"}
<1>1. PICK K : K = {a \in Evidence!ToSet(attributes) : a.name = name}
  OBVIOUS
<1>2. Evidence!TypeOf(attributes, name) = IF K = {} THEN "S" ELSE Evidence!One(K).type
  BY <1>1, Zenon DEF Evidence!TypeOf
<1>3. K # {} => Evidence!One(K) \in K
  BY DEF Evidence!One
<1> QED BY <1>1, <1>2, <1>3 DEF Typed

\* A key schema has a partition key, and its keys a name and a type.
LEMMA KeysValid ==
  ASSUME NEW keys, NEW attributes, Typed(attributes), KeysNamed(keys)
  PROVE  Evidence!validateKeySchema(Evidence!KeySchema(keys, attributes))
<1>1. ASSUME NEW S, \A x \in S : IsKey(x), NEW s \in Seq(S), Len(s) > 0
      PROVE  Evidence!validateKeySchema(s)
  <2>1. s # <<>> /\ \A i \in DOMAIN s : s[i] \in S
    BY <1>1, Filled
  <2>2. \A i \in DOMAIN s : IsKey(s[i])
    BY <1>1, <2>1
  <2> QED BY <2>1, <2>2, Zenon DEF Evidence!validateKeySchema, Evidence!validAttribute, IsKey
<1>2. PICK H : H = Evidence!KeysOf(keys, "HASH")
  OBVIOUS
<1>3. PICK R : R = Evidence!KeysOf(keys, "RANGE")
  OBVIOUS
<1>4. (\A k \in H : k.name # "") /\ (\A k \in R : k.name # "")
  BY <1>2, <1>3 DEF Evidence!KeysOf, KeysNamed
<1>5. ASSUME NEW K, \A k \in K : k.name # "", K # {}
      PROVE  IsKey(Evidence!Attribute(attributes, Evidence!One(K)))
  <2>1. Evidence!One(K) \in K
    BY <1>5 DEF Evidence!One
  <2> QED BY <1>5, <2>1, KnownType DEF Evidence!Attribute, IsKey
<1>6. PICK h : h = Evidence!Attribute(attributes, Evidence!One(H))
  OBVIOUS
<1>7. PICK r : r = Evidence!Attribute(attributes, Evidence!One(R))
  OBVIOUS
<1>8. (H # {} => IsKey(h)) /\ (R # {} => IsKey(r))
  BY <1>4, <1>5, <1>6, <1>7
<1>9. PICK s : s = Evidence!KeySchema(keys, attributes)
  OBVIOUS
<1>10. CASE H # {} /\ R = {}
  <2>1. s = <<h>> \o <<>>
    BY <1>2, <1>3, <1>6, <1>9, <1>10, Zenon DEF Evidence!KeySchema, Evidence!mapKeySchema
  <2>2. s \in Seq({h}) /\ Len(s) > 0
    BY <2>1, OneOrTwo
  <2>3. \A x \in {h} : IsKey(x)
    BY <1>8, <1>10
  <2> QED BY <1>1, <1>9, <2>2, <2>3
<1>11. CASE H # {} /\ R # {}
  <2>1. s = <<h>> \o <<r>>
    BY <1>2, <1>3, <1>6, <1>7, <1>9, <1>11, Zenon DEF Evidence!KeySchema, Evidence!mapKeySchema
  <2>2. s \in Seq({h, r}) /\ Len(s) > 0
    BY <2>1, OneOrTwo
  <2>3. \A x \in {h, r} : IsKey(x)
    BY <1>8, <1>11
  <2> QED BY <1>1, <1>9, <2>2, <2>3
<1>12. CASE H = {}
  <2>1. PICK n : n = IF keys = <<>> THEN "unknown" ELSE keys[1].name
    OBVIOUS
  <2>2. PICK k : k = [name |-> n, type |-> "S"]
    OBVIOUS
  <2>3. s = <<k>>
    BY <1>2, <1>9, <1>12, <2>1, <2>2, Zenon DEF Evidence!KeySchema
  <2>4. n # ""
    <3>1. keys # <<>> => keys[1] \in Evidence!ToSet(keys)
      <4>1. PICK K : K = Evidence!ToSet(keys)
        OBVIOUS
      <4>2. keys \in Seq(K)
        BY <4>1 DEF KeysNamed
      <4>3. keys # <<>> => keys[1] \in K
        BY <4>2, Filled
      <4> QED BY <4>1, <4>3
    <3>2. keys # <<>> => keys[1].name # ""
      BY <3>1, Zenon DEF KeysNamed
    <3>3. CASE keys = <<>>
      BY <2>1, <3>3
    <3>4. CASE keys # <<>>
      BY <2>1, <3>2, <3>4, Zenon
    <3> QED BY <3>3, <3>4
  <2>5. s \in Seq({k}) /\ Len(s) > 0
    BY <2>3, OneOrTwo
  <2>6. \A x \in {k} : IsKey(x)
    <3>1. k.name = n /\ k.type = "S"
      BY <2>2
    <3>2. IsKey(k)
      BY <2>4, <3>1 DEF IsKey
    <3> QED BY <3>2
  <2> QED BY <1>1, <1>9, <2>5, <2>6
<1> QED BY <1>10, <1>11, <1>12

\* The table that is described is one the validator accepts.
LEMMA TableValid ==
  ASSUME NEW raw \in Described
  PROVE  Evidence!validateTable(Evidence!mapTableContext(raw))
<1>1. PICK t : t = Evidence!mapTableContext(raw)
  OBVIOUS
<1>2. /\ t.name = raw.name /\ t.billing = Evidence!resolveDynamoDbBillingMode(raw.mode, raw.capacity)
      /\ t.keys = Evidence!KeySchema(raw.keys, raw.attributes)
      /\ t.attributes = {a \in Evidence!ToSet(raw.attributes) : a.name # ""}
      /\ t.local = Evidence!mapIndexes(raw.local, raw.attributes)
      /\ t.global = Evidence!mapIndexes(raw.global, raw.attributes)
  BY <1>1 DEF Evidence!mapTableContext
<1>3. /\ raw.name # "" /\ Typed(raw.attributes) /\ KeysNamed(raw.keys)
      /\ \A ix \in Evidence!ToSet(raw.local) \union Evidence!ToSet(raw.global) :
           KeysNamed(ix.keys) /\ (ix.name # <<>> => ix.name[1] # "")
  BY EvidenceAssumption, Zenon DEF EvidenceAssumption, Typed, KeysNamed
<1>4. t.billing \in {"PROVISIONED", "PAY_PER_REQUEST", "unknown"}
  <2>1. CASE raw.mode \in {<<"PROVISIONED">>, <<"PAY_PER_REQUEST">>}
    <3>1. PICK m : m = raw.mode
      OBVIOUS
    <3>2. Evidence!resolveDynamoDbBillingMode(m, raw.capacity) = m[1]
      <4>1. m # <<>>
        BY <2>1, <3>1
      <4>2. m \in {<<"PROVISIONED">>, <<"PAY_PER_REQUEST">>}
        BY <2>1, <3>1
      <4> QED BY <4>1, <4>2, SMT DEF Evidence!resolveDynamoDbBillingMode
    <3>3. m[1] \in {"PROVISIONED", "PAY_PER_REQUEST"}
      BY <2>1, <3>1
    <3> QED BY <1>2, <3>1, <3>2, <3>3
  <2>2. CASE ~(raw.mode \in {<<"PROVISIONED">>, <<"PAY_PER_REQUEST">>})
    BY <1>2, <2>2 DEF Evidence!resolveDynamoDbBillingMode
  <2> QED BY <2>1, <2>2
<1>5. Evidence!validateKeySchema(t.keys)
  BY <1>2, <1>3, KeysValid
<1>6. ASSUME NEW S, S = raw.local \/ S = raw.global, NEW ix \in Evidence!mapIndexes(S, raw.attributes)
      PROVE  Evidence!validateIndex(ix)
  <2>1. PICK d \in Evidence!ToSet(S) :
          d.name # <<>> /\ ix = [name |-> d.name[1], keys |-> Evidence!KeySchema(d.keys, raw.attributes),
                                 count |-> d.count]
    BY DEF Evidence!mapIndexes
  <2>2. d \in Evidence!ToSet(raw.local) \union Evidence!ToSet(raw.global)
    BY <1>6
  <2>3. Evidence!validateKeySchema(ix.keys)
    BY <1>3, <2>1, <2>2, KeysValid
  <2> QED BY <1>3, <2>1, <2>2, <2>3 DEF Evidence!validateIndex
<1>7. \A ix \in t.local \union t.global : Evidence!validateIndex(ix)
  BY <1>2, <1>6
<1>8. \A a \in t.attributes : Evidence!validAttribute(a)
  BY <1>2, <1>3 DEF Evidence!validAttribute, Typed
<1> QED BY <1>1, <1>2, <1>3, <1>4, <1>5, <1>7, <1>8 DEF Evidence!validateTable

\* A sequence without repetition, and two that have nothing in common made one.
Apart(s) == \A i, j \in DOMAIN s : i # j => s[i] # s[j]

\* Two lists that have nothing in common are joined without repetition.
LEMMA JoinedApart ==
  ASSUME NEW S, NEW T, NEW s \in Seq(S), NEW t \in Seq(T), S \cap T = {}, Apart(s), Apart(t)
  PROVE  s \o t \in Seq(S \union T) /\ Apart(s \o t)
<1>1. PICK U : U = S \union T
  OBVIOUS
<1>2. s \in Seq(U) /\ t \in Seq(U)
  BY <1>1
<1>3. PICK u : u = s \o t
  OBVIOUS
<1>4. /\ u \in Seq(U) /\ Len(u) = Len(s) + Len(t) /\ Len(s) \in Nat /\ Len(t) \in Nat
      /\ \A i \in 1 .. Len(s) : u[i] = s[i]
      /\ \A i \in 1 .. Len(t) : u[Len(s) + i] = t[i]
  BY <1>2, <1>3
<1>5. \A i \in 1 .. Len(u) : \/ i \in 1 .. Len(s) /\ u[i] = s[i] /\ s[i] \in S
                             \/ /\ i - Len(s) \in 1 .. Len(t) /\ u[i] = t[i - Len(s)]
                                /\ t[i - Len(s)] \in T
  <2> SUFFICES ASSUME NEW i \in 1 .. Len(u)
               PROVE  \/ i \in 1 .. Len(s) /\ u[i] = s[i] /\ s[i] \in S
                      \/ /\ i - Len(s) \in 1 .. Len(t) /\ u[i] = t[i - Len(s)]
                         /\ t[i - Len(s)] \in T
    OBVIOUS
  <2>1. CASE i <= Len(s)
    BY <1>4, <2>1
  <2>2. CASE ~(i <= Len(s))
    <3>1. i - Len(s) \in 1 .. Len(t) /\ Len(s) + (i - Len(s)) = i
      BY <1>4, <2>2
    <3>2. u[Len(s) + (i - Len(s))] = t[i - Len(s)]
      BY <1>4, <3>1
    <3> QED BY <3>1, <3>2
  <2> QED BY <2>1, <2>2
<1>6. ASSUME NEW i \in 1 .. Len(u), NEW j \in 1 .. Len(u), i # j PROVE u[i] # u[j]
  <2>1. CASE i \in 1 .. Len(s) /\ u[i] = s[i] /\ s[i] \in S
    <3>1. CASE j \in 1 .. Len(s) /\ u[j] = s[j]
      BY <1>6, <2>1, <3>1 DEF Apart
    <3>2. CASE u[j] \in T
      BY <2>1, <3>2
    <3> QED BY <1>5, <3>1, <3>2
  <2>2. CASE i - Len(s) \in 1 .. Len(t) /\ u[i] = t[i - Len(s)] /\ t[i - Len(s)] \in T
    <3>1. CASE j - Len(s) \in 1 .. Len(t) /\ u[j] = t[j - Len(s)]
      <4>1. i - Len(s) # j - Len(s)
        BY <1>4, <1>6
      <4> QED BY <2>2, <3>1, <4>1 DEF Apart
    <3>2. CASE u[j] \in S
      BY <2>2, <3>2
    <3> QED BY <1>5, <3>1, <3>2
  <2> QED BY <1>5, <2>1, <2>2
<1>7. DOMAIN u = 1 .. Len(u)
  BY <1>4
<1>8. Apart(u)
  BY <1>6, <1>7 DEF Apart
<1> QED BY <1>1, <1>3, <1>4, <1>8

\* A sequence over a set is one over a larger set.
LEMMA Wider == ASSUME NEW T, NEW S \in SUBSET T, NEW s \in Seq(S) PROVE s \in Seq(T)
OBVIOUS

\* A list of one, or none.
LEMMA OneApart == ASSUME NEW x PROVE /\ <<x>> \in Seq({x}) /\ Apart(<<x>>)
                                     /\ <<>> \in Seq({x}) /\ Apart(<<>>)
<1>1. <<x>> \in Seq({x}) /\ <<>> \in Seq({x})
  OBVIOUS
<1>2. Apart(<<x>>)
  <2>1. DOMAIN <<x>> = {1}
    OBVIOUS
  <2> QED BY <2>1 DEF Apart
<1>3. Apart(<<>>)
  BY DEF Apart
<1> QED BY <1>1, <1>2, <1>3

\* The sums of some metrics.
LEMMA SumsApart ==
  ASSUME NEW M, NEW metrics \in Seq(M), Apart(metrics), NEW scope
  PROVE  /\ Evidence!Sums(metrics, scope) \in Seq({Evidence!Spec(m, "Sum", scope) : m \in M})
         /\ Apart(Evidence!Sums(metrics, scope))
<1>1. PICK S : S = {Evidence!Spec(m, "Sum", scope) : m \in M}
  OBVIOUS
<1>2. PICK s : s = Evidence!Sums(metrics, scope)
  OBVIOUS
<1>3. DOMAIN metrics = 1 .. Len(metrics) /\ Len(metrics) \in Nat
      /\ \A i \in DOMAIN metrics : metrics[i] \in M
  OBVIOUS
<1>4. s = [i \in 1 .. Len(metrics) |-> Evidence!Spec(metrics[i], "Sum", scope)]
  BY <1>2, <1>3, Zenon DEF Evidence!Sums
<1>5. \A i \in 1 .. Len(metrics) : Evidence!Spec(metrics[i], "Sum", scope) \in S
  BY <1>1, <1>3
<1>6. s \in Seq(S)
  BY <1>3, <1>4, <1>5
<1>7. ASSUME NEW i \in DOMAIN s, NEW j \in DOMAIN s, i # j PROVE s[i] # s[j]
  <2>1. i \in DOMAIN metrics /\ j \in DOMAIN metrics
    BY <1>3, <1>4
  <2>2. metrics[i] # metrics[j]
    BY <1>7, <2>1 DEF Apart
  <2>3. s[i].metric = metrics[i] /\ s[j].metric = metrics[j]
    BY <1>4, <1>3, <2>1 DEF Evidence!Spec
  <2> QED BY <2>2, <2>3
<1> QED BY <1>1, <1>2, <1>6, <1>7 DEF Apart

\* The metrics CloudWatch is asked for.
Metrics ==
  {"ConsumedReadCapacityUnits", "ProvisionedReadCapacityUnits", "OnDemandMaxReadRequestUnits",
   "ReadThrottleEvents", "ReadKeyRangeThroughputThrottleEvents",
   "ReadProvisionedThroughputThrottleEvents", "ReadAccountLimitThrottleEvents",
   "ReadMaxOnDemandThroughputThrottleEvents", "SuccessfulRequestLatency",
   "ThrottledRequests", "SystemErrors", "ReturnedItemCount"}
\* The statistics CloudWatch is asked for, and the series of a scope.
Statistics == {"Sum", "Average", "p50", "p90", "p99"}
OfScope(scope) == {Evidence!Spec(m, s, scope) : m \in Metrics, s \in Statistics}

\* Those of a table or of an index are each asked for once.
LEMMA CapacityApart ==
  ASSUME NEW t, NEW scope
  PROVE  /\ Evidence!addCapacityScope(t, scope) \in Seq(OfScope(scope))
         /\ Apart(Evidence!addCapacityScope(t, scope))
<1>1. PICK a : a = Evidence!Spec("ConsumedReadCapacityUnits", "Sum", scope)
  OBVIOUS
<1>2. PICK b : b = Evidence!Spec("ProvisionedReadCapacityUnits", "Average", scope)
  OBVIOUS
<1>3. PICK c : c = Evidence!Spec("OnDemandMaxReadRequestUnits", "Average", scope)
  OBVIOUS
<1>4. PICK M : M = {"ReadThrottleEvents", "ReadKeyRangeThroughputThrottleEvents",
                    "ReadProvisionedThroughputThrottleEvents", "ReadAccountLimitThrottleEvents",
                    "ReadMaxOnDemandThroughputThrottleEvents"}
  OBVIOUS
<1>5. PICK D : D = {Evidence!Spec(m, "Sum", scope) : m \in M}
  OBVIOUS
<1>6. Evidence!Throttles \in Seq(M) /\ Apart(Evidence!Throttles)
  <2>1. Evidence!Throttles \in Seq(M)
    BY <1>4 DEF Evidence!Throttles
  <2>2. DOMAIN Evidence!Throttles = 1 .. 5
    BY DEF Evidence!Throttles
  <2>3. \A i, j \in 1 .. 5 : i # j => Evidence!Throttles[i] # Evidence!Throttles[j]
    BY DEF Evidence!Throttles
  <2> QED BY <2>1, <2>2, <2>3 DEF Apart
<1>7. PICK d : d = Evidence!Sums(Evidence!Throttles, scope)
  OBVIOUS
<1>8. d \in Seq(D) /\ Apart(d)
  BY <1>5, <1>6, <1>7, SumsApart
<1>9. PICK p : p = IF t.billing = "PROVISIONED" THEN <<b>> ELSE <<>>
  OBVIOUS
<1>10. PICK q : q = IF t.capped THEN <<c>> ELSE <<>>
  OBVIOUS
<1>11. p \in Seq({b}) /\ Apart(p) /\ q \in Seq({c}) /\ Apart(q)
       /\ <<a>> \in Seq({a}) /\ Apart(<<a>>)
  BY <1>9, <1>10, OneApart
<1>12. Evidence!addCapacityScope(t, scope) = <<a>> \o p \o q \o d
  BY <1>1, <1>2, <1>3, <1>7, <1>9, <1>10, Zenon DEF Evidence!addCapacityScope
<1>13. /\ a.metric = "ConsumedReadCapacityUnits" /\ b.metric = "ProvisionedReadCapacityUnits"
       /\ c.metric = "OnDemandMaxReadRequestUnits" /\ \A x \in D : x.metric \in M
  BY <1>1, <1>2, <1>3, <1>5 DEF Evidence!Spec
<1>14. {a} \cap {b} = {} /\ ({a} \union {b}) \cap {c} = {}
       /\ ({a} \union {b} \union {c}) \cap D = {}
  BY <1>4, <1>13
<1>15. <<a>> \o p \in Seq({a} \union {b}) /\ Apart(<<a>> \o p)
  BY <1>11, <1>14, JoinedApart
<1>16. <<a>> \o p \o q \in Seq({a} \union {b} \union {c}) /\ Apart(<<a>> \o p \o q)
  BY <1>11, <1>14, <1>15, JoinedApart
<1>17. <<a>> \o p \o q \o d \in Seq({a} \union {b} \union {c} \union D)
       /\ Apart(<<a>> \o p \o q \o d)
  BY <1>8, <1>14, <1>16, JoinedApart
<1>18. PICK A : A = {a} \union {b} \union {c} \union D
  OBVIOUS
<1>19. A \in SUBSET OfScope(scope)
  <2>1. ASSUME NEW m \in Metrics, NEW s \in Statistics
        PROVE  Evidence!Spec(m, s, scope) \in OfScope(scope)
    BY DEF OfScope
  <2>2. a \in OfScope(scope)
    BY <1>1, <2>1 DEF Metrics, Statistics
  <2>3. b \in OfScope(scope)
    BY <1>2, <2>1 DEF Metrics, Statistics
  <2>4. c \in OfScope(scope)
    BY <1>3, <2>1 DEF Metrics, Statistics
  <2>5. M \subseteq Metrics /\ "Sum" \in Statistics
    BY <1>4 DEF Metrics, Statistics
  <2>6. D \subseteq OfScope(scope)
    BY <1>5, <2>1, <2>5
  <2> QED BY <1>18, <2>2, <2>3, <2>4, <2>6
<1>20. PICK u : u = Evidence!addCapacityScope(t, scope)
  OBVIOUS
<1>21. u \in Seq(A) /\ Apart(u)
  BY <1>12, <1>17, <1>18, <1>20
<1>22. u \in Seq(OfScope(scope))
  BY <1>19, <1>21, Wider
<1> QED BY <1>20, <1>21, <1>22

\* So are those of the operation.
LEMMA OperationApart ==
  Evidence!operationSpecs \in Seq(OfScope("operation")) /\ Apart(Evidence!operationSpecs)
<1>1. PICK l : l = [i \in 1 .. 3 |-> Evidence!Spec("SuccessfulRequestLatency",
                                                   <<"p50", "p90", "p99">>[i], "operation")]
  OBVIOUS
<1>2. PICK L : L = {Evidence!Spec("SuccessfulRequestLatency", x, "operation") : x \in {"p50", "p90", "p99"}}
  OBVIOUS
<1>3. PICK m : m = <<"ThrottledRequests", "SystemErrors", "ReturnedItemCount">>
  OBVIOUS
<1>4. PICK M : M = {"ThrottledRequests", "SystemErrors", "ReturnedItemCount"}
  OBVIOUS
<1>5. PICK D : D = {Evidence!Spec(x, "Sum", "operation") : x \in M}
  OBVIOUS
<1>6. m \in Seq(M) /\ Apart(m)
  <2>1. m \in Seq(M) /\ DOMAIN m = 1 .. 3
    BY <1>3, <1>4
  <2>2. \A i, j \in 1 .. 3 : i # j => m[i] # m[j]
    BY <1>3
  <2> QED BY <2>1, <2>2 DEF Apart
<1>7. PICK n : n = <<"p50", "p90", "p99">>
  OBVIOUS
<1>8. (\A i \in 1 .. 3 : n[i] \in {"p50", "p90", "p99"})
      /\ \A i, j \in 1 .. 3 : i # j => n[i] # n[j]
  BY <1>7
<1>9. l = [i \in 1 .. 3 |-> Evidence!Spec("SuccessfulRequestLatency", n[i], "operation")]
  BY <1>1, <1>7
<1>10. l \in Seq(L) /\ Apart(l)
  <2>1. \A i \in 1 .. 3 : Evidence!Spec("SuccessfulRequestLatency", n[i], "operation") \in L
    BY <1>2, <1>8
  <2>2. l \in Seq(L) /\ DOMAIN l = 1 .. 3
    BY <1>9, <2>1
  <2>3. \A i \in 1 .. 3 : l[i].statistic = n[i]
    BY <1>9 DEF Evidence!Spec
  <2>4. \A i, j \in 1 .. 3 : i # j => l[i] # l[j]
    BY <1>8, <2>3
  <2> QED BY <2>2, <2>4 DEF Apart
<1>11. PICK d : d = Evidence!Sums(m, "operation")
  OBVIOUS
<1>12. d \in Seq(D) /\ Apart(d)
  BY <1>5, <1>6, <1>11, SumsApart
<1>13. L \cap D = {}
  <2>1. (\A x \in L : x.metric = "SuccessfulRequestLatency") /\ \A x \in D : x.metric \in M
    BY <1>2, <1>5 DEF Evidence!Spec
  <2> QED BY <1>4, <2>1
<1>14. Evidence!operationSpecs = l \o d
  BY <1>1, <1>3, <1>11, Zenon DEF Evidence!operationSpecs
<1>15. PICK u : u = l \o d
  OBVIOUS
<1>16. u \in Seq(L \union D) /\ Apart(u)
  BY <1>10, <1>12, <1>13, <1>15, JoinedApart
<1>17. PICK A : A = L \union D
  OBVIOUS
<1>18. A \in SUBSET OfScope("operation")
  <2>1. ASSUME NEW x \in Metrics, NEW y \in Statistics
        PROVE  Evidence!Spec(x, y, "operation") \in OfScope("operation")
    BY DEF OfScope
  <2>2. L \subseteq OfScope("operation")
    BY <1>2, <2>1 DEF Metrics, Statistics
  <2>3. M \subseteq Metrics /\ "Sum" \in Statistics
    BY <1>4 DEF Metrics, Statistics
  <2>4. D \subseteq OfScope("operation")
    BY <1>5, <2>1, <2>3
  <2> QED BY <1>17, <2>2, <2>4
<1>19. u \in Seq(OfScope("operation"))
  BY <1>16, <1>17, <1>18, Wider
<1> QED BY <1>14, <1>15, <1>16, <1>19

\* Every series is asked for once, and of an index only if it is a global one.
LEMMA SpecsApart ==
  ASSUME NEW t, NEW type
  PROVE  /\ Evidence!buildSeriesSpecs(t, type)
              \in Seq(OfScope("table") \union OfScope("gsi") \union OfScope("operation"))
         /\ Apart(Evidence!buildSeriesSpecs(t, type))
         /\ \A i \in DOMAIN Evidence!buildSeriesSpecs(t, type) :
              Evidence!buildSeriesSpecs(t, type)[i].scope = "gsi" => type = "GSI"
<1>1. PICK a : a = Evidence!addCapacityScope(t, "table")
  OBVIOUS
<1>2. PICK b : b = IF type = "GSI" THEN Evidence!addCapacityScope(t, "gsi") ELSE <<>>
  OBVIOUS
<1>3. PICK c : c = Evidence!operationSpecs
  OBVIOUS
<1>4. PICK B : B = IF type = "GSI" THEN OfScope("gsi") ELSE {}
  OBVIOUS
<1>5. a \in Seq(OfScope("table")) /\ Apart(a)
  BY <1>1, CapacityApart
<1>6. b \in Seq(B) /\ Apart(b)
  <2>1. CASE type = "GSI"
    BY <1>2, <1>4, <2>1, CapacityApart
  <2>2. CASE type # "GSI"
    <3>1. b = <<>> /\ B = {}
      BY <1>2, <1>4, <2>2
    <3>2. <<>> \in Seq({})
      OBVIOUS
    <3> QED BY <3>1, <3>2, OneApart
  <2> QED BY <2>1, <2>2
<1>7. c \in Seq(OfScope("operation")) /\ Apart(c)
  BY <1>3, OperationApart
<1>8. B \subseteq OfScope("gsi")
  BY <1>4
<1>9. OfScope("table") \cap B = {} /\ (OfScope("table") \union B) \cap OfScope("operation") = {}
  <2>1. \A scope, x : x \in OfScope(scope) => x.scope = scope
    BY DEF OfScope, Evidence!Spec
  <2> QED BY <1>8, <2>1
<1>10. PICK u : u = a \o b \o c
  OBVIOUS
<1>11. a \o b \in Seq(OfScope("table") \union B) /\ Apart(a \o b)
  BY <1>5, <1>6, <1>9, JoinedApart
<1>12. PICK A : A = OfScope("table") \union B \union OfScope("operation")
  OBVIOUS
<1>13. u \in Seq(A) /\ Apart(u)
  BY <1>7, <1>9, <1>10, <1>11, <1>12, JoinedApart
<1>14. Evidence!buildSeriesSpecs(t, type) = u
  BY <1>1, <1>2, <1>3, <1>10, Zenon DEF Evidence!buildSeriesSpecs
<1>15. PICK E : E = OfScope("table") \union OfScope("gsi") \union OfScope("operation")
  OBVIOUS
<1>16. u \in Seq(E)
  BY <1>8, <1>12, <1>13, <1>15
<1>17. ASSUME type # "GSI", NEW i \in DOMAIN u PROVE u[i].scope # "gsi"
  <2>1. u[i] \in A
    BY <1>13
  <2>2. u[i] \in OfScope("table") \/ u[i] \in OfScope("operation")
    BY <1>4, <1>12, <1>17, <2>1
  <2> QED BY <2>2 DEF OfScope, Evidence!Spec
<1> QED BY <1>13, <1>14, <1>15, <1>16, <1>17

\* What comes no later than the i-th of n datapoints by their times t.
Upto(t, n, i) == {j \in 1 .. n : t[j] < t[i] \/ (t[j] = t[i] /\ j <= i)}

\* Their number is a place, and a later datapoint has a greater one.
LEMMA UptoIs ==
  ASSUME NEW n \in Nat, NEW t \in [1 .. n -> Nat], NEW i \in 1 .. n
  PROVE  /\ Cardinality(Upto(t, n, i)) \in 1 .. n
         /\ \A j \in 1 .. n : t[i] < t[j] \/ (t[i] = t[j] /\ i < j)
              => Cardinality(Upto(t, n, i)) < Cardinality(Upto(t, n, j))
<1>1. IsFiniteSet(1 .. n) /\ Cardinality(1 .. n) = n
  BY FS_Interval
<1>2. PICK B : B = Upto(t, n, i)
  OBVIOUS
<1>3. B \subseteq 1 .. n /\ i \in B
  BY <1>2 DEF Upto
<1>4. IsFiniteSet(B) /\ Cardinality(B) <= n /\ Cardinality(B) \in Nat
  <2>1. IsFiniteSet(B) /\ Cardinality(B) <= Cardinality(1 .. n)
    BY <1>1, <1>3, FS_Subset
  <2> QED BY <1>1, <2>1, FS_CardinalityType
<1>5. Cardinality(B) # 0
  BY <1>3, <1>4, FS_EmptySet
<1>6. ASSUME NEW j \in 1 .. n, t[i] < t[j] \/ (t[i] = t[j] /\ i < j)
      PROVE  Cardinality(B) < Cardinality(Upto(t, n, j))
  <2>1. PICK C : C = Upto(t, n, j)
    OBVIOUS
  <2>2. t[i] \in Nat /\ t[j] \in Nat /\ \A k \in 1 .. n : t[k] \in Nat
    OBVIOUS
  <2>3. B \subseteq C
    BY <1>2, <1>6, <2>1, <2>2 DEF Upto
  <2>4. j \in C /\ j \notin B
    BY <1>2, <1>6, <2>1, <2>2 DEF Upto
  <2>5. C \subseteq 1 .. n
    BY <2>1 DEF Upto
  <2>6. IsFiniteSet(C) /\ Cardinality(C) \in Nat
    BY <1>1, <2>5, FS_Subset, FS_CardinalityType
  <2>7. Cardinality(B) <= Cardinality(C) /\ Cardinality(B) # Cardinality(C)
    BY <2>3, <2>4, <2>6, FS_Subset
  <2> QED BY <1>4, <2>1, <2>6, <2>7
<1> QED BY <1>2, <1>4, <1>5, <1>6

\* Datapoints by time: the same ones, each once, none before an earlier one.
Datapoint == [time : Nat, value : Nat]

\* By time the datapoints are the same ones, and none is before an earlier one.
LEMMA ByTimeIs ==
  ASSUME NEW points \in Seq(Datapoint)
  PROVE  \E p \in [1 .. Len(points) -> 1 .. Len(points)] :
           /\ \A m \in 1 .. Len(points) : Evidence!ByTime(points)[m] = points[p[m]]
           /\ \A i \in 1 .. Len(points) : \E m \in 1 .. Len(points) : p[m] = i
           /\ \A a, b \in 1 .. Len(points) : a < b => points[p[a]].time <= points[p[b]].time
<1>1. PICK n \in Nat : n = Len(points) /\ DOMAIN points = 1 .. n
  OBVIOUS
<1>2. \A i \in 1 .. n : points[i] \in Datapoint
  BY <1>1
<1>3. PICK t : t = [i \in 1 .. n |-> points[i].time]
  OBVIOUS
<1>4. t \in [1 .. n -> Nat] /\ \A i \in 1 .. n : t[i] = points[i].time
  BY <1>2, <1>3 DEF Datapoint
<1>5. ASSUME NEW i \in 1 .. n PROVE Evidence!Place(points, i) = Cardinality(Upto(t, n, i))
  <2>1. \A S : Evidence!Cardinality(S) = Cardinality(S)
    BY Zenon DEF Evidence!Cardinality, Cardinality
  <2>2. PICK A : A = {j \in DOMAIN points : \/ points[j].time < points[i].time
                                            \/ points[j].time = points[i].time /\ j <= i}
    OBVIOUS
  <2>3. \A j \in 1 .. n : j \in A <=> j \in Upto(t, n, i)
    BY <1>1, <1>4, <2>2 DEF Upto
  <2>4. A \subseteq 1 .. n /\ Upto(t, n, i) \subseteq 1 .. n
    BY <1>1, <2>2 DEF Upto
  <2>5. A = Upto(t, n, i)
    BY <2>3, <2>4
  <2>6. Evidence!Place(points, i) = Evidence!Cardinality(A)
    BY <2>2, Zenon DEF Evidence!Place
  <2> QED BY <2>1, <2>5, <2>6
<1>6. PICK h : h = [i \in 1 .. n |-> Cardinality(Upto(t, n, i))]
  OBVIOUS
<1>7. h \in [1 .. n -> 1 .. n] /\ \A i \in 1 .. n : h[i] = Evidence!Place(points, i)
  BY <1>4, <1>5, <1>6, UptoIs
<1>8. \A i, j \in 1 .. n : t[i] < t[j] \/ (t[i] = t[j] /\ i < j) => h[i] < h[j]
  BY <1>4, <1>6, UptoIs
<1>9. \A i, j \in 1 .. n : h[i] = h[j] => i = j
  <2> SUFFICES ASSUME NEW i \in 1 .. n, NEW j \in 1 .. n, h[i] = h[j], i # j PROVE FALSE
    OBVIOUS
  <2>1. t[i] \in Nat /\ t[j] \in Nat /\ h[i] \in Nat /\ h[j] \in Nat
    BY <1>4, <1>7
  <2>2. ~(h[i] < h[j]) /\ ~(h[j] < h[i])
    BY <2>1
  <2>3. t[i] < t[j] \/ t[j] < t[i] \/ (t[i] = t[j] /\ (i < j \/ j < i))
    BY <2>1
  <2> QED BY <1>8, <2>2, <2>3
<1>10. IsFiniteSet(1 .. n) /\ Cardinality(1 .. n) = n
  BY FS_Interval
<1>11. ASSUME NEW y \in 1 .. n PROVE \E x \in 1 .. n : h[x] = y
  <2>1. PICK D : D = 1 .. n
    OBVIOUS
  <2>2. h \in [D -> D] /\ IsFiniteSet(D) /\ Cardinality(D) = n /\ y \in D
    BY <1>7, <1>10, <2>1
  <2>3. \A a, b \in D : h[a] = h[b] => a = b
    BY <1>9, <2>1
  <2>4. h \in Injection(D, D)
    BY <2>2, <2>3 DEF Injection, IsInjective
  <2>5. h \in Surjection(D, D)
    BY <2>2, <2>4, FS_Injection
  <2>6. \E x \in D : h[x] = y
    BY <2>2, <2>5 DEF Surjection
  <2> QED BY <2>1, <2>6
<1>12. PICK p : p = [m \in 1 .. n |-> CHOOSE i \in DOMAIN points : Evidence!Place(points, i) = m]
  OBVIOUS
<1>13. ASSUME NEW m \in 1 .. n PROVE p[m] \in 1 .. n /\ h[p[m]] = m
  <2>1. p[m] = CHOOSE i \in DOMAIN points : Evidence!Place(points, i) = m
    BY <1>12
  <2>2. \E i \in DOMAIN points : Evidence!Place(points, i) = m
    BY <1>1, <1>7, <1>11
  <2>3. p[m] \in DOMAIN points /\ Evidence!Place(points, p[m]) = m
    BY <2>1, <2>2, Zenon
  <2> QED BY <1>1, <1>7, <2>3
<1>14. p \in [1 .. n -> 1 .. n]
  BY <1>12, <1>13
<1>15. ASSUME NEW m \in 1 .. n PROVE Evidence!ByTime(points)[m] = points[p[m]]
  <2>1. Evidence!ByTime(points) =
          [k \in DOMAIN points |->
             points[CHOOSE i \in DOMAIN points : Evidence!Place(points, i) = k]]
    BY Zenon DEF Evidence!ByTime
  <2>2. m \in DOMAIN points
    BY <1>1
  <2>3. Evidence!ByTime(points)[m] =
          points[CHOOSE i \in DOMAIN points : Evidence!Place(points, i) = m]
    BY <2>1, <2>2, Zenon
  <2> QED BY <1>12, <2>3
<1>16. ASSUME NEW i \in 1 .. n PROVE \E m \in 1 .. n : p[m] = i
  <2>1. h[i] \in 1 .. n
    BY <1>7
  <2>2. p[h[i]] \in 1 .. n /\ h[p[h[i]]] = h[i]
    BY <1>13, <2>1
  <2> QED BY <1>9, <2>1, <2>2
<1>17. ASSUME NEW a \in 1 .. n, NEW b \in 1 .. n, a < b
       PROVE  points[p[a]].time <= points[p[b]].time
  <2>1. p[a] \in 1 .. n /\ p[b] \in 1 .. n /\ h[p[a]] = a /\ h[p[b]] = b
    BY <1>13
  <2>2. ~(t[p[b]] < t[p[a]])
    BY <1>8, <1>17, <2>1
  <2>3. t[p[a]] \in Nat /\ t[p[b]] \in Nat /\ t[p[a]] = points[p[a]].time
        /\ t[p[b]] = points[p[b]].time
    BY <1>4, <2>1
  <2> QED BY <2>2, <2>3
<1> QED BY <1>1, <1>14, <1>15, <1>16, <1>17

\* The datapoints of a page come once each.
LEMMA PageIs ==
  ASSUME NEW S, IsFiniteSet(S), NEW sent \in Evidence!SetToSeqs(S)
  PROVE  /\ sent \in Seq(S) /\ Apart(sent)
         /\ \A x \in S : \E i \in DOMAIN sent : sent[i] = x
<1>1. \A U : Evidence!Cardinality(U) = Cardinality(U)
  BY Zenon DEF Evidence!Cardinality, Cardinality
<1>2. PICK n \in Nat : n = Cardinality(S)
  BY FS_CardinalityType
<1>3. sent \in [1 .. n -> S] /\ \A i, j \in 1 .. n : i # j => sent[i] # sent[j]
  BY <1>1, <1>2 DEF Evidence!SetToSeqs
<1>4. IsFiniteSet(1 .. n) /\ Cardinality(1 .. n) = n
  BY FS_Interval
<1>5. \A x \in S : \E i \in 1 .. n : sent[i] = x
  <2>1. PICK D : D = 1 .. n
    OBVIOUS
  <2>2. sent \in [D -> S] /\ Cardinality(D) = Cardinality(S)
    BY <1>2, <1>3, <1>4, <2>1
  <2>3. sent \in Injection(D, S)
    BY <1>3, <2>1, <2>2 DEF Injection, IsInjective
  <2>4. sent \in Surjection(D, S)
    BY <2>2, <2>3, FS_Injection
  <2> QED BY <2>1, <2>4 DEF Surjection
<1>6. sent \in Seq(S) /\ DOMAIN sent = 1 .. n
  BY <1>3
<1> QED BY <1>3, <1>5, <1>6 DEF Apart

\* What a series has to be for the validator: as many times as values, in order,
\* and no data only if there is none.
Ordered(s) ==
  /\ s = [metric |-> s.metric, scope |-> s.scope, statistic |-> s.statistic,
          times |-> s.times, values |-> s.values, noData |-> s.noData]
  /\ s.times \in Seq(Nat) /\ s.values \in Seq(Nat) /\ Len(s.values) = Len(s.times)
  /\ s.noData <=> s.times = <<>>
  /\ \A a, b \in 1 .. Len(s.times) : a < b => s.times[a] <= s.times[b]

\* The validator accepts such a series.
LEMMA OrderedValid ==
  ASSUME NEW s, Ordered(s), s.scope \in {"table", "gsi", "operation"}
  PROVE  Evidence!validateCloudWatchSeries(s)
<1>1. PICK t : t = s.times
  OBVIOUS
<1>2. PICK v : v = s.values
  OBVIOUS
<1>3. t \in Seq(Nat) /\ v \in Seq(Nat) /\ Len(v) = Len(t)
      /\ \A a, b \in 1 .. Len(t) : a < b => t[a] <= t[b]
  BY <1>1, <1>2 DEF Ordered
<1>4. \A i \in DOMAIN t : i > 1 => t[i - 1] <= t[i]
  <2> SUFFICES ASSUME NEW i \in DOMAIN t, i > 1 PROVE t[i - 1] <= t[i]
    OBVIOUS
  <2>1. i \in 1 .. Len(t) /\ i - 1 \in 1 .. Len(t) /\ i - 1 < i
    BY <1>3
  <2> QED BY <1>3, <2>1
<1>5. s.noData <=> t = <<>>
  BY <1>1 DEF Ordered
<1> QED BY <1>1, <1>2, <1>3, <1>4, <1>5, Zenon DEF Evidence!validateCloudWatchSeries

\* A series has a time and a value for every datapoint, and no others.
Holds(s, points) ==
  /\ \A i \in 1 .. Len(points) : \E m \in 1 .. Len(points) :
       s.times[m] = points[i].time /\ s.values[m] = points[i].value
  /\ \A m \in 1 .. Len(points) : \E i \in 1 .. Len(points) :
       s.times[m] = points[i].time /\ s.values[m] = points[i].value

\* A series holds the datapoints it is made of, and is in order.
LEMMA SeriesIs ==
  ASSUME NEW spec, NEW points \in Seq(Datapoint), NEW s, s = Evidence!Series(spec, points)
  PROVE  /\ Ordered(s) /\ s.metric = spec.metric /\ s.scope = spec.scope
         /\ s.statistic = spec.statistic /\ Len(s.times) = Len(points)
         /\ Holds(s, points)
<1>1. PICK n \in Nat : n = Len(points) /\ DOMAIN points = 1 .. n
  OBVIOUS
<1>2. PICK p \in [1 .. n -> 1 .. n] :
        /\ \A m \in 1 .. n : Evidence!ByTime(points)[m] = points[p[m]]
        /\ \A i \in 1 .. n : \E m \in 1 .. n : p[m] = i
        /\ \A a, b \in 1 .. n : a < b => points[p[a]].time <= points[p[b]].time
  <2>1. PICK q \in [1 .. Len(points) -> 1 .. Len(points)] :
          /\ \A m \in 1 .. Len(points) : Evidence!ByTime(points)[m] = points[q[m]]
          /\ \A i \in 1 .. Len(points) : \E m \in 1 .. Len(points) : q[m] = i
          /\ \A a, b \in 1 .. Len(points) : a < b => points[q[a]].time <= points[q[b]].time
    BY ByTimeIs
  <2> QED BY <1>1, <2>1
<1>3. /\ s = [metric |-> s.metric, scope |-> s.scope, statistic |-> s.statistic,
              times |-> s.times, values |-> s.values, noData |-> s.noData]
      /\ s.metric = spec.metric /\ s.scope = spec.scope /\ s.statistic = spec.statistic
      /\ s.times = [i \in DOMAIN points |-> Evidence!ByTime(points)[i].time]
      /\ s.values = [i \in DOMAIN points |-> Evidence!ByTime(points)[i].value]
      /\ s.noData = (points = <<>>)
  BY DEF Evidence!Series
<1>4. PICK t : t = s.times
  OBVIOUS
<1>5. PICK v : v = s.values
  OBVIOUS
<1>6. t = [i \in 1 .. n |-> Evidence!ByTime(points)[i].time]
      /\ v = [i \in 1 .. n |-> Evidence!ByTime(points)[i].value]
  BY <1>1, <1>3, <1>4, <1>5
<1>7. ASSUME NEW m \in 1 .. n
      PROVE  /\ t[m] = points[p[m]].time /\ v[m] = points[p[m]].value
             /\ t[m] \in Nat /\ v[m] \in Nat /\ p[m] \in 1 .. n
  <2>1. p[m] \in 1 .. n /\ points[p[m]] \in Datapoint
    BY <1>1
  <2>2. t[m] = points[p[m]].time /\ v[m] = points[p[m]].value
    BY <1>2, <1>6
  <2> QED BY <2>1, <2>2 DEF Datapoint
<1>8. t \in Seq(Nat) /\ v \in Seq(Nat) /\ Len(t) = n /\ Len(v) = n
  <2>1. t = [i \in 1 .. n |-> t[i]] /\ v = [i \in 1 .. n |-> v[i]]
    BY <1>6
  <2>2. t \in [1 .. n -> Nat] /\ v \in [1 .. n -> Nat]
    BY <1>7, <2>1
  <2> QED BY <2>2
<1>9. s.noData <=> t = <<>>
  <2>1. points = <<>> <=> n = 0
    BY <1>1
  <2>2. t = <<>> <=> n = 0
    BY <1>8
  <2> QED BY <1>3, <2>1, <2>2
<1>10. \A a, b \in 1 .. n : a < b => t[a] <= t[b]
  BY <1>2, <1>7
<1>11. Ordered(s)
  BY <1>3, <1>4, <1>5, <1>8, <1>9, <1>10, Zenon DEF Ordered
<1>12. ASSUME NEW i \in 1 .. n
       PROVE  \E m \in 1 .. n : t[m] = points[i].time /\ v[m] = points[i].value
  <2>1. PICK m \in 1 .. n : p[m] = i
    BY <1>2
  <2>2. t[m] = points[p[m]].time /\ v[m] = points[p[m]].value
    BY <1>7
  <2> QED BY <2>1, <2>2
<1>13. ASSUME NEW m \in 1 .. n
       PROVE  \E i \in 1 .. n : t[m] = points[i].time /\ v[m] = points[i].value
  BY <1>7
<1>14. Holds(s, points)
  BY <1>1, <1>4, <1>5, <1>12, <1>13, Zenon DEF Holds
<1> QED BY <1>1, <1>3, <1>4, <1>8, <1>11, <1>14

\* The last of a sequence.
LEMMA RecentIs ==
  ASSUME NEW s \in Seq(Nat)
  PROVE  \E d \in Nat : /\ Evidence!Recent(s) \in Seq(Nat) /\ d <= Len(s)
                        /\ Len(Evidence!Recent(s)) = Len(s) - d
                        /\ d = IF Len(s) > 1 THEN Len(s) - 1 ELSE 0
                        /\ \A i \in 1 .. Len(s) - d : Evidence!Recent(s)[i] = s[i + d]
<1>1. PICK n \in Nat : n = Len(s)
  OBVIOUS
<1>2. PICK d \in Nat : d = IF n > 1 THEN n - 1 ELSE 0
  BY <1>1
<1>3. Evidence!Recent(s) = SubSeq(s, d + 1, n)
  <2>1. CASE n > 1
    <3>1. d + 1 = Len(s) - 1 + 1
      BY <1>1, <1>2, <2>1
    <3> QED BY <1>1, <2>1, <3>1 DEF Evidence!Recent, Evidence!RecentPoints
  <2>2. CASE ~(n > 1)
    BY <1>1, <1>2, <2>2 DEF Evidence!Recent, Evidence!RecentPoints
  <2> QED BY <2>1, <2>2
<1>4. d <= n
  BY <1>2
<1>5. PICK r : r = SubSeq(s, d + 1, n)
  OBVIOUS
<1>6. r \in Seq(Nat) /\ Len(r) = n - d /\ \A i \in 1 .. n - d : r[i] = s[i + d]
  BY <1>1, <1>4, <1>5
<1>7. Evidence!Recent(s) = r
  BY <1>3, <1>5
<1>8. \A i \in 1 .. Len(s) - d : r[i] = s[i + d]
  BY <1>1, <1>6
<1>9. r \in Seq(Nat) /\ d <= Len(s) /\ Len(r) = Len(s) - d
      /\ d = IF Len(s) > 1 THEN Len(s) - 1 ELSE 0
  BY <1>1, <1>2, <1>4, <1>6
<1> QED BY <1>7, <1>8, <1>9, Zenon

\* A series that is cut to its last datapoints is in order still.
LEMMA RecentOrdered ==
  ASSUME NEW s, Ordered(s)
  PROVE  /\ Ordered(Evidence!RecentOnly(s)) /\ Evidence!RecentOnly(s).metric = s.metric
         /\ Evidence!RecentOnly(s).scope = s.scope /\ Evidence!RecentOnly(s).statistic = s.statistic
<1>1. PICK t : t = s.times
  OBVIOUS
<1>2. PICK v : v = s.values
  OBVIOUS
<1>3. t \in Seq(Nat) /\ v \in Seq(Nat) /\ Len(v) = Len(t) /\ (s.noData <=> t = <<>>)
      /\ \A a, b \in 1 .. Len(t) : a < b => t[a] <= t[b]
  BY <1>1, <1>2, Zenon DEF Ordered
<1>4. PICK u : u = Evidence!Recent(t)
  OBVIOUS
<1>5. PICK w : w = Evidence!Recent(v)
  OBVIOUS
<1>6. PICK n \in Nat : n = Len(t)
  BY <1>3
<1>7. PICK d \in Nat : /\ d <= n /\ u \in Seq(Nat) /\ w \in Seq(Nat)
                       /\ Len(u) = n - d /\ Len(w) = n - d /\ (n = d <=> n = 0)
                       /\ \A i \in 1 .. n - d : u[i] = t[i + d]
  <2>1. PICK d \in Nat : /\ u \in Seq(Nat) /\ d <= n /\ Len(u) = n - d
                         /\ d = IF n > 1 THEN n - 1 ELSE 0
                         /\ \A i \in 1 .. n - d : u[i] = t[i + d]
    <3>1. PICK d \in Nat : /\ Evidence!Recent(t) \in Seq(Nat) /\ d <= Len(t)
                           /\ Len(Evidence!Recent(t)) = Len(t) - d
                           /\ d = IF Len(t) > 1 THEN Len(t) - 1 ELSE 0
                           /\ \A i \in 1 .. Len(t) - d : Evidence!Recent(t)[i] = t[i + d]
      BY <1>3, RecentIs
    <3> QED BY <1>4, <1>6, <3>1
  <2>2. PICK e \in Nat : /\ w \in Seq(Nat) /\ Len(w) = n - e
                         /\ e = IF n > 1 THEN n - 1 ELSE 0
    BY <1>3, <1>5, <1>6, RecentIs
  <2>3. d = e
    BY <2>1, <2>2
  <2>4. n = d <=> n = 0
    BY <2>1
  <2> QED BY <2>1, <2>2, <2>3, <2>4
<1>8. PICK r : r = Evidence!RecentOnly(s)
  OBVIOUS
<1>9. r = [metric |-> s.metric, scope |-> s.scope, statistic |-> s.statistic,
           times |-> u, values |-> w, noData |-> s.noData]
  <2>1. PICK m : m = s.metric
    OBVIOUS
  <2>2. PICK o : o = s.scope
    OBVIOUS
  <2>3. PICK k : k = s.statistic
    OBVIOUS
  <2>4. PICK x : x = s.noData
    OBVIOUS
  <2>5. s = [metric |-> m, scope |-> o, statistic |-> k, times |-> t, values |-> v, noData |-> x]
    BY <1>1, <1>2, <2>1, <2>2, <2>3, <2>4, Zenon DEF Ordered
  <2>6. r = [s EXCEPT !.times = u, !.values = w]
    BY <1>1, <1>2, <1>4, <1>5, <1>8, Zenon DEF Evidence!RecentOnly
  <2>7. r = [metric |-> m, scope |-> o, statistic |-> k, times |-> u, values |-> w, noData |-> x]
    BY <2>5, <2>6
  <2> QED BY <2>1, <2>2, <2>3, <2>4, <2>7
<1>10. r.times = u /\ r.values = w /\ r.metric = s.metric /\ r.scope = s.scope
       /\ r.statistic = s.statistic /\ r.noData = s.noData
  BY <1>9
<1>11. s.noData <=> u = <<>>
  <2>1. (t = <<>> <=> n = 0) /\ (u = <<>> <=> n - d = 0)
    BY <1>3, <1>6, <1>7
  <2>2. n - d = 0 <=> n = 0
    BY <1>7
  <2> QED BY <1>3, <2>1, <2>2
<1>12. \A a, b \in 1 .. Len(u) : a < b => u[a] <= u[b]
  <2> SUFFICES ASSUME NEW a \in 1 .. Len(u), NEW b \in 1 .. Len(u), a < b PROVE u[a] <= u[b]
    OBVIOUS
  <2>1. a + d \in 1 .. n /\ b + d \in 1 .. n /\ a + d < b + d
    BY <1>7
  <2>2. u[a] = t[a + d] /\ u[b] = t[b + d]
    BY <1>7
  <2> QED BY <1>3, <1>6, <2>1, <2>2
<1>13. r = [metric |-> r.metric, scope |-> r.scope, statistic |-> r.statistic,
            times |-> r.times, values |-> r.values, noData |-> r.noData]
  BY <1>9
<1>14. Ordered(r)
  <2>1. u \in Seq(Nat) /\ w \in Seq(Nat) /\ Len(w) = Len(u)
    BY <1>7
  <2> QED BY <1>10, <1>11, <1>12, <1>13, <2>1, Zenon DEF Ordered
<1> QED BY <1>8, <1>10, <1>14

\* What Throttles names.
LEMMA ThrottleNames ==
  Evidence!ToSet(Evidence!Throttles) =
    {"ReadThrottleEvents", "ReadKeyRangeThroughputThrottleEvents",
     "ReadProvisionedThroughputThrottleEvents", "ReadAccountLimitThrottleEvents",
     "ReadMaxOnDemandThroughputThrottleEvents"}
<1>1. DOMAIN Evidence!Throttles = 1 .. 5
  BY DEF Evidence!Throttles
<1>2. /\ Evidence!Throttles[1] = "ReadThrottleEvents"
      /\ Evidence!Throttles[2] = "ReadKeyRangeThroughputThrottleEvents"
      /\ Evidence!Throttles[3] = "ReadProvisionedThroughputThrottleEvents"
      /\ Evidence!Throttles[4] = "ReadAccountLimitThrottleEvents"
      /\ Evidence!Throttles[5] = "ReadMaxOnDemandThroughputThrottleEvents"
  BY DEF Evidence!Throttles
<1>3. 1 .. 5 = {1, 2, 3, 4, 5}
  OBVIOUS
<1> QED BY <1>1, <1>2, <1>3 DEF Evidence!ToSet

\* A metric is throttled if one of its series counted some.
Throttled(list, m) ==
  \E i \in DOMAIN list : /\ list[i].metric = m /\ ~list[i].noData
                           /\ \E j \in DOMAIN list[i].values : list[i].values[j] > 0

\* The diagnostics of a context have codes of the list, and name what is throttled.
LEMMA NotesAre ==
  ASSUME NEW list, NEW lacks, NEW path, NEW notes1, notes1 = Evidence!Context(list, lacks, path).notes
  PROVE  /\ \A n \in notes1 : n.code \in Evidence!Codes
         /\ \A m \in Evidence!ToSet(Evidence!Throttles) :
              Evidence!Note(m, FALSE) \in notes1 <=> Throttled(list, m)
<1>1. PICK A : A = Evidence!patternNotes(path)
  OBVIOUS
<1>2. PICK B : B = Evidence!applyThrottleDiagnostics(list)
  OBVIOUS
<1>3. PICK C : C = {Evidence!Note("CLOUDWATCH_NO_DATA", FALSE) :
                      i \in {i \in DOMAIN list : list[i].noData}}
  OBVIOUS
<1>4. PICK D : D = {Evidence!Note("SECTION_COLLECTION_FAILED", TRUE) : g \in lacks}
  OBVIOUS
<1>5. PICK E : E = {Evidence!Note("OBSERVATION_BOUNDED", FALSE) :
                      i \in {i \in DOMAIN wanted.read : wanted.read[i].more}}
  OBVIOUS
<1>6. PICK F : F = IF table.count # <<>> THEN {Evidence!Note("APPROXIMATE_TABLE_METADATA", FALSE)}
                   ELSE {}
  OBVIOUS
<1>7. PICK G : G = IF wanted.monitoring THEN {}
                   ELSE {Evidence!Note("MONITORING_COLLECTION_SKIPPED", FALSE)}
  OBVIOUS
<1>8. notes1 = A \union B \union C \union D \union E \union F \union G
  BY <1>1, <1>2, <1>3, <1>4, <1>5, <1>6, <1>7, SMT DEF Evidence!Context
<1>9. PICK O : O = {"FULL_TABLE_SCAN", "FULL_INDEX_SCAN", "ACCESS_PATTERN_UNRESOLVED",
                    "OBSERVATION_BOUNDED", "APPROXIMATE_TABLE_METADATA", "CLOUDWATCH_NO_DATA",
                    "MONITORING_COLLECTION_SKIPPED", "SECTION_COLLECTION_FAILED"}
  OBVIOUS
<1>10. \A code, affects : Evidence!Note(code, affects).code = code
  BY DEF Evidence!Note
<1>11. ASSUME NEW N, NEW code \in O, NEW affects, \A n \in N : n = Evidence!Note(code, affects)
       PROVE  \A n \in N : n.code \in O
  <2> SUFFICES ASSUME NEW n \in N PROVE n.code \in O
    OBVIOUS
  <2>1. n = Evidence!Note(code, affects) /\ Evidence!Note(code, affects).code = code
    BY <1>11, <1>10
  <2> QED BY <2>1
<1>12. /\ \A n \in A : n.code \in O
       /\ \A n \in C : n.code \in O
       /\ \A n \in D : n.code \in O
       /\ \A n \in E : n.code \in O
       /\ \A n \in F : n.code \in O
       /\ \A n \in G : n.code \in O
  <2>1. /\ "FULL_TABLE_SCAN" \in O /\ "FULL_INDEX_SCAN" \in O /\ "ACCESS_PATTERN_UNRESOLVED" \in O
        /\ "OBSERVATION_BOUNDED" \in O /\ "APPROXIMATE_TABLE_METADATA" \in O
        /\ "CLOUDWATCH_NO_DATA" \in O /\ "MONITORING_COLLECTION_SKIPPED" \in O
        /\ "SECTION_COLLECTION_FAILED" \in O
    BY <1>9
  <2>2. \A n \in A : n.code \in O
    <3>1. \/ \A n \in A : n = Evidence!Note("ACCESS_PATTERN_UNRESOLVED", TRUE)
          \/ \A n \in A : n = Evidence!Note("FULL_TABLE_SCAN", FALSE)
          \/ \A n \in A : n = Evidence!Note("FULL_INDEX_SCAN", FALSE)
      <4>1. CASE path = "unknown"
        BY <1>1, <4>1 DEF Evidence!patternNotes
      <4>2. CASE path = "tableScan"
        BY <1>1, <4>2 DEF Evidence!patternNotes
      <4>3. CASE path = "indexScan"
        BY <1>1, <4>3 DEF Evidence!patternNotes
      <4>4. CASE path \notin {"unknown", "tableScan", "indexScan"}
        BY <1>1, <4>4 DEF Evidence!patternNotes
      <4> QED BY <4>1, <4>2, <4>3, <4>4
    <3> QED BY <1>11, <2>1, <3>1
  <2>3. \A n \in C : n.code \in O
    <3>1. \A n \in C : n = Evidence!Note("CLOUDWATCH_NO_DATA", FALSE)
      BY <1>3
    <3> QED BY <1>11, <2>1, <3>1
  <2>4. \A n \in D : n.code \in O
    <3>1. \A n \in D : n = Evidence!Note("SECTION_COLLECTION_FAILED", TRUE)
      BY <1>4
    <3> QED BY <1>11, <2>1, <3>1
  <2>5. \A n \in E : n.code \in O
    <3>1. \A n \in E : n = Evidence!Note("OBSERVATION_BOUNDED", FALSE)
      BY <1>5
    <3> QED BY <1>11, <2>1, <3>1
  <2>6. \A n \in F : n.code \in O
    <3>1. \A n \in F : n = Evidence!Note("APPROXIMATE_TABLE_METADATA", FALSE)
      BY <1>6
    <3> QED BY <1>11, <2>1, <3>1
  <2>7. \A n \in G : n.code \in O
    <3>1. \A n \in G : n = Evidence!Note("MONITORING_COLLECTION_SKIPPED", FALSE)
      BY <1>7
    <3> QED BY <1>11, <2>1, <3>1
  <2> QED BY <2>2, <2>3, <2>4, <2>5, <2>6, <2>7
<1>13. PICK M : M = Evidence!ToSet(Evidence!Throttles)
  OBVIOUS
<1>14. B = {Evidence!Note(code, FALSE) : code \in {m \in M : Throttled(list, m)}}
  BY <1>2, <1>13, Zenon DEF Evidence!applyThrottleDiagnostics, Throttled
<1>15. \A n \in B : n.code \in M
  BY <1>10, <1>14
<1>16. O \subseteq Evidence!Codes /\ M \subseteq Evidence!Codes /\ O \cap M = {}
  BY <1>9, <1>13, ThrottleNames DEF Evidence!Codes
<1>17. \A n \in notes1 : n.code \in O \/ n.code \in M
  BY <1>8, <1>12, <1>15
<1>18. ASSUME NEW m \in M PROVE Evidence!Note(m, FALSE) \in notes1 <=> Throttled(list, m)
  <2>1. Evidence!Note(m, FALSE) \in notes1 => Evidence!Note(m, FALSE) \in B
    BY <1>8, <1>10, <1>12, <1>16
  <2>2. Evidence!Note(m, FALSE) \in B => Throttled(list, m)
    <3> SUFFICES ASSUME Evidence!Note(m, FALSE) \in B PROVE Throttled(list, m)
      OBVIOUS
    <3>1. PICK code \in {x \in M : Throttled(list, x)} :
            Evidence!Note(m, FALSE) = Evidence!Note(code, FALSE)
      BY <1>14
    <3>2. m = code
      <4>1. Evidence!Note(m, FALSE).code = m
        BY <1>10
      <4>2. Evidence!Note(code, FALSE).code = code
        BY <1>10
      <4> QED BY <3>1, <4>1, <4>2, Zenon
    <3> QED BY <3>1, <3>2
  <2>3. Throttled(list, m) => Evidence!Note(m, FALSE) \in B
    BY <1>14
  <2>4. B \subseteq notes1
    BY <1>8
  <2> QED BY <2>1, <2>2, <2>3, <2>4
<1> QED BY <1>13, <1>16, <1>17, <1>18

\* The context that is put together, part by part.
Kept(list) == IF wanted.cut = "none" THEN list
                ELSE [i \in DOMAIN list |-> Evidence!RecentOnly(list[i])]
\* The table of the context, without the sizes of other indexes if they are cut.
KeptTable == IF wanted.cut = "sizes" THEN Evidence!TargetSizes(table, wanted.index) ELSE table

\* The context c that Put makes of the context c0 before it is cut.
IsContext(c, c0, list, lacks, path) ==
  /\ c.index = wanted.index /\ c.language = wanted.kind /\ c.statement \in {"select", "query"}
  /\ c.path = path /\ c.certain = (path # "unknown")
  /\ c.table = KeptTable /\ c.series = Kept(list)
  /\ c.observation = [i \in DOMAIN wanted.read |->
                        Evidence!buildObservation(wanted.read[i], wanted.kind)]
  /\ c.gaps = lacks \union (IF path = "unknown" THEN {"accessPattern"} ELSE {})
  /\ c.notes = IF wanted.cut = "none" THEN c0.notes
               ELSE c0.notes \union {Evidence!Note("COLLECTION_TRUNCATED", TRUE)}
  /\ c.status = IF wanted.cut = "none" THEN Evidence!StatusOf(c.gaps, c0.notes) ELSE "partial"

\* So is the context that is put together.
LEMMA ContextIs ==
  ASSUME NEW list, NEW lacks, NEW path, NEW c0, c0 = Evidence!Context(list, lacks, path),
         NEW c, c = Evidence!applyPayloadLimit(Evidence!Completed(c0), wanted.cut)
  PROVE  IsContext(c, c0, list, lacks, path)
<1>1. PICK o : o = [i \in DOMAIN wanted.read |->
                      Evidence!buildObservation(wanted.read[i], wanted.kind)]
  OBVIOUS
<1>2. PICK g : g = lacks \union (IF path = "unknown" THEN {"accessPattern"} ELSE {})
  OBVIOUS
<1>3. PICK n : n = c0.notes
  OBVIOUS
<1>4. PICK x : x = wanted.index
  OBVIOUS
<1>5. PICK k : k = wanted.kind
  OBVIOUS
<1>6. PICK q : q = IF k = "partiql" THEN "select" ELSE "query"
  OBVIOUS
<1>7. PICK b : b = (path # "unknown")
  OBVIOUS
<1>8. PICK t : t = table
  OBVIOUS
<1>9. c0 = [index |-> x, language |-> k, statement |-> q, path |-> path, certain |-> b,
            table |-> t, series |-> list, observation |-> o, status |-> "none",
            gaps |-> g, notes |-> n]
  <2>1. PICK y : y = Evidence!Context(list, lacks, path).notes
    OBVIOUS
  <2>2. n = y
    BY <1>3, <2>1
  <2>3. c0 = [index |-> x, language |-> k, statement |-> q, path |-> path, certain |-> b,
              table |-> t, series |-> list, observation |-> o, status |-> "none",
              gaps |-> g, notes |-> c0.notes]
    BY <1>1, <1>2, <1>4, <1>5, <1>6, <1>7, <1>8, SMT DEF Evidence!Context
  <2> QED BY <1>3, <2>3
<1>10. PICK s : s = Evidence!StatusOf(g, n)
  OBVIOUS
<1>11. PICK c1 : c1 = Evidence!Completed(c0)
  OBVIOUS
<1>12. c1 = [index |-> x, language |-> k, statement |-> q, path |-> path, certain |-> b,
             table |-> t, series |-> list, observation |-> o, status |-> s,
             gaps |-> g, notes |-> n]
  <2>1. c0.gaps = g /\ c0.notes = n
    BY <1>9
  <2>2. c1 = [c0 EXCEPT !.status = s]
    BY <1>10, <1>11, <2>1, Zenon DEF Evidence!Completed
  <2> QED BY <1>9, <2>2
<1>13. CASE wanted.cut = "none"
  <2>1. c = c1
    BY <1>11, <1>13 DEF Evidence!applyPayloadLimit
  <2>2. /\ c.index = x /\ c.language = k /\ c.statement = q /\ c.path = path /\ c.certain = b
        /\ c.table = t /\ c.series = list /\ c.observation = o /\ c.status = s /\ c.gaps = g
        /\ c.notes = n
    BY <1>12, <2>1
  <2>3. Kept(list) = list /\ KeptTable = t
    BY <1>8, <1>13 DEF Kept, KeptTable
  <2> QED BY <1>1, <1>2, <1>3, <1>4, <1>5, <1>6, <1>7, <1>10, <1>13, <2>2, <2>3 DEF IsContext
<1>14. CASE wanted.cut # "none"
  <2>1. PICK r : r = [i \in DOMAIN list |-> Evidence!RecentOnly(list[i])]
    OBVIOUS
  <2>2. PICK u : u = IF wanted.cut = "sizes" THEN Evidence!TargetSizes(t, x) ELSE t
    OBVIOUS
  <2>3. PICK m : m = n \union {Evidence!Note("COLLECTION_TRUNCATED", TRUE)}
    OBVIOUS
  <2>4. c1.series = list /\ c1.table = t /\ c1.index = x /\ c1.notes = n
    BY <1>12
  <2>5. c = [c1 EXCEPT !.series = r, !.table = u, !.status = "partial", !.notes = m]
    <3>1. c = [c1 EXCEPT !.series = [i \in DOMAIN c1.series |-> Evidence!RecentOnly(c1.series[i])],
                         !.table = IF wanted.cut = "sizes"
                                   THEN Evidence!TargetSizes(c1.table, c1.index) ELSE c1.table,
                         !.status = "partial",
                         !.notes = c1.notes \union {Evidence!Note("COLLECTION_TRUNCATED", TRUE)}]
      BY <1>11, <1>14, Zenon DEF Evidence!applyPayloadLimit
    <3>2. r = [i \in DOMAIN c1.series |-> Evidence!RecentOnly(c1.series[i])]
      BY <2>1, <2>4
    <3>3. u = IF wanted.cut = "sizes" THEN Evidence!TargetSizes(c1.table, c1.index) ELSE c1.table
      BY <2>2, <2>4
    <3>4. m = c1.notes \union {Evidence!Note("COLLECTION_TRUNCATED", TRUE)}
      BY <2>3, <2>4
    <3> QED BY <3>1, <3>2, <3>3, <3>4, Zenon
  <2>6. c = [index |-> x, language |-> k, statement |-> q, path |-> path, certain |-> b,
             table |-> u, series |-> r, observation |-> o, status |-> "partial",
             gaps |-> g, notes |-> m]
    BY <1>12, <2>5
  <2>7. /\ c.index = x /\ c.language = k /\ c.statement = q /\ c.path = path /\ c.certain = b
        /\ c.table = u /\ c.series = r /\ c.observation = o /\ c.status = "partial" /\ c.gaps = g
        /\ c.notes = m
    BY <2>6
  <2>8. Kept(list) = r /\ KeptTable = u
    BY <1>4, <1>8, <1>14, <2>1, <2>2 DEF Kept, KeptTable
  <2> QED BY <1>1, <1>2, <1>3, <1>4, <1>5, <1>6, <1>7, <1>14, <2>3, <2>7, <2>8 DEF IsContext
<1> QED BY <1>13, <1>14

\* An observation of a read tells a ratio, and only of what was evaluated.
LEMMA ObservationValid ==
  ASSUME NEW observed, NEW kind,
         observed.scanned # <<>> => /\ observed.scanned = <<observed.scanned[1]>> /\ observed.scanned[1] \in Nat
                                /\ observed.returned \in 0 .. observed.scanned[1]
  PROVE  Evidence!validateObservation(Evidence!buildObservation(observed, kind))
<1>1. PICK e : e = IF kind = "partiql" THEN <<>> ELSE observed.scanned
  OBVIOUS
<1>2. PICK r : r = IF kind = "partiql" \/ observed.scanned \in {<<>>, <<0>>} THEN <<>>
                   ELSE <<[of |-> observed.scanned[1], passed |-> observed.returned]>>
  OBVIOUS
<1>3. PICK o : o = Evidence!buildObservation(observed, kind)
  OBVIOUS
<1>4. o.evaluated = e /\ o.rate = r
  BY <1>1, <1>2, <1>3, SMT DEF Evidence!buildObservation
<1>5. CASE kind = "partiql" \/ observed.scanned \in {<<>>, <<0>>}
  <2>1. r = <<>>
    BY <1>2, <1>5
  <2>2. DOMAIN r = {}
    BY <2>1
  <2> QED BY <1>3, <1>4, <2>2 DEF Evidence!validateObservation
<1>6. CASE ~(kind = "partiql" \/ observed.scanned \in {<<>>, <<0>>})
  <2>1. PICK n : n = observed.scanned[1]
    OBVIOUS
  <2>2. PICK p : p = observed.returned
    OBVIOUS
  <2>3. observed.scanned = <<n>> /\ n \in Nat /\ p \in 0 .. n /\ e = observed.scanned
    BY <1>1, <1>6, <2>1, <2>2
  <2>4. n # 0 /\ e # <<>>
    BY <1>6, <2>3
  <2>5. PICK x : x = [of |-> n, passed |-> p]
    OBVIOUS
  <2>6. r = <<x>>
    BY <1>2, <1>6, <2>1, <2>2, <2>5
  <2>7. DOMAIN r = {1} /\ r[1] = x
    BY <2>6
  <2>8. x.of = n /\ x.passed = p /\ p <= n
    BY <2>3, <2>5
  <2>9. Evidence!isRatio(x)
    BY <2>4, <2>8 DEF Evidence!isRatio
  <2> QED BY <1>3, <1>4, <2>4, <2>7, <2>9 DEF Evidence!validateObservation
<1> QED BY <1>5, <1>6

\* Without the sizes of some indexes a table is as valid as before.
LEMMA SizesValid ==
  ASSUME NEW raw \in Described, NEW t, t = Evidence!mapTableContext(raw), NEW index
  PROVE  Evidence!validateTable(Evidence!TargetSizes(t, index))
<1>1. PICK l : l = t.local
  OBVIOUS
<1>2. PICK g : g = t.global
  OBVIOUS
<1>3. PICK k : k = t.keys
  OBVIOUS
<1>4. PICK a : a = t.attributes
  OBVIOUS
<1>5. PICK b : b = t.billing
  OBVIOUS
<1>6. PICK n : n = t.name
  OBVIOUS
<1>7. t = [name |-> n, billing |-> b, keys |-> k, attributes |-> a, local |-> l, global |-> g,
           capped |-> t.capped, count |-> t.count]
  BY <1>1, <1>2, <1>3, <1>4, <1>5, <1>6 DEF Evidence!mapTableContext
<1>8. PICK u : u = Evidence!TargetSizes(t, index)
  OBVIOUS
<1>9. /\ u.name = n /\ u.billing = b /\ u.keys = k /\ u.attributes = a
      /\ u.local = Evidence!Sizeless(l, index) /\ u.global = Evidence!Sizeless(g, index)
  <2>1. PICK lu : lu = Evidence!Sizeless(l, index)
    OBVIOUS
  <2>2. PICK gu : gu = Evidence!Sizeless(g, index)
    OBVIOUS
  <2>3. u = [t EXCEPT !.local = lu, !.global = gu]
    BY <1>1, <1>2, <1>8, <2>1, <2>2, Zenon DEF Evidence!TargetSizes
  <2>4. u = [name |-> n, billing |-> b, keys |-> k, attributes |-> a, local |-> lu, global |-> gu,
             capped |-> t.capped, count |-> t.count]
    <3>1. PICK x : x = t.capped
      OBVIOUS
    <3>2. PICK y : y = t.count
      OBVIOUS
    <3>3. t = [name |-> n, billing |-> b, keys |-> k, attributes |-> a, local |-> l, global |-> g,
               capped |-> x, count |-> y]
      BY <1>7, <3>1, <3>2, Zenon
    <3>4. u = [name |-> n, billing |-> b, keys |-> k, attributes |-> a, local |-> lu,
               global |-> gu, capped |-> x, count |-> y]
      <4>1. PICK z : z = [name |-> n, billing |-> b, keys |-> k, attributes |-> a, local |-> l,
                          global |-> g, capped |-> x, count |-> y]
        OBVIOUS
      <4>2. u = [z EXCEPT !.local = lu, !.global = gu]
        BY <2>3, <3>3, <4>1, Zenon
      <4> QED BY <4>1, <4>2
    <3> QED BY <3>1, <3>2, <3>4
  <2> QED BY <2>1, <2>2, <2>4
<1>10. Evidence!validateTable(t)
  BY TableValid
<1>11. /\ n # "" /\ b \in {"PROVISIONED", "PAY_PER_REQUEST", "unknown"}
       /\ Evidence!validateKeySchema(k) /\ (\A x \in a : Evidence!validAttribute(x))
       /\ \A ix \in l \union g : Evidence!validateIndex(ix)
  BY <1>1, <1>2, <1>3, <1>4, <1>5, <1>6, <1>10, Zenon DEF Evidence!validateTable
<1>12. ASSUME NEW S, S = l \/ S = g, NEW ix \in Evidence!Sizeless(S, index)
       PROVE  Evidence!validateIndex(ix)
  <2>1. PICK x \in S : ix = IF <<x.name>> = index THEN x ELSE [x EXCEPT !.count = <<>>]
    BY DEF Evidence!Sizeless
  <2>2. Evidence!validateIndex(x)
    BY <1>11, <1>12
  <2>3. \E d : x = [name |-> d.name[1], keys |-> Evidence!KeySchema(d.keys, raw.attributes),
                    count |-> d.count]
    BY <1>1, <1>2, <1>12 DEF Evidence!mapTableContext, Evidence!mapIndexes
  <2>4. ix.name = x.name /\ ix.keys = x.keys
    <3>1. CASE <<x.name>> = index
      BY <2>1, <3>1
    <3>2. CASE <<x.name>> # index
      <4>1. ix = [x EXCEPT !.count = <<>>]
        BY <2>1, <3>2
      <4> QED BY <2>3, <4>1
    <3> QED BY <3>1, <3>2
  <2> QED BY <2>2, <2>4, Zenon DEF Evidence!validateIndex
<1>13. \A ix \in u.local \union u.global : Evidence!validateIndex(ix)
  BY <1>9, <1>12
<1> QED BY <1>8, <1>9, <1>11, <1>13 DEF Evidence!validateTable

\* Series that are in order and of a scope there is.
Fine(list) ==
  \A i \in DOMAIN list : Ordered(list[i]) /\ list[i].scope \in {"table", "gsi", "operation"}

\* What is cut stays in order.
LEMMA KeptFine == ASSUME NEW list, Fine(list) PROVE Fine(Kept(list))
<1>1. CASE wanted.cut = "none"
  BY <1>1 DEF Kept
<1>2. CASE wanted.cut # "none"
  <2>1. PICK r : r = Kept(list)
    OBVIOUS
  <2>2. r = [i \in DOMAIN list |-> Evidence!RecentOnly(list[i])]
    BY <1>2, <2>1 DEF Kept
  <2>3. ASSUME NEW i \in DOMAIN list
        PROVE  Ordered(r[i]) /\ r[i].scope \in {"table", "gsi", "operation"}
    <3>1. r[i] = Evidence!RecentOnly(list[i])
      BY <2>2
    <3>2. Ordered(list[i]) /\ list[i].scope \in {"table", "gsi", "operation"}
      BY DEF Fine
    <3> QED BY <3>1, <3>2, RecentOrdered
  <2>4. DOMAIN r = DOMAIN list
    BY <2>2
  <2> QED BY <2>1, <2>3, <2>4 DEF Fine
<1> QED BY <1>1, <1>2

\* The context a request gets is accepted.
LEMMA PutAccepted ==
  ASSUME wanted \in Requests, NEW raw \in Described, table = Evidence!mapTableContext(raw),
         NEW list, Fine(list), NEW lacks \in SUBSET {"tableDefinition", "cloudWatchMetrics"},
         NEW c0, c0 = Evidence!Context(list, lacks, Evidence!Path),
         NEW c, c = Evidence!applyPayloadLimit(Evidence!Completed(c0), wanted.cut)
  PROVE  Evidence!validates(c)
<1>1. /\ wanted.kind \in {"partiql", "query"} /\ wanted.index # <<"">>
      /\ wanted.way \in {"query", "scan", "unknown"}
      /\ \A o \in Evidence!ToSet(wanted.read) :
           o.scanned # <<>> => /\ o.scanned = <<o.scanned[1]>> /\ o.scanned[1] \in Nat
                               /\ o.returned \in 0 .. o.scanned[1]
  BY EvidenceAssumption, Zenon DEF EvidenceAssumption
<1>2. PICK path : path = Evidence!Path
  OBVIOUS
<1>3. path \in {"tableQuery", "indexQuery", "tableScan", "indexScan", "unknown"}
  <2>1. CASE wanted.way = "unknown"
    BY <1>2, <2>1 DEF Evidence!Path, Evidence!PathOf
  <2>2. CASE wanted.way = "query"
    BY <1>2, <2>2 DEF Evidence!Path, Evidence!PathOf
  <2>3. CASE wanted.way = "scan"
    BY <1>2, <2>3 DEF Evidence!Path, Evidence!PathOf
  <2> QED BY <1>1, <2>1, <2>2, <2>3
<1>4. /\ c.index = wanted.index /\ c.language = wanted.kind /\ c.statement \in {"select", "query"}
      /\ c.path = path /\ c.certain = (path # "unknown")
      /\ c.table = KeptTable /\ c.series = Kept(list)
      /\ c.observation = [i \in DOMAIN wanted.read |->
                           Evidence!buildObservation(wanted.read[i], wanted.kind)]
      /\ c.gaps = lacks \union (IF path = "unknown" THEN {"accessPattern"} ELSE {})
      /\ c.notes = IF wanted.cut = "none" THEN c0.notes
                  ELSE c0.notes \union {Evidence!Note("COLLECTION_TRUNCATED", TRUE)}
      /\ c.status = IF wanted.cut = "none" THEN Evidence!StatusOf(c.gaps, c0.notes) ELSE "partial"
  <2>1. c0 = Evidence!Context(list, lacks, path)
    BY <1>2
  <2>2. IsContext(c, c0, list, lacks, path)
    BY <2>1, ContextIs
  <2> QED BY <2>2, Zenon DEF IsContext
<1>5. Evidence!validateTable(c.table)
  <2>1. CASE wanted.cut = "sizes"
    BY <1>4, <2>1, SizesValid DEF KeptTable
  <2>2. CASE wanted.cut # "sizes"
    BY <1>4, <2>2, TableValid DEF KeptTable
  <2> QED BY <2>1, <2>2
<1>6. Evidence!validateService(c)
  <2>1. c.table.name # ""
    BY <1>5, Zenon DEF Evidence!validateTable
  <2> QED BY <1>1, <1>4, <2>1 DEF Evidence!validateService
<1>7. Evidence!validateStatement(c)
  BY <1>1, <1>4 DEF Evidence!validateStatement
<1>8. Evidence!validateAccessPattern(c)
  BY <1>3, <1>4 DEF Evidence!validateAccessPattern
<1>9. Evidence!validateCollection(c)
  <2>1. \A n \in c0.notes : n.code \in Evidence!Codes
    BY <1>2, NotesAre
  <2>2. c.gaps \subseteq {"accessPattern", "tableDefinition", "cloudWatchMetrics"}
    BY <1>4
  <2>3. CASE wanted.cut = "none"
    <3>1. c.notes = c0.notes /\ c.status = Evidence!StatusOf(c.gaps, c.notes)
      BY <1>4, <2>3
    <3>2. c.status = "partial" <=> c.gaps # {} \/ \E n \in c.notes : n.affects
      <4>1. CASE c.gaps # {} \/ \E n \in c.notes : n.affects
        BY <3>1, <4>1 DEF Evidence!StatusOf
      <4>2. CASE ~(c.gaps # {} \/ \E n \in c.notes : n.affects)
        BY <3>1, <4>2 DEF Evidence!StatusOf
      <4> QED BY <4>1, <4>2
    <3> QED BY <2>1, <2>2, <3>1, <3>2, Zenon DEF Evidence!validateCollection
  <2>4. CASE wanted.cut # "none"
    <3>1. PICK n : n = Evidence!Note("COLLECTION_TRUNCATED", TRUE)
      OBVIOUS
    <3>2. n.code = "COLLECTION_TRUNCATED" /\ n.affects = TRUE
      BY <3>1 DEF Evidence!Note
    <3>3. n.code \in Evidence!Codes
      BY <3>2 DEF Evidence!Codes
    <3>4. c.notes = c0.notes \union {n} /\ c.status = "partial"
      BY <1>4, <2>4, <3>1
    <3>5. \A x \in c.notes : x.code \in Evidence!Codes
      BY <2>1, <3>3, <3>4, Zenon
    <3>6. \E x \in c.notes : x.affects
      BY <3>2, <3>4, Zenon
    <3> QED BY <2>2, <3>4, <3>5, <3>6, Zenon DEF Evidence!validateCollection
  <2> QED BY <2>3, <2>4
<1>10. \A i \in DOMAIN c.observation : Evidence!validateObservation(c.observation[i])
  <2> SUFFICES ASSUME NEW i \in DOMAIN wanted.read
               PROVE  Evidence!validateObservation(
                        Evidence!buildObservation(wanted.read[i], wanted.kind))
    BY <1>4
  <2>1. wanted.read[i] \in Evidence!ToSet(wanted.read)
    BY DEF Evidence!ToSet
  <2> QED BY <1>1, <2>1, ObservationValid
<1>11. \A i \in DOMAIN c.series : Evidence!validateCloudWatchSeries(c.series[i])
  <2>1. Fine(c.series)
    BY <1>4, KeptFine
  <2> QED BY <2>1, OrderedValid DEF Fine
<1> QED BY <1>5, <1>6, <1>7, <1>8, <1>9, <1>10, <1>11, Zenon DEF Evidence!validates

\* The request goes by the keys of what it names: the table, or an index of it.
Aimed(aim) ==
  /\ aim = <<>> \/ aim = <<aim[1]>>
  /\ aim # <<>> =>
       /\ aim[1].type \in {"table", "GSI", "LSI"}
       /\ wanted.index = <<>> => aim[1].keys = table.keys
       /\ wanted.index # <<>> =>
            \E ix \in table.local \union table.global :
              <<ix.name>> = wanted.index /\ ix.keys = aim[1].keys
       /\ aim[1].type = "GSI" => \E ix \in table.global : <<ix.name>> = wanted.index

\* The keys that are resolved are those.
LEMMA TargetAimed ==
  ASSUME wanted \in Requests
  PROVE  Aimed(Evidence!resolveTargetKeySchema(table, wanted.index))
<1>1. PICK x : x = wanted.index
  OBVIOUS
<1>2. x = <<>> \/ x = <<x[1]>>
  BY <1>1, EvidenceAssumption DEF EvidenceAssumption
<1>3. PICK G : G = Evidence!Named(table.global, x[1])
  OBVIOUS
<1>4. PICK L : L = Evidence!Named(table.local, x[1])
  OBVIOUS
<1>5. /\ \A ix \in G : ix \in table.global /\ ix.name = x[1]
      /\ \A ix \in L : ix \in table.local /\ ix.name = x[1]
  BY <1>3, <1>4 DEF Evidence!Named
<1>6. PICK aim : aim = Evidence!resolveTargetKeySchema(table, x)
  OBVIOUS
<1>7. CASE x = <<>>
  <2>1. PICK a : a = [keys |-> table.keys, type |-> "table"]
    OBVIOUS
  <2>2. aim = <<a>>
    BY <1>6, <1>7, <2>1, SMT DEF Evidence!resolveTargetKeySchema
  <2>3. aim # <<>> /\ aim[1] = a /\ a.type = "table" /\ a.keys = table.keys
    BY <2>1, <2>2
  <2> QED BY <1>1, <1>6, <1>7, <2>2, <2>3 DEF Aimed
<1>8. CASE x # <<>> /\ G # {}
  <2>1. PICK ix \in G : ix = Evidence!One(G)
    BY <1>8 DEF Evidence!One
  <2>2. PICK a : a = [keys |-> ix.keys, type |-> "GSI"]
    OBVIOUS
  <2>3. aim = <<a>>
    BY <1>3, <1>6, <1>8, <2>1, <2>2, SMT DEF Evidence!resolveTargetKeySchema
  <2>4. aim # <<>> /\ aim[1] = a /\ a.type = "GSI" /\ a.keys = ix.keys
    BY <2>2, <2>3
  <2>5. ix \in table.global /\ <<ix.name>> = x
    <3>1. ix \in table.global /\ ix.name = x[1]
      BY <1>5
    <3> QED BY <1>2, <1>8, <3>1, Zenon
  <2> QED BY <1>1, <1>6, <1>8, <2>3, <2>4, <2>5 DEF Aimed
<1>9. CASE x # <<>> /\ G = {} /\ L # {}
  <2>1. PICK ix \in L : ix = Evidence!One(L)
    BY <1>9 DEF Evidence!One
  <2>2. PICK a : a = [keys |-> ix.keys, type |-> "LSI"]
    OBVIOUS
  <2>3. aim = <<a>>
    BY <1>3, <1>4, <1>6, <1>9, <2>1, <2>2, SMT DEF Evidence!resolveTargetKeySchema
  <2>4. aim # <<>> /\ aim[1] = a /\ a.type = "LSI" /\ a.keys = ix.keys
    BY <2>2, <2>3
  <2>5. ix \in table.local /\ <<ix.name>> = x
    <3>1. ix \in table.local /\ ix.name = x[1]
      BY <1>5
    <3> QED BY <1>2, <1>9, <3>1, Zenon
  <2> QED BY <1>1, <1>6, <1>9, <2>3, <2>4, <2>5 DEF Aimed
<1>10. CASE x # <<>> /\ G = {} /\ L = {}
  <2>1. aim = <<>>
    BY <1>3, <1>4, <1>6, <1>10, SMT DEF Evidence!resolveTargetKeySchema
  <2> QED BY <1>1, <1>6, <2>1 DEF Aimed
<1> QED BY <1>7, <1>8, <1>9, <1>10

\* Of the datapoints M, those of L are to come: they are not in the list g.
ToCome(L, M, g) == \A p \in M : p \in L <=> ~ \E j \in DOMAIN g : g[j] = p

\* The series that are asked for, and what has come of the datapoints CloudWatch
\* has of one.
Specs == Evidence!buildSeriesSpecs(table, target[1].type)

\* Of the i-th series: what came is of what there is, and the rest is to come.
SoFar(i) ==
  /\ measured[i] \subseteq Points(Specs[i]) /\ left[i] \subseteq measured[i]
  /\ got[i] \in Seq(measured[i]) /\ Apart(got[i])
  /\ ToCome(left[i], measured[i], got[i])

\* That holds of every series that was asked for.
Arrived ==
  /\ DOMAIN measured = DOMAIN Specs /\ DOMAIN left = DOMAIN Specs /\ DOMAIN got = DOMAIN Specs
  /\ \A i \in DOMAIN Specs : SoFar(i)

\* The inductive invariant of DynamoEvidence.
EvidenceInv ==
  /\ wanted \in Requests /\ \E raw \in Described : table = Evidence!mapTableContext(raw)
  /\ Aimed(target)
  /\ phase \in {"ask", "metrics", "assemble"} => target # <<>>
  /\ phase # "end" => evidence = <<>>
  /\ phase \in {"start", "ask", "assemble"} => measured = <<>>
  /\ phase = "metrics" => Arrived
  /\ Evidence!EvidenceAccepted /\ Evidence!OwnDatapoints /\ Evidence!ThrottlingTold
  /\ Evidence!GoesByItsKeys

\* As long as there is no context, nothing is said of it.
LEMMA Nothing ==
  ASSUME Aimed(target), evidence = <<>>
  PROVE  /\ Evidence!EvidenceAccepted /\ Evidence!OwnDatapoints /\ Evidence!ThrottlingTold
         /\ Evidence!GoesByItsKeys
<1>1. DOMAIN evidence = {} /\ Evidence!ToSet(evidence) = {}
  BY DEF Evidence!ToSet
<1>2. \A t \in Evidence!ToSet(target) : target # <<>> /\ t = target[1]
  BY DEF Aimed, Evidence!ToSet
<1>3. Evidence!EvidenceAccepted
  BY <1>1, Zenon DEF Evidence!EvidenceAccepted
<1>4. Evidence!OwnDatapoints
  BY <1>1, Zenon DEF Evidence!OwnDatapoints
<1>5. Evidence!ThrottlingTold
  BY <1>1, Zenon DEF Evidence!ThrottlingTold
<1>6. ASSUME NEW t \in Evidence!ToSet(target)
      PROVE  /\ wanted.index = <<>> => t.keys = table.keys
             /\ wanted.index # <<>> =>
                  \E ix \in table.local \union table.global :
                    <<ix.name>> = wanted.index /\ ix.keys = t.keys
  BY <1>2, Zenon DEF Aimed
<1>7. Evidence!GoesByItsKeys
  BY <1>1, <1>6, Zenon DEF Evidence!GoesByItsKeys
<1> QED BY <1>3, <1>4, <1>5, <1>7

\* Initially nothing is known but the request and the table.
LEMMA EvidenceInit == Evidence!Init => EvidenceInv
<1> SUFFICES ASSUME Evidence!Init PROVE EvidenceInv
  OBVIOUS
<1>1. /\ phase = "start" /\ wanted \in Requests /\ target = <<>> /\ measured = <<>>
      /\ evidence = <<>> /\ \E raw \in Described : table = Evidence!mapTableContext(raw)
  BY DEF Evidence!Init
<1>2. Aimed(target)
  BY <1>1 DEF Aimed
<1> QED BY <1>1, <1>2, Nothing DEF EvidenceInv

\* A list of the elements of a finite set, each once, is as long as the set is large.
LEMMA CountedOnce ==
  ASSUME NEW S, IsFiniteSet(S), NEW s \in Seq(S), Apart(s),
         \A x \in S : \E j \in DOMAIN s : s[j] = x
  PROVE  Cardinality(S) = Len(s)
<1>1. PICK n \in Nat : n = Len(s) /\ DOMAIN s = 1 .. n
  OBVIOUS
<1>2. PICK D : D = 1 .. n
  OBVIOUS
<1>3. s \in [D -> S] /\ DOMAIN s = D
  BY <1>1, <1>2
<1>4. s \in Injection(D, S)
  BY <1>3 DEF Apart, Injection, IsInjective
<1>5. s \in Surjection(D, S)
  BY <1>3 DEF Surjection
<1>6. IsFiniteSet(D) /\ Cardinality(D) = n
  BY <1>2, FS_Interval
<1>7. Cardinality(S) = Cardinality(D)
  BY <1>4, <1>5, <1>6, FS_Surjection
<1> QED BY <1>1, <1>6, <1>7

\* What a series tells of the datapoints S there are: them, each once, and whether
\* one of them counts something.
Tells(s, S) ==
  /\ Evidence!PointsOf(s) = S
  /\ Len(s.times) = Evidence!Cardinality(S)
  /\ (~s.noData /\ \E j \in DOMAIN s.values : s.values[j] > 0) <=> \E p \in S : p.value > 0

\* A series of what came tells of what there is, when all of it has come.
LEMMA SeriesTells ==
  ASSUME NEW S \in SUBSET Datapoint, IsFiniteSet(S), NEW points \in Seq(S), Apart(points),
         \A x \in S : \E j \in DOMAIN points : points[j] = x,
         NEW spec, NEW s, s = Evidence!Series(spec, points)
  PROVE  Tells(s, S)
<1>1. PICK n \in Nat : n = Len(points) /\ DOMAIN points = 1 .. n
  OBVIOUS
<1>2. points \in Seq(Datapoint)
  BY Wider
<1>3. PICK t : t = s.times
  OBVIOUS
<1>4. PICK v : v = s.values
  OBVIOUS
<1>5. /\ Ordered(s) /\ Len(t) = n
      /\ \A i \in 1 .. n : \E m \in 1 .. n : t[m] = points[i].time /\ v[m] = points[i].value
      /\ \A m \in 1 .. n : \E i \in 1 .. n : t[m] = points[i].time /\ v[m] = points[i].value
  <2>1. Ordered(s) /\ Len(s.times) = Len(points) /\ Holds(s, points)
    BY <1>2, SeriesIs
  <2> QED BY <1>1, <1>3, <1>4, <2>1, Zenon DEF Holds
<1>6. t \in Seq(Nat) /\ v \in Seq(Nat) /\ Len(v) = n /\ (s.noData <=> t = <<>>)
  BY <1>3, <1>4, <1>5, Zenon DEF Ordered
<1>7. DOMAIN t = 1 .. n /\ DOMAIN v = 1 .. n /\ (t = <<>> <=> n = 0)
  BY <1>5, <1>6
<1>8. \A i \in 1 .. n : points[i] \in S
  BY <1>1
<1>9. PICK T : T = {[time |-> t[j], value |-> v[j]] : j \in 1 .. n}
  OBVIOUS
<1>10. ASSUME NEW x \in T PROVE x \in S
  <2>1. PICK m \in 1 .. n : x = [time |-> t[m], value |-> v[m]]
    BY <1>9
  <2>2. PICK i \in 1 .. n : t[m] = points[i].time /\ v[m] = points[i].value
    BY <1>5
  <2>3. points[i] \in S /\ points[i] \in Datapoint
    BY <1>8
  <2>4. x = points[i]
    BY <2>1, <2>2, <2>3 DEF Datapoint
  <2> QED BY <2>3, <2>4
<1>11. ASSUME NEW x \in S PROVE x \in T
  <2>1. PICK i \in 1 .. n : points[i] = x
    BY <1>1
  <2>2. PICK m \in 1 .. n : t[m] = points[i].time /\ v[m] = points[i].value
    BY <1>5
  <2>3. x \in Datapoint
    OBVIOUS
  <2>4. x = [time |-> t[m], value |-> v[m]]
    BY <2>1, <2>2, <2>3 DEF Datapoint
  <2> QED BY <1>9, <2>4
<1>12. Evidence!PointsOf(s) = S
  <2>1. T = S
    BY <1>10, <1>11
  <2>2. Evidence!PointsOf(s) = T
    BY <1>3, <1>4, <1>7, <1>9 DEF Evidence!PointsOf
  <2> QED BY <2>1, <2>2
<1>13. Len(s.times) = Evidence!Cardinality(S)
  <2>1. \A A : Evidence!Cardinality(A) = Cardinality(A)
    BY Zenon DEF Evidence!Cardinality, Cardinality
  <2>2. Cardinality(S) = n
    BY <1>1, CountedOnce
  <2> QED BY <1>3, <1>5, <2>1, <2>2
<1>14. ASSUME ~s.noData, NEW j \in DOMAIN v, v[j] > 0 PROVE \E p \in S : p.value > 0
  <2>1. PICK i \in 1 .. n : t[j] = points[i].time /\ v[j] = points[i].value
    BY <1>5, <1>7
  <2> QED BY <1>8, <1>14, <2>1
<1>15. ASSUME NEW p \in S, p.value > 0 PROVE ~s.noData /\ \E j \in DOMAIN v : v[j] > 0
  <2>1. PICK i \in 1 .. n : points[i] = p
    BY <1>1
  <2>2. PICK m \in 1 .. n : t[m] = points[i].time /\ v[m] = points[i].value
    BY <1>5
  <2>3. n # 0 /\ m \in DOMAIN v /\ v[m] > 0
    BY <1>7, <1>15, <2>1, <2>2
  <2> QED BY <1>6, <1>7, <2>3
<1>16. (~s.noData /\ \E j \in DOMAIN s.values : s.values[j] > 0) <=> \E p \in S : p.value > 0
  BY <1>4, <1>14, <1>15, Zenon
<1> QED BY <1>12, <1>13, <1>16, Zenon DEF Tells

\* What may be asked for: the series of a table have datapoints, and a scope.
LEMMA SpecsAre ==
  ASSUME NEW raw \in Described, table = Evidence!mapTableContext(raw),
         Aimed(target), target # <<>>
  PROVE  /\ Specs \in Seq(OfScope("table") \union OfScope("gsi") \union OfScope("operation"))
         /\ Apart(Specs)
         /\ \A i \in DOMAIN Specs : /\ IsFiniteSet(Points(Specs[i])) /\ Points(Specs[i]) \subseteq Datapoint
                                    /\ Specs[i].scope \in {"table", "gsi", "operation"}
                                    /\ Specs[i].scope = "gsi" => target[1].type = "GSI"
<1>1. PICK y : y = target[1].type
  OBVIOUS
<1>2. y \in {"table", "LSI", "GSI"}
  BY <1>1 DEF Aimed
<1>3. PICK s : s = Evidence!buildSeriesSpecs(table, y)
  OBVIOUS
<1>4. s = Specs
  BY <1>1, <1>3 DEF Specs
<1>5. PICK E : E = OfScope("table") \union OfScope("gsi") \union OfScope("operation")
  OBVIOUS
<1>6. s \in Seq(E) /\ Apart(s) /\ \A i \in DOMAIN s : s[i].scope = "gsi" => y = "GSI"
  BY <1>3, <1>5, SpecsApart
<1>7. ASSUME NEW i \in DOMAIN s
      PROVE  /\ IsFiniteSet(Points(s[i])) /\ Points(s[i]) \subseteq Datapoint
             /\ s[i].scope \in {"table", "gsi", "operation"}
  <2>1. \A x \in Evidence!ToSet(Evidence!buildSeriesSpecs(Evidence!mapTableContext(raw), y)) :
          IsFiniteSet(Points(x)) /\ Points(x) \subseteq [time : Nat, value : Nat]
    BY <1>2, EvidenceAssumption, Zenon DEF EvidenceAssumption
  <2>2. s[i] \in Evidence!ToSet(s)
    BY DEF Evidence!ToSet
  <2>3. IsFiniteSet(Points(s[i])) /\ Points(s[i]) \subseteq Datapoint
    BY <1>3, <2>1, <2>2, Zenon DEF Datapoint
  <2>4. s[i] \in E
    BY <1>6
  <2>5. \A scope, x : x \in OfScope(scope) => x.scope = scope
    BY DEF OfScope, Evidence!Spec
  <2>6. s[i].scope \in {"table", "gsi", "operation"}
    BY <1>5, <2>4, <2>5
  <2> QED BY <2>3, <2>6
<1> QED BY <1>1, <1>4, <1>5, <1>6, <1>7

\* The series a context has: one of each that was asked for, each telling of what
\* there is of it, and none twice.
Complete(list) ==
  /\ DOMAIN list = DOMAIN measured /\ Len(list) = Len(measured)
  /\ \A i \in DOMAIN list : Tells(list[i], measured[i])
  /\ \A i, j \in DOMAIN list : i # j => \/ list[i].metric # list[j].metric
                                          \/ list[i].scope # list[j].scope
                                          \/ list[i].statistic # list[j].statistic

\* Of an index there are series only if it is a global one.
OfIndex(list) ==
  \A i \in DOMAIN list : list[i].scope = "gsi" => \E ix \in table.global : <<ix.name>> = wanted.index

\* A context that is put together says what it should: all there is, or that the
\* metrics are missing.
LEMMA PutInv ==
  ASSUME EvidenceInv, NEW list, Fine(list), OfIndex(list),
         NEW lacks \in SUBSET {"tableDefinition", "cloudWatchMetrics"},
         lacks # {} \/ measured = <<>> \/ Complete(list),
         Evidence!Put(Evidence!Context(list, lacks, Evidence!Path))
  PROVE  EvidenceInv'
<1>1. PICK path : path = Evidence!Path
  OBVIOUS
<1>2. PICK c0 : c0 = Evidence!Context(list, lacks, path)
  OBVIOUS
<1>3. PICK c : c = Evidence!applyPayloadLimit(Evidence!Completed(c0), wanted.cut)
  OBVIOUS
<1>4. evidence' = <<c>> /\ phase' = "end" /\ wanted' = wanted /\ table' = table
      /\ target' = target /\ measured' = measured
  BY <1>1, <1>2, <1>3 DEF Evidence!Put
<1>5. DOMAIN evidence' = {1} /\ evidence'[1] = c /\ Evidence!ToSet(evidence') = {c}
  BY <1>4 DEF Evidence!ToSet
<1>6. IsContext(c, c0, list, lacks, path)
  BY <1>2, <1>3, ContextIs
<1>7. PICK raw \in Described : table = Evidence!mapTableContext(raw)
  BY DEF EvidenceInv
<1>8. wanted \in Requests /\ Aimed(target) /\ Evidence!GoesByItsKeys
  BY DEF EvidenceInv
<1>9. Evidence!validates(c)
  BY <1>1, <1>2, <1>3, <1>7, <1>8, PutAccepted
<1>10. Evidence!EvidenceAccepted'
  BY <1>5, <1>9, Zenon DEF Evidence!EvidenceAccepted
<1>11. c.gaps = lacks \union (IF path = "unknown" THEN {"accessPattern"} ELSE {})
       /\ c.series = Kept(list)
       /\ c.notes = IF wanted.cut = "none" THEN c0.notes
                    ELSE c0.notes \union {Evidence!Note("COLLECTION_TRUNCATED", TRUE)}
  BY <1>6, Zenon DEF IsContext
<1>12. (measured # <<>> /\ c.gaps \subseteq {"accessPattern"}) => Complete(list)
  <2>1. lacks # {} => ~(c.gaps \subseteq {"accessPattern"})
    BY <1>11
  <2> QED BY <2>1
<1>13. Evidence!OwnDatapoints'
  <2> SUFFICES ASSUME measured' # <<>>, wanted'.cut = "none",
                      NEW d \in Evidence!ToSet(evidence'), d.gaps \subseteq {"accessPattern"}
               PROVE  /\ Len(d.series) = Len(measured')
                      /\ \A i \in DOMAIN d.series :
                           /\ Evidence!PointsOf(d.series[i]) = measured'[i]
                           /\ Len(d.series[i].times) = Evidence!Cardinality(measured'[i])
                      /\ \A i, j \in DOMAIN d.series :
                           i # j => \/ d.series[i].metric # d.series[j].metric
                                    \/ d.series[i].scope # d.series[j].scope
                                    \/ d.series[i].statistic # d.series[j].statistic
    BY SMT DEF Evidence!OwnDatapoints
  <2>1. d = c /\ measured' = measured /\ wanted.cut = "none"
    BY <1>4, <1>5
  <2>2. Complete(list) /\ d.series = list
    BY <1>11, <1>12, <2>1 DEF Kept
  <2>3. Len(d.series) = Len(measured')
    BY <2>1, <2>2, Zenon DEF Complete
  <2>4. \A i \in DOMAIN d.series : Tells(d.series[i], measured'[i])
    BY <2>1, <2>2, Zenon DEF Complete
  <2>5. \A i \in DOMAIN d.series :
          /\ Evidence!PointsOf(d.series[i]) = measured'[i]
          /\ Len(d.series[i].times) = Evidence!Cardinality(measured'[i])
    BY <2>4, Zenon DEF Tells
  <2>6. \A i, j \in DOMAIN d.series :
          i # j => \/ d.series[i].metric # d.series[j].metric
                   \/ d.series[i].scope # d.series[j].scope
                   \/ d.series[i].statistic # d.series[j].statistic
    BY <2>2, Zenon DEF Complete
  <2> QED BY <2>3, <2>5, <2>6, Zenon
<1>14. Evidence!ThrottlingTold'
  <2> SUFFICES ASSUME measured # <<>>, c.gaps \subseteq {"accessPattern"},
                      NEW m \in Evidence!ToSet(Evidence!Throttles)
               PROVE  Evidence!Note(m, FALSE) \in c.notes
                        <=> \E i \in DOMAIN measured : /\ c.series[i].metric = m
                                                       /\ \E p \in measured[i] : p.value > 0
    BY <1>4, <1>5, Zenon DEF Evidence!ThrottlingTold
  <2>1. Complete(list)
    BY <1>12
  <2>2. Evidence!Note(m, FALSE) \in c0.notes <=> Throttled(list, m)
    BY <1>2, NotesAre
  <2>3. Evidence!Note(m, FALSE) \in c.notes <=> Evidence!Note(m, FALSE) \in c0.notes
    <3>1. Evidence!Note(m, FALSE) # Evidence!Note("COLLECTION_TRUNCATED", TRUE)
      <4>1. Evidence!Note(m, FALSE).affects = FALSE
            /\ Evidence!Note("COLLECTION_TRUNCATED", TRUE).affects = TRUE
        BY DEF Evidence!Note
      <4> QED BY <4>1
    <3> QED BY <1>11, <3>1
  <2>4. Throttled(list, m) <=> \E i \in DOMAIN measured : /\ list[i].metric = m
                                                            /\ \E p \in measured[i] : p.value > 0
    <3>1. DOMAIN list = DOMAIN measured
      BY <2>1 DEF Complete
    <3>2. \A i \in DOMAIN list :
            (~list[i].noData /\ \E j \in DOMAIN list[i].values : list[i].values[j] > 0)
              <=> \E p \in measured[i] : p.value > 0
      BY <2>1, Zenon DEF Complete, Tells
    <3> QED BY <3>1, <3>2, Zenon DEF Throttled
  <2>5. \A i \in DOMAIN list : c.series[i].metric = list[i].metric
    <3>1. CASE wanted.cut = "none"
      BY <1>11, <3>1 DEF Kept
    <3>2. CASE wanted.cut # "none"
      <4> SUFFICES ASSUME NEW i \in DOMAIN list PROVE c.series[i].metric = list[i].metric
        OBVIOUS
      <4>1. c.series = [k \in DOMAIN list |-> Evidence!RecentOnly(list[k])]
        BY <1>11, <3>2 DEF Kept
      <4>2. Ordered(list[i]) /\ c.series[i] = Evidence!RecentOnly(list[i])
        BY <4>1 DEF Fine
      <4> QED BY <4>2, RecentOrdered
    <3> QED BY <3>1, <3>2
  <2>6. DOMAIN list = DOMAIN measured
    BY <2>1 DEF Complete
  <2> QED BY <2>2, <2>3, <2>4, <2>5, <2>6, Zenon
<1>15. ASSUME NEW i \in DOMAIN c.series, c.series[i].scope = "gsi"
       PROVE  \E ix \in table.global : <<ix.name>> = wanted.index
  <2>1. CASE wanted.cut = "none"
    BY <1>11, <1>15, <2>1 DEF Kept, OfIndex
  <2>2. CASE wanted.cut # "none"
    <3>1. c.series = [k \in DOMAIN list |-> Evidence!RecentOnly(list[k])]
      BY <1>11, <2>2 DEF Kept
    <3>2. i \in DOMAIN list /\ c.series[i] = Evidence!RecentOnly(list[i])
      BY <3>1
    <3>3. Ordered(list[i])
      BY <3>2 DEF Fine
    <3>4. list[i].scope = "gsi"
      BY <1>15, <3>2, <3>3, RecentOrdered
    <3> QED BY <3>2, <3>4 DEF OfIndex
  <2> QED BY <2>1, <2>2
<1>16. Evidence!GoesByItsKeys'
  <2>1. \A t \in Evidence!ToSet(target) :
          /\ wanted.index = <<>> => t.keys = table.keys
          /\ wanted.index # <<>> => \E ix \in table.local \union table.global :
                                      <<ix.name>> = wanted.index /\ ix.keys = t.keys
    BY <1>8, Zenon DEF Evidence!GoesByItsKeys
  <2>2. Evidence!ToSet(target') = Evidence!ToSet(target)
    BY <1>4
  <2>3. \A t \in Evidence!ToSet(target') :
          /\ wanted'.index = <<>> => t.keys = table'.keys
          /\ wanted'.index # <<>> => \E ix \in table'.local \union table'.global :
                                       <<ix.name>> = wanted'.index /\ ix.keys = t.keys
    BY <1>4, <2>1, <2>2, Zenon
  <2>4. \A d \in Evidence!ToSet(evidence') : \A i \in DOMAIN d.series :
          d.series[i].scope = "gsi" => \E ix \in table'.global : <<ix.name>> = wanted'.index
    BY <1>4, <1>5, <1>15, Zenon
  <2> QED BY <2>3, <2>4, Zenon DEF Evidence!GoesByItsKeys
<1>17. Aimed(target)'
  BY <1>4, <1>8, Zenon DEF Aimed
<1>18. wanted' \in Requests /\ \E r \in Described : table' = Evidence!mapTableContext(r)
  BY <1>4, <1>7, <1>8, Zenon
<1>19. phase' \notin {"start", "ask", "metrics", "assemble"} /\ phase' = "end"
  BY <1>4
<1> QED BY <1>10, <1>13, <1>14, <1>16, <1>17, <1>18, <1>19, Zenon DEF EvidenceInv

\* The same of the next state.
LEMMA NothingYet ==
  (Aimed(target) /\ evidence = <<>> =>
     /\ Evidence!EvidenceAccepted /\ Evidence!OwnDatapoints /\ Evidence!ThrottlingTold
     /\ Evidence!GoesByItsKeys)'
<1>1. Aimed(target) /\ evidence = <<>> =>
        /\ Evidence!EvidenceAccepted /\ Evidence!OwnDatapoints /\ Evidence!ThrottlingTold
        /\ Evidence!GoesByItsKeys
  BY Nothing
<1> QED BY <1>1, PTL

\* A request finds its keys, or ends.
LEMMA ResolveInv == ASSUME EvidenceInv, Evidence!Resolve PROVE EvidenceInv'
<1>1. /\ phase = "start" /\ target' = Evidence!resolveTargetKeySchema(table, wanted.index)
      /\ phase' = IF target' = <<>> THEN "end" ELSE IF wanted.monitoring THEN "ask" ELSE "assemble"
      /\ wanted' = wanted /\ table' = table /\ measured' = measured /\ evidence' = evidence
  BY DEF Evidence!Resolve
<1>2. wanted \in Requests /\ evidence = <<>> /\ measured = <<>>
      /\ \E raw \in Described : table = Evidence!mapTableContext(raw)
  BY <1>1 DEF EvidenceInv
<1>3. Aimed(target')
  BY <1>1, <1>2, TargetAimed
<1>4. Aimed(target)'
  BY <1>1, <1>3, Zenon DEF Aimed
<1>5. evidence' = <<>> /\ measured' = <<>> /\ wanted' \in Requests
      /\ \E raw \in Described : table' = Evidence!mapTableContext(raw)
  BY <1>1, <1>2
<1>6. phase' # "metrics" /\ (phase' \in {"ask", "assemble"} => target' # <<>>)
  BY <1>1
<1> QED BY <1>4, <1>5, <1>6, NothingYet DEF EvidenceInv

\* The metrics are asked for: of each series nothing has come.
LEMMA AskInv == ASSUME EvidenceInv, Evidence!Ask PROVE EvidenceInv'
<1>1. /\ phase = "ask" /\ phase' = "metrics" /\ wanted' = wanted /\ table' = table
      /\ target' = target /\ evidence' = evidence
  BY DEF Evidence!Ask
<1>2. PICK some :
        /\ measured' = [i \in DOMAIN Specs |-> {p \in Points(Specs[i]) : <<i, p>> \in some}]
        /\ left' = measured' /\ got' = [i \in DOMAIN Specs |-> <<>>]
  <2>1. PICK specs \in {Specs} :
          /\ \E some \in SUBSET UNION {{i} \X Points(specs[i]) : i \in DOMAIN specs} :
               measured' = [i \in DOMAIN specs |-> {p \in Points(specs[i]) : <<i, p>> \in some}]
          /\ left' = measured' /\ got' = [i \in DOMAIN specs |-> <<>>]
    BY Zenon DEF Evidence!Ask, Specs
  <2> QED BY <2>1
<1>3. wanted \in Requests /\ evidence = <<>> /\ Aimed(target) /\ target # <<>>
      /\ \E raw \in Described : table = Evidence!mapTableContext(raw)
  BY <1>1 DEF EvidenceInv
<1>4. Specs' = Specs
  BY <1>1 DEF Specs
<1>5. ASSUME NEW i \in DOMAIN Specs
      PROVE  /\ measured'[i] \subseteq Points(Specs[i]) /\ left'[i] = measured'[i]
             /\ got'[i] \in Seq(measured'[i]) /\ Apart(got'[i]) /\ DOMAIN got'[i] = {}
  <2>1. got'[i] = <<>> /\ measured'[i] \subseteq Points(Specs[i]) /\ left'[i] = measured'[i]
    BY <1>2
  <2> QED BY <2>1 DEF Apart
<1>6. Arrived'
  <2>1. ASSUME NEW i \in DOMAIN Specs PROVE SoFar(i)'
    BY <1>4, <1>5 DEF SoFar, ToCome
  <2> QED BY <1>2, <1>4, <2>1 DEF Arrived
<1>7. Aimed(target)'
  BY <1>1, <1>3, Zenon DEF Aimed
<1>8. evidence' = <<>> /\ target' # <<>> /\ wanted' \in Requests /\ phase' = "metrics"
      /\ \E raw \in Described : table' = Evidence!mapTableContext(raw)
  BY <1>1, <1>3
<1> QED BY <1>6, <1>7, <1>8, NothingYet DEF EvidenceInv

\* What a page brings is put behind what has come.
LEMMA PageAppended ==
  ASSUME NEW M, NEW L \in SUBSET M, NEW g \in Seq(M), Apart(g),
         ToCome(L, M, g),
         NEW some \in SUBSET L, NEW sent \in Seq(some), Apart(sent),
         \A x \in some : \E j \in DOMAIN sent : sent[j] = x,
         NEW h, h = g \o sent
  PROVE  h \in Seq(M) /\ Apart(h) /\ ToCome(L \ some, M, h)
<1>1. PICK A : A = M \ L
  OBVIOUS
<1>2. DOMAIN g = 1 .. Len(g) /\ Len(g) \in Nat /\ DOMAIN sent = 1 .. Len(sent) /\ Len(sent) \in Nat
  OBVIOUS
<1>3. g \in Seq(A)
  <2>1. \A j \in 1 .. Len(g) : g[j] \in A
    <3> SUFFICES ASSUME NEW j \in 1 .. Len(g) PROVE g[j] \in A
      OBVIOUS
    <3>1. j \in DOMAIN g /\ g[j] \in M
      BY <1>2
    <3> QED BY <1>1, <3>1 DEF ToCome
  <2> QED BY <2>1
<1>4. A \cap some = {}
  BY <1>1
<1>5. h \in Seq(A \union some) /\ Apart(h)
  BY <1>3, <1>4, JoinedApart
<1>6. A \union some \in SUBSET M
  BY <1>1
<1>7. h \in Seq(M)
  BY <1>5, <1>6, Wider
<1>8. sent \in Seq(M)
  BY Wider
<1>9. /\ DOMAIN h = 1 .. Len(g) + Len(sent)
      /\ \A j \in 1 .. Len(g) : h[j] = g[j]
      /\ \A j \in 1 .. Len(sent) : h[Len(g) + j] = sent[j]
  BY <1>8
<1>10. ASSUME NEW p \in L \ some, NEW j \in DOMAIN h PROVE h[j] # p
  <2>1. h[j] \in A \union some
    BY <1>5
  <2> QED BY <1>1, <2>1
<1>11. ASSUME NEW p \in M, p \notin L \ some PROVE \E j \in DOMAIN h : h[j] = p
  <2>1. CASE p \in some
    <3>1. PICK j \in 1 .. Len(sent) : sent[j] = p
      BY <1>2, <2>1
    <3>2. Len(g) + j \in DOMAIN h /\ h[Len(g) + j] = p
      BY <1>2, <1>9, <3>1
    <3> QED BY <3>2
  <2>2. CASE p \notin L
    <3>1. PICK j \in 1 .. Len(g) : g[j] = p
      BY <1>2, <2>2 DEF ToCome
    <3>2. j \in DOMAIN h /\ h[j] = p
      BY <1>2, <1>9, <3>1
    <3> QED BY <3>2
  <2> QED BY <1>11, <2>1, <2>2
<1>12. ToCome(L \ some, M, h)
  BY <1>10, <1>11 DEF ToCome
<1> QED BY <1>5, <1>7, <1>12

\* A page brings some of what is to come of a series, each datapoint once.
LEMMA PageInv == ASSUME EvidenceInv, Evidence!Page PROVE EvidenceInv'
<1>1. /\ phase = "metrics" /\ phase' = phase /\ wanted' = wanted /\ table' = table
      /\ target' = target /\ measured' = measured /\ evidence' = evidence
  BY DEF Evidence!Page
<1>2. PICK n, some, sent :
        /\ n \in DOMAIN left /\ some \in SUBSET left[n] /\ sent \in Evidence!SetToSeqs(some)
        /\ left' = [left EXCEPT ![n] = left[n] \ some]
        /\ got' = [got EXCEPT ![n] = got[n] \o sent]
  BY Zenon DEF Evidence!Page
<1>3. wanted \in Requests /\ evidence = <<>> /\ Aimed(target) /\ target # <<>> /\ Arrived
  BY <1>1 DEF EvidenceInv
<1>4. PICK raw \in Described : table = Evidence!mapTableContext(raw)
  BY DEF EvidenceInv
<1>5. Specs' = Specs
  BY <1>1 DEF Specs
<1>6. DOMAIN measured = DOMAIN Specs /\ DOMAIN left = DOMAIN Specs /\ DOMAIN got = DOMAIN Specs
      /\ \A i \in DOMAIN Specs : SoFar(i)
  BY <1>3, Zenon DEF Arrived
<1>7. DOMAIN measured' = DOMAIN Specs /\ DOMAIN left' = DOMAIN Specs /\ DOMAIN got' = DOMAIN Specs
  BY <1>1, <1>2, <1>6
<1>8. ASSUME NEW i \in DOMAIN Specs, i # n PROVE SoFar(i)'
  <2>1. left'[i] = left[i] /\ got'[i] = got[i] /\ measured'[i] = measured[i] /\ SoFar(i)
    BY <1>1, <1>2, <1>6, <1>8
  <2> QED BY <1>5, <2>1, Zenon DEF SoFar
<1>9. SoFar(n)'
  <2>1. n \in DOMAIN Specs /\ left'[n] = left[n] \ some /\ got'[n] = got[n] \o sent
        /\ measured'[n] = measured[n]
    BY <1>1, <1>2, <1>6
  <2>2. PICK M : M = measured[n]
    OBVIOUS
  <2>3. PICK L : L = left[n]
    OBVIOUS
  <2>4. PICK g : g = got[n]
    OBVIOUS
  <2>5. /\ M \subseteq Points(Specs[n]) /\ L \in SUBSET M /\ g \in Seq(M) /\ Apart(g)
        /\ ToCome(L, M, g)
    BY <1>6, <2>1, <2>2, <2>3, <2>4 DEF SoFar
  <2>6. IsFiniteSet(Points(Specs[n]))
    BY <1>3, <1>4, <2>1, SpecsAre
  <2>7. some \in SUBSET L /\ some \subseteq Points(Specs[n])
    BY <1>2, <2>3, <2>5
  <2>8. IsFiniteSet(some)
    BY <2>6, <2>7, FS_Subset
  <2>9. sent \in Seq(some) /\ Apart(sent) /\ \A x \in some : \E j \in DOMAIN sent : sent[j] = x
    BY <1>2, <2>8, PageIs
  <2>10. PICK h : h = g \o sent
    OBVIOUS
  <2>11. h \in Seq(M) /\ Apart(h) /\ ToCome(L \ some, M, h)
    BY <2>5, <2>7, <2>9, <2>10, PageAppended
  <2>12. measured'[n] = M /\ left'[n] = L \ some /\ got'[n] = h
    BY <2>1, <2>2, <2>3, <2>4, <2>10
  <2>13. left'[n] \subseteq measured'[n]
    BY <2>5, <2>12
  <2>14. measured'[n] \subseteq Points(Specs[n])
    BY <2>5, <2>12
  <2> QED BY <1>5, <2>11, <2>12, <2>13, <2>14, Zenon DEF SoFar
<1>10. Arrived'
  <2>1. ASSUME NEW i \in DOMAIN Specs PROVE SoFar(i)'
    BY <1>8, <1>9
  <2> QED BY <1>5, <1>7, <2>1, Zenon DEF Arrived
<1>11. Aimed(target)'
  BY <1>1, <1>3, Zenon DEF Aimed
<1>12. evidence' = <<>> /\ target' # <<>> /\ wanted' \in Requests /\ phase' = "metrics"
       /\ \E r \in Described : table' = Evidence!mapTableContext(r)
  BY <1>1, <1>3, <1>4
<1> QED BY <1>10, <1>11, <1>12, NothingYet DEF EvidenceInv

\* Without series there is nothing to be in order.
LEMMA NoSeries == Fine(<<>>) /\ OfIndex(<<>>)
<1>1. DOMAIN <<>> = {}
  OBVIOUS
<1> QED BY <1>1 DEF Fine, OfIndex

\* When a page fails, or nothing is asked for, the context has no series.
LEMMA WithoutInv ==
  ASSUME EvidenceInv, Evidence!MetricsFail \/ Evidence!Unmonitored PROVE EvidenceInv'
<1>1. CASE Evidence!MetricsFail
  <2>1. Evidence!Put(Evidence!Context(<<>>, {"cloudWatchMetrics"}, Evidence!Path))
    BY <1>1, Zenon DEF Evidence!MetricsFail
  <2>2. {"cloudWatchMetrics"} \in SUBSET {"tableDefinition", "cloudWatchMetrics"}
        /\ {"cloudWatchMetrics"} # {}
    OBVIOUS
  <2> QED BY <2>1, <2>2, NoSeries, PutInv
<1>2. CASE Evidence!Unmonitored
  <2>1. PICK lacks \in {{}, {"tableDefinition"}} :
          Evidence!Put(Evidence!Context(<<>>, lacks, Evidence!Path))
    BY <1>2, Zenon DEF Evidence!Unmonitored
  <2>2. lacks \in SUBSET {"tableDefinition", "cloudWatchMetrics"}
    OBVIOUS
  <2>3. measured = <<>>
    BY <1>2 DEF Evidence!Unmonitored, EvidenceInv
  <2> QED BY <2>1, <2>2, <2>3, NoSeries, PutInv
<1> QED BY <1>1, <1>2

\* After the last page the context has a series of each that was asked for.
LEMMA AssembleInv == ASSUME EvidenceInv, Evidence!Assemble PROVE EvidenceInv'
<1>1. PICK list : list = [i \in DOMAIN Specs |-> Evidence!Series(Specs[i], got[i])]
  OBVIOUS
<1>2. /\ phase = "metrics" /\ \A i \in DOMAIN left : left[i] = {}
      /\ Evidence!Put(Evidence!Context(list, {}, Evidence!Path))
  BY <1>1, Zenon DEF Evidence!Assemble, Specs
<1>3. wanted \in Requests /\ Aimed(target) /\ target # <<>> /\ Arrived
  BY <1>2 DEF EvidenceInv
<1>4. PICK raw \in Described : table = Evidence!mapTableContext(raw)
  BY DEF EvidenceInv
<1>5. /\ Specs \in Seq(OfScope("table") \union OfScope("gsi") \union OfScope("operation"))
      /\ Apart(Specs)
      /\ \A i \in DOMAIN Specs : /\ IsFiniteSet(Points(Specs[i])) /\ Points(Specs[i]) \subseteq Datapoint
                                 /\ Specs[i].scope \in {"table", "gsi", "operation"}
                                 /\ Specs[i].scope = "gsi" => target[1].type = "GSI"
  BY <1>3, <1>4, SpecsAre
<1>6. DOMAIN measured = DOMAIN Specs /\ DOMAIN left = DOMAIN Specs /\ DOMAIN got = DOMAIN Specs
      /\ \A i \in DOMAIN Specs : SoFar(i)
  BY <1>3, Zenon DEF Arrived
<1>7. DOMAIN list = DOMAIN Specs
  BY <1>1
<1>8. ASSUME NEW i \in DOMAIN Specs
      PROVE  /\ Tells(list[i], measured[i]) /\ Ordered(list[i])
             /\ list[i].metric = Specs[i].metric /\ list[i].scope = Specs[i].scope
             /\ list[i].statistic = Specs[i].statistic
  <2>1. PICK M : M = measured[i]
    OBVIOUS
  <2>2. PICK g : g = got[i]
    OBVIOUS
  <2>3. M \subseteq Points(Specs[i]) /\ g \in Seq(M) /\ Apart(g) /\ ToCome(left[i], M, g)
    BY <1>6, <2>1, <2>2 DEF SoFar
  <2>4. left[i] = {}
    BY <1>2, <1>6
  <2>5. \A p \in M : \E j \in DOMAIN g : g[j] = p
    BY <2>3, <2>4 DEF ToCome
  <2>6. M \in SUBSET Datapoint /\ IsFiniteSet(M)
    BY <1>5, <2>3, FS_Subset
  <2>7. list[i] = Evidence!Series(Specs[i], g)
    BY <1>1, <2>2
  <2>8. Tells(list[i], M)
    BY <2>3, <2>5, <2>6, <2>7, SeriesTells
  <2>9. g \in Seq(Datapoint)
    BY <2>3, <2>6, Wider
  <2>10. Ordered(list[i]) /\ list[i].metric = Specs[i].metric /\ list[i].scope = Specs[i].scope
         /\ list[i].statistic = Specs[i].statistic
    BY <2>7, <2>9, SeriesIs
  <2> QED BY <2>1, <2>8, <2>10
<1>9. Fine(list)
  <2>1. ASSUME NEW i \in DOMAIN list
        PROVE  Ordered(list[i]) /\ list[i].scope \in {"table", "gsi", "operation"}
    BY <1>5, <1>7, <1>8
  <2> QED BY <2>1 DEF Fine
<1>10. OfIndex(list)
  <2>1. ASSUME NEW i \in DOMAIN list, list[i].scope = "gsi"
        PROVE  \E ix \in table.global : <<ix.name>> = wanted.index
    <3>1. target[1].type = "GSI"
      BY <1>5, <1>7, <1>8, <2>1
    <3> QED BY <1>3, <3>1, Zenon DEF Aimed
  <2> QED BY <2>1, Zenon DEF OfIndex
<1>11. Complete(list)
  <2>1. Len(list) = Len(measured)
    BY <1>6, <1>7
  <2>2. ASSUME NEW i \in DOMAIN list, NEW j \in DOMAIN list, i # j
        PROVE  \/ list[i].metric # list[j].metric \/ list[i].scope # list[j].scope
               \/ list[i].statistic # list[j].statistic
    <3>1. i \in DOMAIN Specs /\ j \in DOMAIN Specs
      BY <1>7
    <3>2. Specs[i] # Specs[j]
      BY <1>5, <2>2, <3>1 DEF Apart
    <3>3. PICK E : E = OfScope("table") \union OfScope("gsi") \union OfScope("operation")
      OBVIOUS
    <3>4. \A x \in E : x = [metric |-> x.metric, statistic |-> x.statistic, scope |-> x.scope]
      BY <3>3 DEF OfScope, Evidence!Spec
    <3>5. Specs[i] \in E /\ Specs[j] \in E
      BY <1>5, <3>1, <3>3
    <3>6. \/ Specs[i].metric # Specs[j].metric \/ Specs[i].scope # Specs[j].scope
          \/ Specs[i].statistic # Specs[j].statistic
      BY <3>2, <3>4, <3>5, Zenon
    <3> QED BY <1>8, <3>1, <3>6
  <2>3. \A i \in DOMAIN list : Tells(list[i], measured[i])
    BY <1>7, <1>8
  <2> QED BY <1>6, <1>7, <2>1, <2>2, <2>3, Zenon DEF Complete
<1>12. {} \in SUBSET {"tableDefinition", "cloudWatchMetrics"}
  OBVIOUS
<1> QED BY <1>2, <1>9, <1>10, <1>11, <1>12, PutInv

\* Every step of the evidence preserves its invariant.
LEMMA EvidenceStep ==
  ASSUME EvidenceInv, Evidence!Next \/ UNCHANGED evidenceVars PROVE EvidenceInv'
<1>1. CASE Evidence!Next
  <2>1. \/ Evidence!Resolve \/ Evidence!Ask \/ Evidence!Page
        \/ Evidence!MetricsFail \/ Evidence!Unmonitored \/ Evidence!Assemble
    BY <1>1, Zenon DEF Evidence!Next
  <2> QED BY <2>1, ResolveInv, AskInv, PageInv, WithoutInv, AssembleInv
<1>2. CASE UNCHANGED evidenceVars
  <2>1. phase' = phase /\ wanted' = wanted /\ table' = table /\ target' = target
        /\ measured' = measured /\ left' = left /\ got' = got /\ evidence' = evidence
    BY <1>2 DEF evidenceVars
  <2>2. Aimed(target)' <=> Aimed(target)
    BY <2>1 DEF Aimed
  <2>3. Arrived' <=> Arrived
    BY <2>1 DEF Arrived, SoFar, Specs
  <2>4. Evidence!EvidenceAccepted' <=> Evidence!EvidenceAccepted
    BY <2>1 DEF Evidence!EvidenceAccepted
  <2>5. Evidence!OwnDatapoints' <=> Evidence!OwnDatapoints
    BY <2>1 DEF Evidence!OwnDatapoints
  <2>6. Evidence!ThrottlingTold' <=> Evidence!ThrottlingTold
    BY <2>1 DEF Evidence!ThrottlingTold
  <2>7. Evidence!GoesByItsKeys' <=> Evidence!GoesByItsKeys
    BY <2>1 DEF Evidence!GoesByItsKeys
  <2> QED BY <2>1, <2>2, <2>3, <2>4, <2>5, <2>6, <2>7, Zenon DEF EvidenceInv
<1> QED BY <1>1, <1>2

-----------------------------------------------------------------------------
\* The three invariants together.
ContextsInv == RdbInv /\ DynamoInv /\ EvidenceInv

\* Whatever the limits of a call, the tables, the requests and the datapoints that
\* CloudWatch has: a context that says it is complete lacks nothing, one that is
\* partial says of every section what became of it, and one of a DynamoDB read is
\* accepted by its validator and tells of metrics and throttling what there is
\* (collectPerformanceTuningContext, DynamoPerformanceTuningContextCollector.collect).
THEOREM ContextsHonest == MCSpec => []ContextsAreHonest
<1>1. MCInit => ContextsInv
  BY RdbInit, DynamoInit, EvidenceInit, Zenon DEF MCInit, ContextsInv
<1>2. ContextsInv /\ [MCNext]_<<on, vars, rdbVars, dynamoVars, evidenceVars>> => ContextsInv'
  <2> SUFFICES ASSUME ContextsInv, [MCNext]_<<on, vars, rdbVars, dynamoVars, evidenceVars>>
               PROVE  ContextsInv'
    OBVIOUS
  <2>1. /\ Rdb!Next \/ UNCHANGED rdbVars
        /\ Dynamo!Next \/ UNCHANGED dynamoVars
        /\ Evidence!Next \/ UNCHANGED evidenceVars
    <3>1. CASE MCNext
      BY <3>1, Zenon DEF MCNext
    <3>2. CASE UNCHANGED <<on, vars, rdbVars, dynamoVars, evidenceVars>>
      BY <3>2, Zenon
    <3> QED BY <3>1, <3>2
  <2> QED BY <2>1, RdbStep, DynamoStep, EvidenceStep DEF ContextsInv
<1>3. ContextsInv => ContextsAreHonest
  BY Zenon DEF ContextsInv, RdbInv, DynamoInv, EvidenceInv, ContextsAreHonest
<1> QED BY <1>1, <1>2, <1>3, PTL DEF MCSpec
=============================================================================
