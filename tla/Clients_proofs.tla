--------------------------- MODULE Clients_proofs ---------------------------
(***************************************************************************)
(* Proofs about the clients that MC_Clients composes, for any number of    *)
(* drivers, scans, readers, calls, entries, pages and queries: what kill() *)
(* stops, what the paged reads return, and what the status of a series     *)
(* says.  Each part has its invariant; they are put together at the end.   *)
(***************************************************************************)
EXTENDS MC_Clients, FiniteSetTheorems, TLAPS

-----------------------------------------------------------------------------
(*****************************************************************************)
(* SqliteFile: kill() and the copies of the file                             *)
(*****************************************************************************)
\* A flag that is set was set for every query that sleeps on the driver; one that
\* was set and is not any more was spent, or the statement is freed.
FileAimed ==
  /\ ~wrong
  /\ \A q \in asleep : /\ On(q) \in connected \/ q \in freed
                       /\ On(q) \in interrupted => q \in killed
                       /\ On(q) \notin interrupted /\ q \in killed =>
                            q \in excused \union freed

\* Every step of SqliteFile keeps the flag aimed.
LEMMA FileAimedStep == FileAimed /\ [Sqlite!Next]_sqliteVars => FileAimed'
<1> SUFFICES ASSUME FileAimed, [Sqlite!Next]_sqliteVars PROVE FileAimed'
  OBVIOUS
<1> USE DEF FileAimed
<1>1. ASSUME NEW d \in Driver, Sqlite!Connect(d) PROVE FileAimed'
  BY <1>1 DEF Sqlite!Connect
<1>2. ASSUME NEW d \in Driver, Sqlite!Close(d) PROVE FileAimed'
  BY <1>2 DEF Sqlite!Close, Sqlite!Gone, Sqlite!Freed
<1>3. ASSUME NEW d \in Driver, Sqlite!Kill(d) PROVE FileAimed'
  BY <1>3 DEF Sqlite!Kill
<1>4. ASSUME NEW d \in Driver, Sqlite!Write(d) PROVE FileAimed'
  BY <1>4 DEF Sqlite!Write, Sqlite!Reset
<1>5. ASSUME NEW q \in FileQuery, Sqlite!Start(q) PROVE FileAimed'
  BY <1>5 DEF Sqlite!Start, Sqlite!Reset
<1>6. ASSUME NEW q \in FileQuery, Sqlite!Wake(q) PROVE FileAimed'
  <2>1. CASE On(q) \in interrupted
    <3>1. asleep' = asleep \ {q} /\ Sqlite!Reset(On(q)) /\ wrong' = (wrong \/ q \notin killed)
      BY <1>6, <2>1 DEF Sqlite!Wake
    <3>2. ~wrong'
      BY <1>6, <2>1, <3>1 DEF Sqlite!Wake
    <3> QED BY <1>6, <3>1, <3>2 DEF Sqlite!Wake, Sqlite!Reset
  <2>2. CASE On(q) \notin interrupted /\ q \in freed
    BY <1>6, <2>2 DEF Sqlite!Wake
  <2>3. CASE On(q) \notin interrupted /\ q \notin freed
    <3>1. ~wrong'
      BY <1>6, <2>3 DEF Sqlite!Wake
    <3> QED BY <1>6, <2>3, <3>1 DEF Sqlite!Wake
  <2> QED BY <2>1, <2>2, <2>3
<1>7. CASE Sqlite!Crash
  BY <1>7 DEF Sqlite!Crash, Sqlite!Gone
<1>8. CASE UNCHANGED sqliteVars
  BY <1>8 DEF sqliteVars
<1> QED BY <1>1, <1>2, <1>3, <1>4, <1>5, <1>6, <1>7, <1>8 DEF Sqlite!Next

\* A copy that is as new as the file has what the file has, and the file has
\* what was kept.
FileCurrent ==
  lost = {} => /\ kept \subseteq file
               /\ \A d \in connected : loaded[d] = version => file \subseteq memory[d]

\* The drivers, the number of copies and the version each driver has read.
FileLoaded ==
  /\ connected \subseteq Driver /\ version \in Nat
  /\ loaded \in [Driver -> Nat] /\ \A d \in Driver : loaded[d] <= version
  /\ memory = [d \in Driver |-> memory[d]]

\* Every step of SqliteFile keeps the types.
LEMMA FileLoadedStep == FileLoaded /\ [Sqlite!Next]_sqliteVars => FileLoaded'
<1> SUFFICES ASSUME FileLoaded, [Sqlite!Next]_sqliteVars PROVE FileLoaded'
  OBVIOUS
<1> USE DEF FileLoaded
<1>1. ASSUME NEW d \in Driver, Sqlite!Connect(d) PROVE FileLoaded'
  BY <1>1 DEF Sqlite!Connect
<1>2. ASSUME NEW d \in Driver, Sqlite!Close(d) PROVE FileLoaded'
  BY <1>2 DEF Sqlite!Close, Sqlite!Gone
<1>3. ASSUME NEW d \in Driver, Sqlite!Kill(d) PROVE FileLoaded'
  BY <1>3 DEF Sqlite!Kill
<1>4. ASSUME NEW d \in Driver, Sqlite!Write(d) PROVE FileLoaded'
  BY <1>4 DEF Sqlite!Write
<1>5. ASSUME NEW q \in FileQuery, Sqlite!Start(q) \/ Sqlite!Wake(q) PROVE FileLoaded'
  BY <1>5 DEF Sqlite!Start, Sqlite!Wake
<1>6. CASE Sqlite!Crash
  BY <1>6 DEF Sqlite!Crash, Sqlite!Gone
<1>7. CASE UNCHANGED sqliteVars
  BY <1>7 DEF sqliteVars
<1> QED BY <1>1, <1>2, <1>3, <1>4, <1>5, <1>6, <1>7 DEF Sqlite!Next

\* Every step of SqliteFile keeps the copies current.
LEMMA FileCurrentStep == FileLoaded /\ FileCurrent /\ [Sqlite!Next]_sqliteVars => FileCurrent'
<1> SUFFICES ASSUME FileLoaded, FileCurrent, [Sqlite!Next]_sqliteVars, lost' = {}
             PROVE  /\ kept' \subseteq file'
                    /\ \A d \in connected' : loaded'[d] = version' => file' \subseteq memory'[d]
  BY DEF FileCurrent
<1>1. ASSUME NEW d \in Driver, Sqlite!Connect(d) PROVE FileCurrent'
  BY <1>1 DEF Sqlite!Connect, FileCurrent, FileLoaded
<1>2. ASSUME NEW d \in Driver, Sqlite!Close(d) PROVE FileCurrent'
  <2>1. CASE ReadOnly(d)
    BY <1>2, <2>1 DEF Sqlite!Close, Sqlite!Gone, FileCurrent, FileLoaded
  <2>2. CASE ~ReadOnly(d)
    <3>1. /\ file' = memory[d] /\ kept' = kept \union memory[d] /\ version' = version + 1
          /\ lost = {} /\ loaded[d] = version
      BY <1>2, <2>2 DEF Sqlite!Close, Sqlite!Overwritten
    <3>2. kept \subseteq file /\ file \subseteq memory[d]
      BY <1>2, <3>1 DEF Sqlite!Close, FileCurrent
    <3>3. ASSUME NEW e \in connected' PROVE loaded'[e] # version'
      BY <1>2, <3>1 DEF Sqlite!Close, Sqlite!Gone, FileLoaded
    <3> QED BY <3>1, <3>2, <3>3 DEF FileCurrent
  <2> QED BY <2>1, <2>2
<1>3. ASSUME NEW d \in Driver, Sqlite!Kill(d) PROVE FileCurrent'
  BY <1>3 DEF Sqlite!Kill, FileCurrent
<1>4. ASSUME NEW d \in Driver, Sqlite!Write(d) PROVE FileCurrent'
  BY <1>4 DEF Sqlite!Write, FileCurrent, FileLoaded
<1>5. ASSUME NEW q \in FileQuery, Sqlite!Start(q) \/ Sqlite!Wake(q) PROVE FileCurrent'
  BY <1>5 DEF Sqlite!Start, Sqlite!Wake, FileCurrent
<1>6. CASE Sqlite!Crash
  BY <1>6 DEF Sqlite!Crash, Sqlite!Gone, FileCurrent, FileLoaded
<1>7. CASE UNCHANGED sqliteVars
  BY <1>7 DEF sqliteVars, FileCurrent
<1> QED BY <1>1, <1>2, <1>3, <1>4, <1>5, <1>6, <1>7 DEF Sqlite!Next, FileCurrent

-----------------------------------------------------------------------------
(*****************************************************************************)
(* CloudWatchLogs: kill() and the queries                                    *)
(*****************************************************************************)
\* Calls and their jobs are functions of the calls; only queries poll.
LogType ==
  /\ doing = [c \in Call |-> doing[c]] /\ job = [c \in Call |-> job[c]]
  /\ queryId \in Call \union {Logs!NoQuery}
  /\ kills \in Nat /\ thrown \in Nat
  /\ \A c \in Call : doing[c] = "paging" => c \notin Queries

\* A kill() is one interrupt: it is still pending or it has been thrown.
LogCounted == thrown + (IF interrupt THEN 1 ELSE 0) <= kills

\* A query that ended by an interrupt has stopped its job, a flag is never pending
\* while the only polling query runs, and two that poll at once are stray.
LogAimed ==
  /\ \A c \in Queries : doing[c] \in {"interrupted", "returned"} /\ c \notin stray =>
       job[c] # "running"
  /\ \A c \in Call : doing[c] = "polling" /\ job[c] = "running" /\ c \notin stray =>
       ~interrupt /\ queryId = c
  /\ \A c, d \in Call : doing[c] = "polling" /\ doing[d] = "polling" /\ c # d => c \in stray

\* Every step of CloudWatchLogs keeps the types.
LEMMA LogTypeStep == LogType /\ [Logs!Next]_logVars => LogType'
<1> SUFFICES ASSUME LogType, [Logs!Next]_logVars PROVE LogType'
  OBVIOUS
<1> USE DEF LogType, Logs!To
<1>1. ASSUME NEW c \in Call, Logs!Query(c) PROVE LogType'
  BY <1>1 DEF Logs!Query
<1>2. ASSUME NEW c \in Call, Logs!Started(c) PROVE LogType'
  BY <1>2 DEF Logs!Started, Logs!Interrupted
<1>3. ASSUME NEW c \in Call, Logs!Poll(c) PROVE LogType'
  BY <1>3 DEF Logs!Poll, Logs!Interrupted
<1>4. ASSUME NEW c \in Call, Logs!PollFails(c) PROVE LogType'
  BY <1>4 DEF Logs!PollFails
<1>5. ASSUME NEW c \in Call, Logs!Read(c) \/ Logs!NextPage(c) PROVE LogType'
  BY <1>5 DEF Logs!Read, Logs!NextPage, Logs!Interrupted
<1>6. ASSUME NEW c \in Call, Logs!Ends(c) PROVE LogType'
  BY <1>6 DEF Logs!Ends
<1>7. CASE Logs!Kill
  BY <1>7 DEF Logs!Kill, Logs!StopQuery
<1>8. CASE UNCHANGED logVars
  BY <1>8 DEF logVars
<1> QED BY <1>1, <1>2, <1>3, <1>4, <1>5, <1>6, <1>7, <1>8 DEF Logs!Next

\* No step throws more interrupts than there were kills.
LEMMA LogCountedStep == LogType /\ LogCounted /\ [Logs!Next]_logVars => LogCounted'
<1> SUFFICES ASSUME LogType, LogCounted, [Logs!Next]_logVars PROVE LogCounted'
  OBVIOUS
<1> USE DEF LogType, LogCounted
<1>1. ASSUME NEW c \in Call, Logs!Interrupted(c), UNCHANGED kills PROVE LogCounted'
  BY <1>1 DEF Logs!Interrupted
<1>2. ASSUME UNCHANGED <<interrupt, thrown, kills>> PROVE LogCounted'
  BY <1>2
<1>3. CASE Logs!Kill
  BY <1>3 DEF Logs!Kill
<1>4. ASSUME NEW c \in Call, Logs!Query(c) \/ Logs!PollFails(c) \/ Logs!Ends(c) PROVE LogCounted'
  BY <1>2, <1>4 DEF Logs!Query, Logs!PollFails, Logs!Ends
<1>5. ASSUME NEW c \in Call, Logs!Started(c) \/ Logs!Poll(c) PROVE LogCounted'
  BY <1>1, <1>2, <1>5 DEF Logs!Started, Logs!Poll
<1>6. ASSUME NEW c \in Call, Logs!Read(c) \/ Logs!NextPage(c) PROVE LogCounted'
  BY <1>1, <1>2, <1>6 DEF Logs!Read, Logs!NextPage
<1>7. CASE UNCHANGED logVars
  BY <1>2, <1>7 DEF logVars
<1> HIDE DEF LogType, LogCounted
<1> QED BY <1>3, <1>4, <1>5, <1>6, <1>7 DEF Logs!Next

\* No step stops another job than the one the query id names.
LEMMA LogAimedStep == LogType /\ LogAimed /\ [Logs!Next]_logVars => LogAimed'
<1> SUFFICES ASSUME LogType, LogAimed, [Logs!Next]_logVars PROVE LogAimed'
  OBVIOUS
<1> USE DEF LogType, LogAimed, Logs!To
<1>1. ASSUME NEW c \in Call, Logs!Query(c) PROVE LogAimed'
  BY <1>1 DEF Logs!Query, Logs!UnderWay
<1>2. ASSUME NEW c \in Call, Logs!Started(c) PROVE LogAimed'
  <2>1. CASE interrupt
    <3>1. /\ doing' = [doing EXCEPT ![c] = "interrupted"] /\ queryId' = c /\ ~interrupt'
          /\ job' = [job EXCEPT ![c] = "running"] /\ stray' = stray \union {c}
          /\ thrown' = thrown + 1 /\ kills' = kills
      BY <1>2, <2>1 DEF Logs!Started, Logs!Interrupted
    <3>2. \A d \in Call : doing'[d] = "polling" => d # c /\ doing[d] = "polling"
      BY <3>1
    <3> QED BY <2>1, <3>1, <3>2, LogsAssumption
  <2>2. CASE ~interrupt
    <3>1. /\ doing' = [doing EXCEPT ![c] = "polling"] /\ queryId' = c /\ ~interrupt'
          /\ job' = [job EXCEPT ![c] = "running"]
          /\ thrown' = thrown /\ kills' = kills
          /\ stray' = IF Logs!Polling = {} THEN stray ELSE stray \union Logs!Polling \union {c}
      BY <1>2, <2>2 DEF Logs!Started, Logs!Interrupted
    <3>2. \A d \in Call : doing'[d] = "polling" => d = c \/ d \in Logs!Polling
      BY <3>1 DEF Logs!Polling
    <3>3. CASE Logs!Polling = {}
      BY <3>1, <3>2, <3>3
    <3>4. CASE Logs!Polling # {}
      <4>1. \A d \in Call : doing'[d] = "polling" => d \in stray'
        BY <3>1, <3>2, <3>4
      <4>2. \A d \in Queries : doing'[d] \in {"interrupted", "returned"} /\ d \notin stray' =>
              job'[d] # "running"
        BY <3>1, <3>4, LogsAssumption
      <4> QED BY <2>2, <3>1, <4>1, <4>2
    <3> QED BY <3>3, <3>4
  <2> QED BY <2>1, <2>2
<1>3. ASSUME NEW c \in Call, Logs!Poll(c) PROVE LogAimed'
  <2>1. CASE job[c] = "running"
    <3>1. /\ doing' = [doing EXCEPT ![c] = "interrupted"] /\ interrupt /\ ~interrupt'
          /\ thrown' = thrown + 1 /\ UNCHANGED <<job, queryId, stray, kills>>
      BY <1>3, <2>1 DEF Logs!Poll, Logs!Interrupted
    <3>2. c \in stray
      BY <1>3, <2>1, <3>1 DEF Logs!Poll
    <3> QED BY <3>1, <3>2, LogsAssumption
  <2>2. CASE job[c] # "running"
    <3>1. /\ doing' = [doing EXCEPT ![c] = "returned"] /\ interrupt' = interrupt
          /\ UNCHANGED <<job, stray, kills, thrown>>
      BY <1>3, <2>2 DEF Logs!Poll
    <3>2. ASSUME NEW d \in Call, doing'[d] = "polling", job'[d] = "running", d \notin stray'
          PROVE  ~interrupt' /\ queryId' = d
      <4>1. doing[c] = "polling" /\ doing[d] = "polling" /\ d # c
        BY <1>3, <3>1, <3>2 DEF Logs!Poll
      <4> QED BY <3>1, <3>2, <4>1
    <3>3. \A d \in Queries : doing'[d] \in {"interrupted", "returned"} /\ d \notin stray' =>
            job'[d] # "running"
      BY <2>2, <3>1, LogsAssumption
    <3>4. \A d, e \in Call : doing'[d] = "polling" /\ doing'[e] = "polling" /\ d # e => d \in stray'
      BY <3>1
    <3> QED BY <3>1, <3>2, <3>3, <3>4
  <2> QED BY <2>1, <2>2
<1>4. ASSUME NEW c \in Call, Logs!PollFails(c) PROVE LogAimed'
  BY <1>4 DEF Logs!PollFails
<1>5. ASSUME NEW c \in Call, Logs!Read(c) \/ Logs!NextPage(c) PROVE LogAimed'
  <2>1. UNCHANGED <<job, queryId, kills, stray>>
    BY <1>5 DEF Logs!Read, Logs!NextPage
  <2>2. c \notin Queries
    BY <1>5 DEF Logs!Read, Logs!NextPage
  <2>3. CASE Logs!Interrupted(c)
    BY <2>1, <2>2, <2>3, LogsAssumption DEF Logs!Interrupted
  <2>4. CASE /\ UNCHANGED <<interrupt, thrown>>
             /\ \/ doing' = [doing EXCEPT ![c] = "paging"]
                \/ doing' = [doing EXCEPT ![c] = "returned"]
    BY <2>1, <2>2, <2>4, LogsAssumption
  <2> QED BY <1>5, <2>3, <2>4 DEF Logs!Read, Logs!NextPage
<1>6. ASSUME NEW c \in Call, Logs!Ends(c) PROVE LogAimed'
  BY <1>6 DEF Logs!Ends
<1>7. CASE Logs!Kill
  BY <1>7, LogsAssumption DEF Logs!Kill, Logs!StopQuery
<1>8. CASE UNCHANGED logVars
  BY <1>8 DEF logVars
<1> QED BY <1>1, <1>2, <1>3, <1>4, <1>5, <1>6, <1>7, <1>8 DEF Logs!Next

-----------------------------------------------------------------------------
(*****************************************************************************)
(* DynamoRead: kill(), the pages and the bounds of a read                    *)
(*****************************************************************************)
\* The state of the readers: functions of the readers.
DynType ==
  /\ reading = [r \in Reader |-> reading[r]] /\ kind = [r \in Reader |-> kind[r]]
  /\ limit = [r \in Reader |-> limit[r]] /\ start = [r \in Reader |-> start[r]]
  /\ lastKey = [r \in Reader |-> lastKey[r]] /\ hasMore = [r \in Reader |-> hasMore[r]]
  /\ items = [r \in Reader |-> items[r]] /\ evaluated = [r \in Reader |-> evaluated[r]]
  /\ pages = [r \in Reader |-> pages[r]]

\* The reads that are not observed.
Plainly == {"items", "table", "statement"}

\* The entry points of DynamoRead are calls of Begin with one of six kinds.
LEMMA DynSteps ==
  ASSUME Dynamo!Next
  PROVE  \/ \E r \in Reader, n \in Nat, s \in Nat, k \in Plainly \union {"once", "complete", "pages"} :
              Dynamo!Begin(r, k, n, s) /\ s <= Size
         \/ \E r \in Reader : Dynamo!Page(r) \/ Dynamo!Fails(r)
         \/ Dynamo!KillReads
BY DynamoAssumption DEF Plainly, Dynamo!Next, Dynamo!ScanItems, Dynamo!QueryItems,
   Dynamo!ScanItemsAtClient, Dynamo!QueryItemsAtClient, Dynamo!ExecuteStatementAtDocClient,
   Dynamo!ExecuteStatementAtClient, Dynamo!RequestPartiql, Dynamo!ObserveNativeQueryRead,
   Dynamo!ObservePartiqlRead, Dynamo!ObserveNativeQueryReadComplete,
   Dynamo!ObservePartiqlReadComplete, Dynamo!Key

\* A flag that is set was set for every statement under way; a statement that a
\* kill() struck and that no flag waits for any more has been spared.
DynAimed ==
  /\ ~misfired
  /\ struck \subseteq Dynamo!Statements
  /\ flag => Dynamo!Statements \subseteq struck
  /\ ~flag => struck \subseteq spared

\* Every step of DynamoRead keeps the flag aimed.
LEMMA DynAimedStep == DynType /\ DynAimed /\ [Dynamo!Next]_dynamoVars => DynAimed'
<1> SUFFICES ASSUME DynType, DynAimed, [Dynamo!Next]_dynamoVars PROVE DynAimed'
  OBVIOUS
<1> USE DEF DynType, DynAimed, Dynamo!Statements
<1>1. ASSUME NEW r \in Reader, NEW n \in Nat, NEW s \in Nat, NEW k,
             Dynamo!Begin(r, k, n, s)
      PROVE  DynAimed'
  <2>1. CASE k = "statement"
    BY <1>1, <2>1 DEF Dynamo!Begin, Dynamo!Resets
  <2>2. CASE k # "statement"
    BY <1>1, <2>2 DEF Dynamo!Begin
  <2> QED BY <2>1, <2>2
<1>2. ASSUME NEW r \in Reader, Dynamo!Page(r) PROVE DynAimed'
  <2>1. reading[r] = "page" /\ struck' = {q \in struck : reading'[q] = "page"} /\ kind' = kind
    BY <1>2 DEF Dynamo!Page
  <2>2. \A q \in Reader : reading'[q] = "page" => reading[q] = "page"
    <3>1. PICK n, key : Dynamo!Answered(r, n, key)
      BY <1>2 DEF Dynamo!Page
    <3> QED BY <2>1, <3>1 DEF Dynamo!Answered
  <2>3. Dynamo!Statements' \subseteq Dynamo!Statements /\ struck' \subseteq Dynamo!Statements'
        /\ struck' \subseteq struck
    BY <2>1, <2>2
  <2>4. PICK n, key : Dynamo!Answered(r, n, key)
    BY <1>2 DEF Dynamo!Page
  <2> DEFINE goesOn == key /\ ~Dynamo!Stops(r,
                         items[r] \union (((lastKey[r] + 1) .. (lastKey[r] + n)) \intersect Matching),
                         evaluated[r] + n, pages[r] + 1)
  <2>5. CASE goesOn /\ kind[r] = "statement" /\ flag
    <3>1. Dynamo!Interrupts(r)
      BY <2>4, <2>5 DEF Dynamo!Answered
    <3>2. r \in struck
      BY <2>1, <2>5
    <3> QED BY <2>3, <3>1, <3>2 DEF Dynamo!Interrupts
  <2>6. CASE ~(goesOn /\ kind[r] = "statement" /\ flag)
    <3>1. /\ misfired' = (misfired \/ (goesOn /\ r \in struck \ spared))
          /\ UNCHANGED <<flag, spared>>
      BY <2>4, <2>6 DEF Dynamo!Answered
    <3>2. r \in struck \ spared => kind[r] = "statement" /\ flag
      OBVIOUS
    <3>3. ~misfired'
      BY <2>6, <3>1, <3>2
    <3> HIDE DEF goesOn
    <3>4. flag' => Dynamo!Statements' \subseteq struck'
      BY <2>1, <2>3, <3>1
    <3> QED BY <2>3, <3>1, <3>3, <3>4
  <2> QED BY <2>5, <2>6
<1>3. ASSUME NEW r \in Reader, Dynamo!Fails(r) PROVE DynAimed'
  BY <1>3 DEF Dynamo!Fails
<1>4. CASE Dynamo!KillReads
  BY <1>4 DEF Dynamo!KillReads
<1>5. CASE UNCHANGED dynamoVars
  BY <1>5 DEF dynamoVars
<1> HIDE DEF DynType, DynAimed, Dynamo!Statements
<1> QED BY <1>1, <1>2, <1>3, <1>4, <1>5, DynSteps

\* What a read has after some pages: the matching items from where it began to its
\* key, fewer than its limit while it goes on, within the bounds of its kind, and no
\* more only at the end of the table.
DynRead(r) ==
  reading[r] \in {"page", "done"} =>
    /\ kind[r] \in Plainly \union {"once", "complete", "pages"}
    /\ {start[r], lastKey[r], limit[r], evaluated[r], pages[r]} \subseteq Nat
    /\ start[r] <= lastKey[r] /\ lastKey[r] <= Size
    /\ items[r] = ((start[r] + 1) .. lastKey[r]) \intersect Matching
    /\ limit[r] > 0 /\ kind[r] \in Plainly =>
         /\ Cardinality(items[r]) <= limit[r]
         /\ reading[r] = "page" => Cardinality(items[r]) < limit[r]
    /\ kind[r] = "once" => evaluated[r] <= PageLimit
    /\ kind[r] = "complete" => evaluated[r] <= MaxEvaluated
    /\ kind[r] \in {"complete", "pages"} => pages[r] <= MaxPages
    /\ reading[r] = "page" =>
         /\ kind[r] = "once" => evaluated[r] = 0
         /\ kind[r] = "complete" => evaluated[r] < MaxEvaluated
         /\ kind[r] \in {"complete", "pages"} => pages[r] < MaxPages
    /\ reading[r] = "done" /\ kind[r] \in {"once", "complete", "pages"} /\ ~hasMore[r] =>
         lastKey[r] = Size

\* The matching keys of an interval are a finite set.
LEMMA Between ==
  ASSUME NEW a \in Nat, NEW b \in Nat, NEW M
  PROVE  /\ IsFiniteSet(((a + 1) .. b) \intersect M)
         /\ Cardinality(((a + 1) .. b) \intersect M) \in Nat
<1>1. IsFiniteSet((a + 1) .. b)
  BY FS_Interval
<1>2. ((a + 1) .. b) \intersect M \subseteq (a + 1) .. b
  OBVIOUS
<1> QED BY <1>1, <1>2, FS_Subset, FS_CardinalityType

\* A page of n keys after b adds its matching keys and no more than n of them.
LEMMA OneMore ==
  ASSUME NEW a \in Nat, NEW b \in Nat, NEW n \in Nat, NEW M, a <= b
  PROVE  /\ ((a + 1) .. (b + n)) \intersect M =
              (((a + 1) .. b) \intersect M) \union (((b + 1) .. (b + n)) \intersect M)
         /\ Cardinality(((a + 1) .. (b + n)) \intersect M)
              <= Cardinality(((a + 1) .. b) \intersect M) + n
<1> DEFINE A == ((a + 1) .. b) \intersect M
           B == ((b + 1) .. (b + n)) \intersect M
<1>1. (a + 1) .. (b + n) = ((a + 1) .. b) \union ((b + 1) .. (b + n))
  OBVIOUS
<1>9. ((a + 1) .. (b + n)) \intersect M = A \union B
  BY <1>1, Zenon
<1>2. IsFiniteSet(A) /\ IsFiniteSet(B) /\ Cardinality(A) \in Nat /\ Cardinality(B) \in Nat
  BY Between
<1>3. IsFiniteSet((b + 1) .. (b + n)) /\ Cardinality((b + 1) .. (b + n)) = n
  BY FS_Interval
<1>4. B \subseteq (b + 1) .. (b + n)
  OBVIOUS
<1>5. Cardinality(B) <= n
  BY <1>3, <1>4, FS_Subset
<1>6. Cardinality(A \union B) = Cardinality(A) + Cardinality(B) - Cardinality(A \intersect B)
  BY <1>2, FS_Union
<1>7. A \intersect B \subseteq A
  OBVIOUS
<1>8. Cardinality(A \intersect B) \in Nat
  BY <1>2, <1>7, FS_Subset, FS_CardinalityType
<1> HIDE DEF A, B
<1>10. Cardinality(A \union B) <= Cardinality(A) + n
  BY <1>2, <1>5, <1>6, <1>8
<1> QED BY <1>9, <1>10 DEF A, B

\* The two copies of Cardinality are one.
LEMMA DynCardinality == \A S : Dynamo!Cardinality(S) = Cardinality(S)
BY Zenon DEF Dynamo!Cardinality, Cardinality

\* What remains after a page ends where the table ends.
LEMMA DynRemaining ==
  ASSUME NEW r \in Reader, kind[r] \in Plainly, limit[r] \in Nat, limit[r] > 0
  PROVE  Dynamo!Remaining(r) = limit[r] - Cardinality(items[r])
<1>1. kind[r] # "complete" /\ kind[r] # "pages" /\ kind[r] # "once"
  BY DEF Plainly
<1>2. limit[r] # 0
  OBVIOUS
<1> QED BY <1>1, <1>2, DynCardinality DEF Dynamo!Remaining

\* A page asked for with what is missing to the limit does not exceed it.
LEMMA DynEnough ==
  ASSUME NEW r \in Reader, kind[r] \in Plainly, NEW I, NEW e, NEW p
  PROVE  Dynamo!Stops(r, I, e, p) <=> Dynamo!Enough(r, I)
<1>1. kind[r] # "complete" /\ kind[r] # "pages" /\ kind[r] # "once"
  BY DEF Plainly
<1> QED BY <1>1 DEF Dynamo!Stops, Dynamo!Enough, Plainly

\* A page of a read keeps what it has whole.
LEMMA DynPage ==
  ASSUME NEW r \in Reader, DynType, DynRead(r), Dynamo!Page(r)
  PROVE  DynRead(r)'
<1> DEFINE left == Size - lastKey[r]
           atMost == IF Dynamo!Remaining(r) = 0 THEN left ELSE Dynamo!Smaller(Dynamo!Remaining(r), left)
           m(n) == lastKey[r] + n
           I(n) == items[r] \union (((lastKey[r] + 1) .. m(n)) \intersect Matching)
<1>1. /\ reading[r] = "page" /\ UNCHANGED <<kind, limit, start>>
      /\ \E n \in (IF left = 0 THEN {0} ELSE 1 .. atMost) :
           \/ n < left /\ Dynamo!Answered(r, n, TRUE)
           \/ n = left /\ n = Dynamo!Remaining(r) /\ n > 0 /\ Dynamo!Answered(r, n, TRUE)
           \/ n = left /\ Dynamo!Answered(r, n, FALSE)
  BY DEF Dynamo!Page
<1>2. /\ {start[r], lastKey[r], limit[r], evaluated[r], pages[r]} \subseteq Nat
      /\ start[r] <= lastKey[r] /\ lastKey[r] <= Size /\ Size \in Nat /\ left \in Nat
      /\ items[r] = ((start[r] + 1) .. lastKey[r]) \intersect Matching
  BY <1>1, DynamoAssumption DEF DynRead
<1>0. kind[r] \in Plainly \union {"once", "complete", "pages"}
  BY <1>1 DEF DynRead
<1>3. Cardinality(items[r]) \in Nat
  BY <1>2, Between
<1>4. Dynamo!Remaining(r) \in Nat
  <2>1. CASE kind[r] = "complete"
    <3>1. evaluated[r] < MaxEvaluated
      BY <1>1, <2>1 DEF DynRead
    <3> QED BY <1>2, <2>1, <3>1, DynamoAssumption DEF Dynamo!Remaining, Dynamo!Smaller
  <2>2. CASE kind[r] \in {"once", "pages"}
    BY <1>2, <2>2, DynamoAssumption DEF Dynamo!Remaining, Dynamo!Smaller
  <2>3. CASE kind[r] \notin {"complete", "once", "pages"} /\ limit[r] = 0
    BY <2>3 DEF Dynamo!Remaining
  <2>4. CASE kind[r] \in Plainly /\ limit[r] > 0
    <3>1. Cardinality(items[r]) < limit[r]
      BY <1>1, <2>4 DEF DynRead
    <3>2. Dynamo!Remaining(r) = limit[r] - Cardinality(items[r])
      BY <1>2, <2>4, DynRemaining
    <3> QED BY <1>2, <1>3, <3>1, <3>2
  <2> QED BY <1>2, <2>1, <2>2, <2>3, <2>4, <1>0 DEF Plainly
<1>5. PICK n \in Nat, key \in BOOLEAN :
        /\ Dynamo!Answered(r, n, key) /\ n <= left
        /\ Dynamo!Remaining(r) # 0 => n <= Dynamo!Remaining(r)
        /\ ~key => n = left
  <2>1. atMost \in Nat /\ atMost <= left /\ (Dynamo!Remaining(r) # 0 => atMost <= Dynamo!Remaining(r))
    BY <1>2, <1>4 DEF Dynamo!Smaller
  <2>2. PICK n \in (IF left = 0 THEN {0} ELSE 1 .. atMost) :
           \/ n < left /\ Dynamo!Answered(r, n, TRUE)
           \/ n = left /\ n = Dynamo!Remaining(r) /\ n > 0 /\ Dynamo!Answered(r, n, TRUE)
           \/ n = left /\ Dynamo!Answered(r, n, FALSE)
    BY <1>1
  <2> HIDE DEF atMost, left
  <2>3. n \in Nat /\ n <= left /\ (Dynamo!Remaining(r) # 0 => n <= Dynamo!Remaining(r))
    BY <1>2, <1>4, <2>1, <2>2
  <2> QED BY <2>2, <2>3
<1> DEFINE goesOn == key /\ ~Dynamo!Stops(r, I(n), evaluated[r] + n, pages[r] + 1)
<1>6. /\ lastKey'[r] = m(n) /\ items'[r] = I(n)
      /\ evaluated'[r] = evaluated[r] + n /\ pages'[r] = pages[r] + 1
      /\ hasMore'[r] = key
      /\ reading'[r] = "page" => goesOn
      /\ reading'[r] = "done" => ~goesOn
      /\ reading'[r] \in {"page", "done", "failed"}
  BY <1>5 DEF Dynamo!Answered, DynType
<1>7. /\ items'[r] = ((start[r] + 1) .. lastKey'[r]) \intersect Matching
      /\ Cardinality(items'[r]) <= Cardinality(items[r]) + n
      /\ Cardinality(items'[r]) \in Nat
  <2>1. ((start[r] + 1) .. (lastKey[r] + n)) \intersect Matching = I(n)
        /\ Cardinality(((start[r] + 1) .. (lastKey[r] + n)) \intersect Matching)
             <= Cardinality(items[r]) + n
    <3>1. start[r] \in Nat /\ lastKey[r] \in Nat /\ start[r] <= lastKey[r] /\ n \in Nat
      BY <1>2, <1>5
    <3> HIDE DEF left, atMost
    <3>2. /\ ((start[r] + 1) .. (lastKey[r] + n)) \intersect Matching
                = (((start[r] + 1) .. lastKey[r]) \intersect Matching)
                    \union (((lastKey[r] + 1) .. (lastKey[r] + n)) \intersect Matching)
          /\ Cardinality(((start[r] + 1) .. (lastKey[r] + n)) \intersect Matching)
               <= Cardinality(((start[r] + 1) .. lastKey[r]) \intersect Matching) + n
      BY <3>1, OneMore, Zenon
    <3> QED BY <1>2, <3>2, Zenon
  <2>2. start[r] \in Nat /\ m(n) \in Nat
    BY <1>2
  <2>3. Cardinality(((start[r] + 1) .. m(n)) \intersect Matching) \in Nat
    BY <2>2, Between, Zenon
  <2>4. lastKey'[r] = m(n) /\ items'[r] = I(n)
    BY <1>6, Zenon
  <2> QED BY <2>1, <2>3, <2>4, Zenon
<1>8. /\ start'[r] = start[r] /\ limit'[r] = limit[r] /\ kind'[r] = kind[r]
  BY <1>1
<1>9. /\ {start'[r], lastKey'[r], limit'[r], evaluated'[r], pages'[r]} \subseteq Nat
      /\ start'[r] <= lastKey'[r] /\ lastKey'[r] <= Size
  BY <1>2, <1>5, <1>6, <1>8
<1>10. reading'[r] \in {"page", "done"} /\ limit[r] > 0 /\ kind[r] \in Plainly =>
         /\ Cardinality(items'[r]) <= limit[r]
         /\ reading'[r] = "page" => Cardinality(items'[r]) < limit[r]
  <2> SUFFICES ASSUME limit[r] > 0, kind[r] \in Plainly
               PROVE  /\ Cardinality(items'[r]) <= limit[r]
                      /\ reading'[r] = "page" => Cardinality(items'[r]) < limit[r]
    OBVIOUS
  <2>1. Cardinality(items[r]) < limit[r]
    BY <1>1 DEF DynRead
  <2>2. Dynamo!Remaining(r) = limit[r] - Cardinality(items[r])
    BY <1>2, DynRemaining
  <2>3. Cardinality(items'[r]) <= limit[r]
    BY <1>2, <1>3, <1>5, <1>7, <2>1, <2>2
  <2>4. reading'[r] = "page" => ~Dynamo!Enough(r, items'[r])
    <3> HIDE DEF m
    <3>1. reading'[r] = "page" => ~Dynamo!Stops(r, items'[r], evaluated[r] + n, pages[r] + 1)
      BY <1>6
    <3> QED BY <3>1, DynEnough
  <2>5. limit[r] \in Nat
    BY <1>2
  <2> HIDE DEF m, I
  <2> QED BY <1>7, <2>3, <2>4, <2>5, DynCardinality DEF Dynamo!Enough
<1>11. kind[r] = "once" => evaluated'[r] <= PageLimit /\ reading'[r] # "page"
  <2> SUFFICES ASSUME kind[r] = "once" PROVE evaluated'[r] <= PageLimit /\ reading'[r] # "page"
    OBVIOUS
  <2>1. evaluated[r] = 0
    BY <1>1 DEF DynRead
  <2>2. Dynamo!Remaining(r) # 0 /\ Dynamo!Remaining(r) <= PageLimit
    BY <1>2, DynamoAssumption DEF Dynamo!Remaining, Dynamo!Smaller
  <2>3. Dynamo!Stops(r, I(n), evaluated[r] + n, pages[r] + 1)
    BY DEF Dynamo!Stops
  <2>4. n <= PageLimit
    BY <1>4, <1>5, <2>2, DynamoAssumption
  <2> HIDE DEF m, I
  <2> QED BY <1>6, <2>1, <2>3, <2>4
<1>12. kind[r] = "complete" => evaluated'[r] <= MaxEvaluated
                               /\ (reading'[r] = "page" => evaluated'[r] < MaxEvaluated)
  <2> SUFFICES ASSUME kind[r] = "complete"
               PROVE  evaluated'[r] <= MaxEvaluated
                      /\ (reading'[r] = "page" => evaluated'[r] < MaxEvaluated)
    OBVIOUS
  <2>1. evaluated[r] < MaxEvaluated
    BY <1>1 DEF DynRead
  <2>2. Dynamo!Remaining(r) # 0 /\ Dynamo!Remaining(r) <= MaxEvaluated - evaluated[r]
    BY <1>2, <2>1, DynamoAssumption DEF Dynamo!Remaining, Dynamo!Smaller
  <2>3. evaluated[r] + n >= MaxEvaluated => Dynamo!Stops(r, I(n), evaluated[r] + n, pages[r] + 1)
    BY DEF Dynamo!Stops
  <2>4. evaluated[r] + n <= MaxEvaluated
    BY <1>2, <1>4, <1>5, <2>2, DynamoAssumption
  <2> HIDE DEF m, I
  <2> QED BY <1>2, <1>6, <2>3, <2>4, DynamoAssumption
<1>13. kind[r] \in {"complete", "pages"} => pages'[r] <= MaxPages
                               /\ (reading'[r] = "page" => pages'[r] < MaxPages)
  <2> SUFFICES ASSUME kind[r] \in {"complete", "pages"}
               PROVE  pages'[r] <= MaxPages /\ (reading'[r] = "page" => pages'[r] < MaxPages)
    OBVIOUS
  <2>1. pages[r] < MaxPages
    BY <1>1 DEF DynRead
  <2>2. pages[r] + 1 >= MaxPages => Dynamo!Stops(r, I(n), evaluated[r] + n, pages[r] + 1)
    BY DEF Dynamo!Stops
  <2> HIDE DEF m, I
  <2> QED BY <1>2, <1>6, <2>1, <2>2, DynamoAssumption
<1>14. ~hasMore'[r] => lastKey'[r] = Size
  BY <1>2, <1>5, <1>6
<1> HIDE DEF m, I, left, atMost, goesOn
<1> QED BY <1>0, <1>7, <1>8, <1>9, <1>10, <1>11, <1>12, <1>13, <1>14 DEF DynRead, Plainly

\* Every step of DynamoRead keeps every read whole.
LEMMA DynReadStep ==
  ASSUME NEW r \in Reader, DynType, DynRead(r), [Dynamo!Next]_dynamoVars
  PROVE  DynRead(r)'
<1>1. ASSUME NEW q \in Reader, NEW n \in Nat, NEW s \in Nat,
             NEW k \in Plainly \union {"once", "complete", "pages"},
             Dynamo!Begin(q, k, n, s), s <= Size
      PROVE  DynRead(r)'
  <2>1. CASE q # r
    BY <1>1, <2>1 DEF Dynamo!Begin, DynRead, DynType
  <2>2. CASE q = r
    <3>1. ((s + 1) .. s) \intersect Matching = {}
      OBVIOUS
    <3>2. /\ reading'[r] = "page" /\ kind'[r] = k /\ limit'[r] = n /\ start'[r] = s
          /\ lastKey'[r] = s /\ items'[r] = {} /\ evaluated'[r] = 0 /\ pages'[r] = 0
      BY <1>1, <2>2 DEF Dynamo!Begin, DynType
    <3> QED BY <1>1, <3>1, <3>2, FS_EmptySet, DynamoAssumption DEF DynRead
  <2> QED BY <2>1, <2>2
<1>2. ASSUME NEW q \in Reader, Dynamo!Page(q) PROVE DynRead(r)'
  <2>1. CASE q # r
    <3>1. PICK n, key : Dynamo!Answered(q, n, key)
      BY <1>2 DEF Dynamo!Page
    <3>2. UNCHANGED <<reading[r], kind[r], limit[r], start[r], lastKey[r], items[r],
                      evaluated[r], pages[r], hasMore[r]>>
      BY <1>2, <2>1, <3>1 DEF Dynamo!Page, Dynamo!Answered, DynType
    <3> QED BY <3>2 DEF DynRead
  <2> QED BY <1>2, <2>1, DynPage
<1>3. ASSUME NEW q \in Reader, Dynamo!Fails(q) PROVE DynRead(r)'
  <2>1. CASE q # r
    BY <1>3, <2>1 DEF Dynamo!Fails, DynRead, DynType
  <2>2. CASE q = r
    <3>1. /\ reading[r] = "page"
          /\ reading'[r] = "failed" \/ (reading'[r] = "done" /\ kind[r] = "table")
          /\ UNCHANGED <<kind, limit, start, lastKey, items, evaluated, pages, hasMore>>
      BY <1>3, <2>2 DEF Dynamo!Fails, DynType
    <3> QED BY <3>1 DEF DynRead, Plainly
  <2> QED BY <2>1, <2>2
<1>4. CASE Dynamo!KillReads
  BY <1>4 DEF Dynamo!KillReads, DynRead
<1>5. CASE UNCHANGED dynamoVars
  BY <1>5 DEF dynamoVars, DynRead
<1> QED BY <1>1, <1>2, <1>3, <1>4, <1>5, DynSteps

\* Every step of DynamoRead keeps its functions functions.
LEMMA DynTypeStep == DynType /\ [Dynamo!Next]_dynamoVars => DynType'
<1> SUFFICES ASSUME DynType, [Dynamo!Next]_dynamoVars PROVE DynType'
  OBVIOUS
<1> USE DEF DynType
<1>1. ASSUME NEW q \in Reader, NEW n \in Nat, NEW s \in Nat, NEW k, Dynamo!Begin(q, k, n, s)
      PROVE  DynType'
  BY <1>1 DEF Dynamo!Begin
<1>2. ASSUME NEW q \in Reader, Dynamo!Page(q) PROVE DynType'
  <2>1. PICK n, key : Dynamo!Answered(q, n, key)
    BY <1>2 DEF Dynamo!Page
  <2>2. \E w : reading' = [reading EXCEPT ![q] = w]
    BY <2>1 DEF Dynamo!Answered
  <2> QED BY <1>2, <2>1, <2>2 DEF Dynamo!Page, Dynamo!Answered
<1>3. ASSUME NEW q \in Reader, Dynamo!Fails(q) PROVE DynType'
  BY <1>3 DEF Dynamo!Fails
<1>4. CASE Dynamo!KillReads
  BY <1>4 DEF Dynamo!KillReads
<1>5. CASE UNCHANGED dynamoVars
  BY <1>5 DEF dynamoVars
<1> HIDE DEF DynType
<1> QED BY <1>1, <1>2, <1>3, <1>4, <1>5, DynSteps

-----------------------------------------------------------------------------
(*****************************************************************************)
(* CloudWatchMetrics: the status of a series                                 *)
(*****************************************************************************)
\* The statuses of a series while its pages come.
Statuses == {"none", "complete", "no-data", "partial", "unavailable", "forbidden", "failed"}
\* The statuses of a request that failed.
Refused  == {"failed", "forbidden", "unavailable"}

\* mergeStatus takes one of the two, a good one only if both are, and a refusal if
\* there is one.
LEMMA Merged ==
  ASSUME NEW c \in Statuses, NEW s \in Statuses, s # "none"
  PROVE  /\ Metrics!MergeStatus(c, s) \in Statuses \ {"none"}
         /\ Metrics!MergeStatus(c, s) \in {c, s}
         /\ Metrics!MergeStatus(c, s) \in {"no-data", "complete"} =>
              c \in {"none", "no-data", "complete"} /\ s \in {"no-data", "complete"}
         /\ Metrics!MergeStatus(c, s) = "complete" => s = "complete"
         /\ c \in Refused \/ s \in Refused => Metrics!MergeStatus(c, s) \in Refused
BY DEF Statuses, Refused, Metrics!MergeStatus, Metrics!Rank

\* The state of the panel: functions of the queries and of the endpoints.
MetricType ==
  /\ truth = [q \in Metrics!Query |-> truth[q]]
  /\ points = [q \in Metrics!Query |-> points[q]]
  /\ status = [q \in Metrics!Query |-> status[q]]
  /\ batch = [e \in Endpoint |-> batch[e]] /\ \A e \in Endpoint : batch[e] \in Nat \ {0}

\* What the status of a series says of its points at any time.
Series(q) ==
  /\ truth[q] \subseteq Time /\ points[q] \subseteq truth[q]
  /\ status[q] \in Statuses
  /\ status[q] = "none" => points[q] = {}
  /\ status[q] \in {"complete", "no-data"} => points[q] = truth[q]
  /\ status[q] = "complete" => points[q] # {}
  /\ status[q] \in {"forbidden", "unavailable"} => q \in errored
  /\ q \in errored => status[q] \in Refused

\* The queries of the batches before the current one have a status.
Answered ==
  \A e \in Endpoint : \A i \in DOMAIN Batches(e) :
    i < batch[e] => \A q \in Batches(e)[i] : status[q] # "none"

\* A panel is shown after all batches, with what the statuses said.
Shown ==
  panel.state = "shown" =>
    /\ panel.status = [q \in Metrics!Query |-> Metrics!FinalStatus(q)]
    /\ panel.derived = Metrics!DerivedStatus
    /\ panel.numeric = Metrics!Numeric
    /\ \A e \in Endpoint : batch[e] \notin DOMAIN Batches(e)

\* The inductive invariant of CloudWatchMetrics.
MetricInv == MetricType /\ (\A q \in Metrics!Query : Series(q)) /\ Answered /\ Shown

\* The queries of a batch are queries.
LEMMA Batched ==
  ASSUME NEW e \in Endpoint, NEW i \in DOMAIN Batches(e) PROVE Batches(e)[i] \subseteq Metrics!Query
BY DEF Metrics!Query

\* A page of results keeps every series honest.
LEMMA MetricPage ==
  ASSUME MetricInv, NEW e \in Endpoint, Metrics!Page(e) PROVE MetricInv'
<1> DEFINE B == Metrics!InBatch(e)
<1>1. B \subseteq Metrics!Query /\ panel.state = "open" /\ batch[e] \in DOMAIN Batches(e)
  BY Batched DEF Metrics!Page, Metrics!Open, Metrics!InBatch
<1>2. PICK more, x :
        /\ more \in BOOLEAN /\ \A q \in B : x[q] \in Metrics!Results(q, ~more)
        /\ points' = [q \in Metrics!Query |-> IF q \in B THEN points[q] \union x[q].points
                                              ELSE points[q]]
        /\ status' = [q \in Metrics!Query |->
                        IF q \in B
                        THEN Metrics!MergeStatus(status[q],
                               Metrics!ResultStatus(x[q].code, x[q].points))
                        ELSE status[q]]
        /\ IF more THEN UNCHANGED batch ELSE Metrics!Turned(e)
  BY DEF Metrics!Page
<1>3. UNCHANGED <<truth, errored, panel>>
  BY DEF Metrics!Page
<1>4. MetricType'
  BY <1>2, <1>3 DEF MetricInv, MetricType, Metrics!Turned
<1>5. ASSUME NEW q \in B
      PROVE  /\ x[q].code \in {"Complete", "PartialData", "InternalError"}
             /\ x[q].points \subseteq truth[q]
             /\ x[q].code = "Complete" => points[q] \union x[q].points = truth[q]
  BY <1>2, <1>5 DEF Metrics!Results
<1>6. ASSUME NEW q \in B
      PROVE  /\ Series(q)' /\ status'[q] # "none"
  <2> DEFINE s == Metrics!ResultStatus(x[q].code, x[q].points)
  <2>1. /\ s \in Statuses /\ s \in {"complete", "no-data", "partial", "failed"}
        /\ s \in {"complete", "no-data"} => x[q].code = "Complete"
        /\ s = "complete" => x[q].points # {}
    BY <1>5 DEF Statuses, Metrics!ResultStatus
  <2>2. /\ status'[q] = Metrics!MergeStatus(status[q], s)
        /\ points'[q] = points[q] \union x[q].points
    BY <1>1, <1>2
  <2> HIDE DEF s, B
  <2>3. Series(q)
    BY <1>1 DEF MetricInv
  <2>4. /\ status'[q] \in Statuses \ {"none"}
        /\ status'[q] \in {status[q], s}
        /\ status'[q] \in {"no-data", "complete"} =>
              status[q] \in {"none", "no-data", "complete"} /\ s \in {"no-data", "complete"}
        /\ status'[q] = "complete" => s = "complete"
        /\ status[q] \in Refused \/ s \in Refused => status'[q] \in Refused
    <3>1. status[q] \in Statuses /\ s \in Statuses /\ s # "none"
      BY <2>1, <2>3 DEF Series
    <3> QED BY <2>2, <3>1, Merged
  <2>5. points'[q] \subseteq truth[q]
    BY <1>5, <2>2, <2>3 DEF Series
  <2>6. status'[q] \in {"no-data", "complete"} => points'[q] = truth[q]
    BY <1>5, <2>1, <2>2, <2>4
  <2>7. status'[q] = "complete" => points'[q] # {}
    BY <2>1, <2>2, <2>4
  <2>8. status'[q] \in {"forbidden", "unavailable"} => q \in errored
    BY <2>1, <2>3, <2>4 DEF Series
  <2> QED BY <1>3, <2>3, <2>4, <2>5, <2>6, <2>7, <2>8 DEF Series
<1>7. ASSUME NEW q \in Metrics!Query, q \notin B
      PROVE  Series(q)' /\ (status[q] # "none" => status'[q] # "none")
  BY <1>2, <1>3, <1>7 DEF MetricInv, Series
<1>8. Answered'
  <2> SUFFICES ASSUME NEW d \in Endpoint, NEW i \in DOMAIN Batches(d), i < batch'[d],
                      NEW q \in Batches(d)[i]
               PROVE  status'[q] # "none"
    BY DEF Answered
  <2>1. q \in Metrics!Query
    BY Batched
  <2>2. CASE q \in B
    BY <1>6, <2>2
  <2>3. CASE q \notin B
    <3>1. i < batch[d]
      <4>1. CASE d = e
        <5>1. i # batch[e]
          BY <2>3, <4>1 DEF Metrics!InBatch
        <5>2. i \in Nat /\ batch[e] \in Nat /\ batch'[e] \in {batch[e], batch[e] + 1}
          BY <1>2, <4>1, MetricsAssumption DEF MetricInv, MetricType, Metrics!Turned
        <5> QED BY <4>1, <5>1, <5>2
      <4>2. CASE d # e
        BY <1>2, <4>2 DEF Metrics!Turned, MetricInv, MetricType
      <4> QED BY <4>1, <4>2
    <3> QED BY <1>7, <2>1, <2>3, <3>1 DEF MetricInv, Answered
  <2> QED BY <2>2, <2>3
<1> QED BY <1>1, <1>3, <1>4, <1>6, <1>7, <1>8 DEF MetricInv, Shown

\* So does a request that fails.
LEMMA MetricFails ==
  ASSUME MetricInv, NEW e \in Endpoint, Metrics!RequestFails(e) PROVE MetricInv'
<1> DEFINE B == Metrics!InBatch(e)
<1>1. B \subseteq Metrics!Query /\ panel.state = "open" /\ batch[e] \in DOMAIN Batches(e)
  BY Batched DEF Metrics!RequestFails, Metrics!Open, Metrics!InBatch
<1>2. PICK s \in Refused :
        status' = [q \in Metrics!Query |-> IF q \in B THEN Metrics!MergeStatus(status[q], s)
                                           ELSE status[q]]
  BY DEF Metrics!RequestFails, Refused
<1>3. /\ UNCHANGED <<truth, points, panel>> /\ errored' = errored \union B
      /\ Metrics!Turned(e)
  BY DEF Metrics!RequestFails
<1>4. MetricType'
  BY <1>2, <1>3 DEF MetricInv, MetricType, Metrics!Turned
<1>5. ASSUME NEW q \in B PROVE Series(q)' /\ status'[q] # "none"
  <2>1. Series(q) /\ status'[q] = Metrics!MergeStatus(status[q], s)
    BY <1>1, <1>2 DEF MetricInv
  <2>2. s \in Statuses /\ s # "none"
    BY DEF Statuses, Refused
  <2>3. status'[q] \in Statuses \ {"none"} /\ status'[q] \in Refused
    BY <2>1, <2>2, Merged DEF Series
  <2>4. q \in errored'
    BY <1>3
  <2> HIDE DEF B
  <2> QED BY <1>3, <2>1, <2>3, <2>4 DEF Series, Refused
<1>6. ASSUME NEW q \in Metrics!Query, q \notin B
      PROVE  Series(q)' /\ (status[q] # "none" => status'[q] # "none")
  BY <1>2, <1>3, <1>6 DEF MetricInv, Series
<1>7. Answered'
  <2> SUFFICES ASSUME NEW d \in Endpoint, NEW i \in DOMAIN Batches(d), i < batch'[d],
                      NEW q \in Batches(d)[i]
               PROVE  status'[q] # "none"
    BY DEF Answered
  <2>1. q \in Metrics!Query
    BY Batched
  <2>2. CASE q \in B
    BY <1>5, <2>2
  <2>3. CASE q \notin B
    <3>1. i < batch[d]
      <4>1. CASE d = e
        <5>1. i # batch[e]
          BY <2>3, <4>1 DEF Metrics!InBatch
        <5>2. i \in Nat /\ batch[e] \in Nat /\ batch'[e] = batch[e] + 1
          BY <1>3, <4>1, MetricsAssumption DEF MetricInv, MetricType, Metrics!Turned
        <5> QED BY <4>1, <5>1, <5>2
      <4>2. CASE d # e
        BY <1>3, <4>2 DEF Metrics!Turned, MetricInv, MetricType
      <4> QED BY <4>1, <4>2
    <3> QED BY <1>6, <2>1, <2>3, <3>1 DEF MetricInv, Answered
  <2> QED BY <2>2, <2>3
<1> QED BY <1>1, <1>3, <1>4, <1>5, <1>6, <1>7 DEF MetricInv, Shown

\* Every step of CloudWatchMetrics keeps the invariant.
LEMMA MetricStep == MetricInv /\ [Metrics!Next]_metricVars => MetricInv'
<1> SUFFICES ASSUME MetricInv, [Metrics!Next]_metricVars PROVE MetricInv'
  OBVIOUS
<1>1. ASSUME NEW e \in Endpoint, Metrics!Abort(e) PROVE MetricInv'
  <2>1. UNCHANGED <<truth, batch, points, status, errored>> /\ panel'.state = "aborted"
    BY <1>1 DEF Metrics!Abort, Metrics!NoPanel
  <2> QED BY <2>1 DEF MetricInv, MetricType, Series, Answered, Shown
<1>2. CASE Metrics!Collect
  <2>1. UNCHANGED <<truth, batch, points, status, errored>>
    BY <1>2 DEF Metrics!Collect
  <2>2. /\ Metrics!DerivedStatus' = Metrics!DerivedStatus /\ Metrics!Numeric' = Metrics!Numeric
        /\ \A q : Metrics!FinalStatus(q)' = Metrics!FinalStatus(q)
    BY <2>1 DEF Metrics!DerivedStatus, Metrics!Numeric, Metrics!FinalStatus, Metrics!Severe
  <2>3. Shown'
    BY <1>2, <2>1, <2>2 DEF Metrics!Collect, Shown
  <2> QED BY <2>1, <2>3 DEF MetricInv, MetricType, Series, Answered
<1>3. CASE UNCHANGED metricVars
  <2>1. UNCHANGED <<truth, batch, points, status, errored, panel>>
    BY <1>3 DEF metricVars
  <2>2. /\ Metrics!DerivedStatus' = Metrics!DerivedStatus /\ Metrics!Numeric' = Metrics!Numeric
        /\ \A q : Metrics!FinalStatus(q)' = Metrics!FinalStatus(q)
    BY <2>1 DEF Metrics!DerivedStatus, Metrics!Numeric, Metrics!FinalStatus, Metrics!Severe
  <2>3. Shown'
    BY <2>1, <2>2 DEF MetricInv, Shown
  <2> QED BY <2>1, <2>3 DEF MetricInv, MetricType, Series, Answered
<1>4. ASSUME NEW e \in Endpoint, Metrics!Page(e) \/ Metrics!RequestFails(e) PROVE MetricInv'
  BY <1>4, MetricPage, MetricFails
<1> QED BY <1>1, <1>2, <1>3, <1>4 DEF Metrics!Next

\* The invariant makes the shown series and the derived one honest.
LEMMA MetricHonest == MetricInv => Metrics!SeriesAreHonest /\ Metrics!DerivedIsHonest
<1> SUFFICES ASSUME MetricInv, panel.state = "shown"
             PROVE  Metrics!SeriesAreHonest /\ Metrics!DerivedIsHonest
  BY DEF Metrics!SeriesAreHonest, Metrics!DerivedIsHonest
<1>1. ASSUME NEW q \in Metrics!Query PROVE status[q] # "none" /\ Series(q)
  <2>0. PICK e \in Endpoint : \E i \in DOMAIN Batches(e) : q \in Batches(e)[i]
    BY DEF Metrics!Query
  <2>1. PICK i \in DOMAIN Batches(e) : q \in Batches(e)[i]
    BY <2>0
  <2>2. i \in 1 .. Len(Batches(e)) /\ Len(Batches(e)) \in Nat /\ batch[e] \in Nat \ {0}
        /\ batch[e] \notin 1 .. Len(Batches(e))
    BY MetricsAssumption DEF MetricInv, MetricType, Shown
  <2>3. i < batch[e]
    BY <2>2
  <2> QED BY <2>1, <2>3 DEF MetricInv, Answered
<1>2. ASSUME NEW q \in Metrics!Query
      PROVE  /\ panel.status[q] = Metrics!FinalStatus(q)
             /\ panel.status[q] \in Statuses
             /\ panel.status[q] = "complete" => points[q] = truth[q] /\ points[q] # {}
             /\ panel.status[q] = "no-data"  => truth[q] = {}
             /\ panel.status[q] = "no-data"  => points[q] = {}
             /\ panel.status[q] \in {"forbidden", "unavailable"} => q \in errored
             /\ q \in errored => panel.status[q] \in {"failed", "forbidden", "unavailable"}
  <2>1. panel.status[q] = Metrics!FinalStatus(q)
    BY DEF MetricInv, Shown
  <2>2. status[q] # "none" /\ Series(q)
    BY <1>1
  <2> QED BY <2>1, <2>2 DEF Series, Metrics!FinalStatus, Statuses, Refused
<1>3. Metrics!SeriesAreHonest
  BY <1>2 DEF Metrics!SeriesAreHonest
<1>4. ASSUME panel.derived = "complete"
      PROVE  /\ \A q \in Inputs : panel.status[q] = "complete"
             /\ panel.numeric = {t \in Time : \A q \in Inputs : t \in truth[q]}
             /\ panel.numeric # {}
  <2>1. Metrics!DerivedStatus = "complete" /\ panel.numeric = Metrics!Numeric
    BY <1>4 DEF MetricInv, Shown
  <2> DEFINE S == {Metrics!FinalStatus(q) : q \in Inputs}
  <2>2. /\ Inputs # {} /\ Metrics!Severe = {} /\ "partial" \notin S
        /\ ("no-data" \in S => S = {"no-data"}) /\ Metrics!Numeric # {}
    BY <2>1 DEF Metrics!DerivedStatus
  <2>3. PICK t \in Time : \A q \in Inputs : t \in points[q]
    BY <2>2 DEF Metrics!Numeric
  <2>4. \A q \in Inputs : q \in Metrics!Query
    BY MetricsAssumption
  <2>5. \A q \in Inputs : Metrics!FinalStatus(q) # "no-data"
    BY <1>2, <2>3, <2>4
  <2>6. ASSUME NEW q \in Inputs PROVE Metrics!FinalStatus(q) = "complete"
    <3>1. Metrics!FinalStatus(q) # "partial"
      BY <2>2
    <3>2. Metrics!FinalStatus(q) \notin {"failed", "forbidden", "unavailable"}
      BY <2>2 DEF Metrics!Severe
    <3>3. Metrics!FinalStatus(q) \in Statuses
      BY <1>2, <2>4
    <3>4. Metrics!FinalStatus(q) # "none"
      BY <1>1, <2>4 DEF Metrics!FinalStatus, Series, Statuses
    <3> QED BY <2>5, <3>1, <3>2, <3>3, <3>4 DEF Statuses
  <2>7. \A q \in Inputs : panel.status[q] = "complete" /\ points[q] = truth[q]
    BY <1>2, <2>4, <2>6
  <2> QED BY <2>1, <2>2, <2>7 DEF Metrics!Numeric
<1> QED BY <1>3, <1>4 DEF Metrics!DerivedIsHonest

-----------------------------------------------------------------------------
(*****************************************************************************)
(* RedisScan: scans and the selected database                                *)
(*****************************************************************************)
\* The two copies of Cardinality are one.
LEMMA RedisCardinality == \A S : Redis!Cardinality(S) = Cardinality(S)
BY Zenon DEF Redis!Cardinality, Cardinality

\* The keys of a set of entries of one database.
LEMMA FirstOfProduct == ASSUME NEW C, NEW d PROVE {f[1] : f \in C \X {d}} = C
<1>1. ASSUME NEW c \in C PROVE c \in {f[1] : f \in C \X {d}}
  <2>1. <<c, d>> \in C \X {d} /\ <<c, d>>[1] = c
    OBVIOUS
  <2> QED BY <2>1, Zenon
<1>2. ASSUME NEW f \in C \X {d} PROVE f[1] \in C
  OBVIOUS
<1> QED BY <1>1, <1>2

\* What a select of another database means for the keys a scan has found.
LEMMA Moves ==
  ASSUME NEW R, NEW F, NEW X, IsFiniteSet(R), IsFiniteSet(X), F \subseteq X,
         NEW G, IsFiniteSet(G), Cardinality(G) = Cardinality(F), R \intersect G = {}
  PROVE  Cardinality(R \union G) + Cardinality(X \ F) = Cardinality(R) + Cardinality(X)
<1>1. /\ IsFiniteSet(R \union G)
      /\ Cardinality(R \union G) = Cardinality(R) + Cardinality(G) - Cardinality(R \intersect G)
  BY FS_Union
<1>2. Cardinality({}) = 0
  BY FS_EmptySet
<1>3. IsFiniteSet(F)
  BY FS_Subset
<1>4. /\ IsFiniteSet(X \ F)
      /\ Cardinality(X \ F) = Cardinality(X) - Cardinality(X \intersect F)
  BY FS_Difference
<1>5. X \intersect F = F
  OBVIOUS
<1>6. {Cardinality(R), Cardinality(X), Cardinality(F)} \subseteq Nat
  BY <1>3, FS_CardinalityType
<1>7. Cardinality(R \union G) = Cardinality(R) + Cardinality(F)
  BY <1>1, <1>2, <1>6
<1>8. Cardinality(X \ F) = Cardinality(X) - Cardinality(F)
  BY <1>4, <1>5
<1> QED BY <1>1, <1>4, <1>6, <1>7, <1>8

\* What a scan has and returns; each is a set of keys with their database.
\* The content and the scans: functions of the databases and of the scans.
RedisType ==
  /\ selected \in Db /\ content = [d \in Db |-> content[d]]
  /\ scan = [s \in Scanner |-> scan[s]] /\ dbIndex = [s \in Scanner |-> dbIndex[s]]
  /\ found = [s \in Scanner |-> found[s]] /\ typed = [s \in Scanner |-> typed[s]]
  /\ reply = [s \in Scanner |-> reply[s]]
  /\ \A d \in Db : IsFiniteSet(content[d])
  /\ \A s \in Scanner : dbIndex[s] \in Db

\* A scan whose keys have been found.
Reading(s) == scan[s] \in {"typed", "done"}

\* The types of one scan.
ScanType(s) ==
  /\ scan[s] \in {"idle", "scanning", "ended", "typed", "done"}
  /\ IsFiniteSet(found[s]) /\ IsFiniteSet(reply[s])
  /\ \A f \in found[s] : f = <<f[1], f[2]>>
  /\ \A r \in reply[s] : <<r[1], r[2]>> \notin found[s]
  /\ scan[s] \in {"idle", "done"} => found[s] = {}
  /\ ~Reading(s) => reply[s] = {}
  /\ Reading(s) => Cardinality(reply[s]) + Cardinality(found[s]) <= ScanLimit

\* A scan nobody has interfered with is in its own database ...
\* As long as nobody selects another database, a scan stays in its own.
OneDb(s) ==
  scan[s] # "idle" /\ s \notin moved =>
    /\ selected = dbIndex[s]
    /\ \A f \in found[s] : f[2] = dbIndex[s]
    /\ Reading(s) => typed[s] = dbIndex[s]
    /\ \A r \in reply[s] : r[2] = dbIndex[s] /\ r[3] = dbIndex[s] /\ r[4] = dbIndex[s]

\* The keys a scan will have read.
Keys(s)  == {r[1] : r \in reply[s]} \union {f[1] : f \in found[s]}
\* The keys of the database a scan was opened in.
Whole(s) == content[dbIndex[s]] \X {dbIndex[s]}

\* ... and sees all of it, or as much as it may.
\* ... and finds what is there and did not change.
WholeDb(s) ==
  scan[s] # "idle" /\ s \notin moved \union changed =>
    /\ scan[s] \in {"scanning", "ended"} => found[s] \subseteq Whole(s)
    /\ scan[s] = "ended" => Cardinality(found[s]) > ScanLimit \/ found[s] = Whole(s)
    /\ Reading(s) => \/ Cardinality(reply[s]) + Cardinality(found[s]) = ScanLimit
                     \/ Keys(s) = content[dbIndex[s]]

\* The inductive invariant of RedisScan.
RedisInv == RedisType /\ \A s \in Scanner : ScanType(s) /\ OneDb(s) /\ WholeDb(s)

\* The invariant is what the scans promise.
LEMMA RedisHonest == RedisInv => Redis!ScanInOneDb /\ Redis!ScanWithinLimit
<1> SUFFICES ASSUME RedisInv PROVE Redis!ScanInOneDb /\ Redis!ScanWithinLimit
  OBVIOUS
<1>1. Redis!ScanInOneDb
  BY DEF RedisInv, OneDb, Redis!ScanInOneDb, Redis!At
<1>2. ASSUME NEW s \in Scanner, scan[s] = "done"
      PROVE  /\ Cardinality(reply[s]) <= ScanLimit
             /\ s \notin moved \union changed =>
                  Cardinality(reply[s]) = ScanLimit \/ {r[1] : r \in reply[s]} = content[dbIndex[s]]
  <2>1. ScanType(s) /\ WholeDb(s) /\ Reading(s) /\ found[s] = {}
    BY <1>2 DEF RedisInv, Reading, ScanType
  <2>2. Cardinality(found[s]) = 0 /\ Cardinality(reply[s]) \in Nat
    BY <2>1, FS_EmptySet, FS_CardinalityType DEF ScanType
  <2>3. Keys(s) = {r[1] : r \in reply[s]}
    BY <2>1 DEF Keys
  <2>4. Cardinality(reply[s]) <= ScanLimit
    BY <2>1, <2>2, RedisAssumption DEF ScanType
  <2>5. ASSUME s \notin moved \union changed
        PROVE  Cardinality(reply[s]) = ScanLimit \/ {r[1] : r \in reply[s]} = content[dbIndex[s]]
    BY <1>2, <2>1, <2>2, <2>3, <2>5 DEF WholeDb
  <2> QED BY <2>4, <2>5
<1> QED BY <1>1, <1>2, RedisCardinality DEF Redis!ScanWithinLimit, Redis!At

\* It holds before the first scan.
LEMMA RedisInit == Redis!Init => RedisInv
<1> SUFFICES ASSUME Redis!Init PROVE RedisInv
  OBVIOUS
<1>1. selected \in Db
  BY RedisAssumption, Zenon DEF Redis!Init
<1>2. /\ scan = [s \in Scanner |-> "idle"] /\ content = [d \in Db |-> Stored(d)]
      /\ dbIndex = [s \in Scanner |-> selected] /\ typed = [s \in Scanner |-> selected]
      /\ found = [s \in Scanner |-> {}] /\ reply = [s \in Scanner |-> {}]
  BY DEF Redis!Init
<1>3. RedisType
  BY <1>1, <1>2, RedisAssumption DEF RedisType
<1>4. ASSUME NEW s \in Scanner PROVE ScanType(s) /\ OneDb(s) /\ WholeDb(s)
  BY <1>2, FS_EmptySet DEF ScanType, OneDb, WholeDb, Reading
<1> QED BY <1>3, <1>4 DEF RedisInv

\* A select keeps it.
LEMMA RedisSelect ==
  ASSUME RedisInv, NEW s \in Scanner, NEW d \in Db, Redis!Select(s, d) PROVE RedisInv'
<1>1. /\ scan[s] \in {"idle", "done"} /\ scan' = [scan EXCEPT ![s] = "scanning"]
      /\ dbIndex' = [dbIndex EXCEPT ![s] = d] /\ reply' = [reply EXCEPT ![s] = {}]
      /\ selected' = d
      /\ moved' = (moved \union {x \in Scanner : scan[x] # "idle" /\ dbIndex[x] # d}) \ {s}
      /\ changed' = changed \ {s} /\ UNCHANGED <<content, typed, found>>
  BY DEF Redis!Select, Redis!Goto, Redis!Moved, Redis!Begun
<1>2. RedisType'
  BY <1>1 DEF RedisInv, RedisType
<1>3. found[s] = {}
  BY <1>1 DEF RedisInv, ScanType
<1>4. /\ scan'[s] = "scanning" /\ dbIndex'[s] = d /\ reply'[s] = {} /\ found'[s] = {}
  BY <1>1, <1>3 DEF RedisInv, RedisType
<1>5. ScanType(s)' /\ OneDb(s)' /\ WholeDb(s)'
  BY <1>1, <1>4, FS_EmptySet DEF ScanType, OneDb, WholeDb, Reading
<1>6. ASSUME NEW x \in Scanner, x # s PROVE ScanType(x)' /\ OneDb(x)' /\ WholeDb(x)'
  <2>1. UNCHANGED <<scan[x], dbIndex[x], reply[x], found[x], typed[x]>>
    BY <1>1, <1>6 DEF RedisInv, RedisType
  <2>2. ScanType(x) /\ OneDb(x) /\ WholeDb(x)
    BY DEF RedisInv
  <2>3. ScanType(x)'
    BY <2>1, <2>2 DEF ScanType, Reading
  <2>4. x \in moved => x \in moved'
    BY <1>1, <1>6
  <2>5. scan[x] # "idle" /\ x \notin moved' => dbIndex[x] = d
    BY <1>1, <1>6
  <2>6. OneDb(x)'
    BY <1>1, <2>1, <2>2, <2>4, <2>5 DEF OneDb, Reading
  <2>7. x \notin moved' \union changed' => x \notin moved \union changed
    BY <1>1, <1>6
  <2>8. WholeDb(x)'
    BY <1>1, <2>1, <2>2, <2>7 DEF WholeDb, Reading, Whole, Keys
  <2> QED BY <2>3, <2>6, <2>8
<1> QED BY <1>2, <1>5, <1>6 DEF RedisInv

\* A batch of keys keeps it.
LEMMA RedisBatch ==
  ASSUME RedisInv, NEW s \in Scanner, Redis!Batch(s) PROVE RedisInv'
<1>1. scan[s] = "scanning" /\ UNCHANGED <<selected, content, dbIndex, typed, reply, moved, changed>>
  BY DEF Redis!Batch, Redis!At
<1>2. PICK B \in SUBSET content[selected] :
        LET all == found[s] \union (B \X {selected}) IN
        /\ found' = [found EXCEPT ![s] = all]
        /\ \/ /\ content[selected] \X {selected} \subseteq all
              /\ scan' = [scan EXCEPT ![s] = "ended"]
           \/ Cardinality(all) > ScanLimit /\ scan' = [scan EXCEPT ![s] = "ended"]
           \/ UNCHANGED scan
  BY RedisCardinality DEF Redis!Batch, Redis!Goto
<1> DEFINE all == found[s] \union (B \X {selected})
<1>3. RedisType'
  BY <1>1, <1>2 DEF RedisInv, RedisType
<1>4. /\ found'[s] = all /\ scan'[s] \in {"scanning", "ended"}
      /\ scan'[s] = "ended" => Cardinality(all) > ScanLimit
                               \/ content[selected] \X {selected} \subseteq all
  BY <1>1, <1>2 DEF RedisInv, RedisType
<1>5. IsFiniteSet(all)
  <2>1. IsFiniteSet(B) /\ IsFiniteSet({selected})
    BY FS_Subset, FS_Singleton DEF RedisInv, RedisType
  <2>2. IsFiniteSet(B \X {selected})
    BY <2>1, FS_Product
  <2> QED BY <2>2, FS_Union DEF RedisInv, ScanType
<1>6. reply[s] = {} /\ ScanType(s) /\ OneDb(s) /\ WholeDb(s)
  BY <1>1 DEF RedisInv, ScanType, Reading
<1>7. \A f \in all : f = <<f[1], f[2]>> /\ (f \in found[s] \/ f[2] = selected)
  BY <1>6 DEF ScanType
<1>8. /\ UNCHANGED <<dbIndex[s], reply[s], typed[s], selected, content, moved, changed>>
  BY <1>1
<1> HIDE DEF all
<1>9. ScanType(s)'
  BY <1>4, <1>5, <1>6, <1>7, <1>8 DEF ScanType, Reading
<1>10. OneDb(s)'
  BY <1>1, <1>4, <1>6, <1>7, <1>8 DEF OneDb, Reading
<1>11. WholeDb(s)'
  <2> SUFFICES ASSUME s \notin moved \union changed
               PROVE  /\ all \subseteq Whole(s)
                      /\ scan'[s] = "ended" => Cardinality(all) > ScanLimit \/ all = Whole(s)
    BY <1>4, <1>8 DEF WholeDb, Reading, Whole
  <2>1. selected = dbIndex[s] /\ found[s] \subseteq Whole(s)
    BY <1>1, <1>6 DEF OneDb, WholeDb
  <2>2. all \subseteq Whole(s)
    BY <2>1 DEF Whole, all
  <2> QED BY <1>4, <2>1, <2>2 DEF Whole
<1>12. ASSUME NEW x \in Scanner, x # s PROVE ScanType(x)' /\ OneDb(x)' /\ WholeDb(x)'
  <2>1. UNCHANGED <<scan[x], dbIndex[x], reply[x], found[x], typed[x]>>
    BY <1>1, <1>2, <1>12 DEF RedisInv, RedisType
  <2>2. ScanType(x) /\ OneDb(x) /\ WholeDb(x)
    BY DEF RedisInv
  <2> QED BY <1>1, <2>1, <2>2 DEF ScanType, OneDb, WholeDb, Reading, Whole, Keys
<1> QED BY <1>3, <1>9, <1>10, <1>11, <1>12 DEF RedisInv

\* The types of the keys keep it.
LEMMA RedisTypes ==
  ASSUME RedisInv, NEW s \in Scanner, Redis!Type(s) PROVE RedisInv'
<1>1. /\ scan[s] = "ended" /\ scan' = [scan EXCEPT ![s] = "typed"]
      /\ typed' = [typed EXCEPT ![s] = selected]
      /\ UNCHANGED <<selected, content, dbIndex, reply, moved, changed>>
  BY DEF Redis!Type, Redis!At, Redis!Goto
<1>2. PICK F \in Redis!Trimmed(found[s]) : found' = [found EXCEPT ![s] = F]
  BY DEF Redis!Type
<1>3. /\ F \subseteq found[s]
      /\ Cardinality(found[s]) > ScanLimit => Cardinality(F) = ScanLimit
      /\ ~(Cardinality(found[s]) > ScanLimit) => F = found[s]
  BY <1>2, RedisCardinality DEF Redis!Trimmed, Redis!kSubset
<1>4. RedisType'
  BY <1>1, <1>2 DEF RedisInv, RedisType
<1>5. reply[s] = {} /\ ScanType(s) /\ OneDb(s) /\ WholeDb(s)
  BY <1>1 DEF RedisInv, ScanType, Reading
<1>6. /\ found'[s] = F /\ scan'[s] = "typed" /\ typed'[s] = selected
      /\ UNCHANGED <<dbIndex[s], reply[s], selected, content, moved, changed>>
  BY <1>1, <1>2 DEF RedisInv, RedisType
<1>7. IsFiniteSet(F) /\ Cardinality(F) \in Nat /\ Cardinality(found[s]) \in Nat
  BY <1>3, <1>5, FS_Subset, FS_CardinalityType DEF ScanType
<1>8. Cardinality({}) = 0
  BY FS_EmptySet
<1>9. ScanType(s)'
  BY <1>3, <1>5, <1>6, <1>7, <1>8, RedisAssumption DEF ScanType, Reading
<1>10. OneDb(s)'
  BY <1>1, <1>3, <1>5, <1>6 DEF OneDb, Reading
<1>11. WholeDb(s)'
  <2> SUFFICES ASSUME s \notin moved \union changed
               PROVE  Cardinality({}) + Cardinality(F) = ScanLimit
                      \/ {f[1] : f \in F} = content[dbIndex[s]]
    BY <1>5, <1>6 DEF WholeDb, Reading, Keys
  <2>1. Cardinality(found[s]) > ScanLimit \/ found[s] = Whole(s)
    BY <1>1, <1>5 DEF WholeDb
  <2>2. CASE Cardinality(found[s]) > ScanLimit
    BY <1>3, <1>8, <2>2, RedisAssumption
  <2>3. CASE ~(Cardinality(found[s]) > ScanLimit)
    <3>1. F = content[dbIndex[s]] \X {dbIndex[s]}
      BY <1>3, <2>1, <2>3 DEF Whole
    <3>2. {f[1] : f \in F} = content[dbIndex[s]]
      BY <3>1, FirstOfProduct
    <3> QED BY <3>2
  <2> QED BY <2>2, <2>3
<1>12. ASSUME NEW x \in Scanner, x # s PROVE ScanType(x)' /\ OneDb(x)' /\ WholeDb(x)'
  <2>1. UNCHANGED <<scan[x], dbIndex[x], reply[x], found[x], typed[x]>>
    BY <1>1, <1>2, <1>12 DEF RedisInv, RedisType
  <2>2. ScanType(x) /\ OneDb(x) /\ WholeDb(x)
    BY DEF RedisInv
  <2> QED BY <1>1, <2>1, <2>2 DEF ScanType, OneDb, WholeDb, Reading, Whole, Keys
<1> QED BY <1>4, <1>9, <1>10, <1>11, <1>12 DEF RedisInv

\* The values of the keys keep it.
LEMMA RedisRead ==
  ASSUME RedisInv, NEW s \in Scanner, Redis!Read(s) PROVE RedisInv'
<1>1. /\ scan[s] = "typed"
      /\ UNCHANGED <<selected, content, dbIndex, typed, moved, changed>>
  BY DEF Redis!Read, Redis!At
<1>2. PICK F \in SUBSET found[s] :
       /\ reply' = [reply EXCEPT ![s] =
                      @ \union {<<f[1], f[2], typed[s], selected>> : f \in F}]
       /\ found' = [found EXCEPT ![s] = @ \ F]
       /\ IF F = found[s] THEN scan' = [scan EXCEPT ![s] = "done"] ELSE UNCHANGED scan
  BY DEF Redis!Read, Redis!Goto
<1>0. PICK G : G = {<<f[1], f[2], typed[s], selected>> : f \in F}
  OBVIOUS
<1>3. RedisType'
  BY <1>1, <1>2 DEF RedisInv, RedisType
<1>4. ScanType(s) /\ OneDb(s) /\ WholeDb(s)
  BY DEF RedisInv
<1>5. /\ found'[s] = found[s] \ F /\ reply'[s] = reply[s] \union G
      /\ scan'[s] \in {"typed", "done"} /\ (scan'[s] = "done" => F = found[s])
      /\ UNCHANGED <<dbIndex[s], typed[s], selected, content, moved, changed>>
  BY <1>0, <1>1, <1>2 DEF RedisInv, RedisType
<1>6. IsFiniteSet(F)
  BY <1>4, FS_Subset DEF ScanType
<1>7. /\ IsFiniteSet(G) /\ Cardinality(G) = Cardinality(F)
      /\ \A k : (\E g \in G : g[1] = k) <=> (\E f \in F : f[1] = k)
  <2> DEFINE h == [f \in F |-> <<f[1], f[2], typed[s], selected>>]
  <2>1. \A f \in F : f = <<f[1], f[2]>>
    BY <1>4 DEF ScanType
  <2>2. h \in Surjection(F, G)
    BY <1>0 DEF Surjection
  <2>3. h \in Injection(F, G)
    <3>1. h \in [F -> G]
      BY <1>0
    <3>2. ASSUME NEW a \in F, NEW b \in F, h[a] = h[b] PROVE a = b
      <4>1. a[1] = b[1] /\ a[2] = b[2]
        BY <3>2
      <4>2. a = <<a[1], a[2]>> /\ b = <<b[1], b[2]>>
        BY <2>1
      <4> QED BY <4>1, <4>2
    <3> HIDE DEF h
    <3> QED BY <3>1, <3>2 DEF Injection, IsInjective
  <2>4. ASSUME NEW g \in G PROVE \E f \in F : f[1] = g[1]
    <3>1. PICK f \in F : g = <<f[1], f[2], typed[s], selected>>
      BY <1>0
    <3>2. g[1] = f[1]
      BY <3>1
    <3> QED BY <3>2
  <2>5. ASSUME NEW f \in F PROVE \E g \in G : g[1] = f[1]
    <3>1. <<f[1], f[2], typed[s], selected>> \in G
      BY <1>0
    <3>2. <<f[1], f[2], typed[s], selected>>[1] = f[1]
      OBVIOUS
    <3> QED BY <3>1, <3>2, Zenon
  <2> HIDE DEF h
  <2>6. IsFiniteSet(G) /\ Cardinality(G) = Cardinality(F)
    BY <1>6, <2>2, <2>3, FS_Surjection
  <2> QED BY <2>4, <2>5, <2>6, Zenon
<1>8. ASSUME NEW g \in G PROVE <<g[1], g[2]>> \in F /\ g[3] = typed[s] /\ g[4] = selected
  <2>1. PICK f \in F : g = <<f[1], f[2], typed[s], selected>>
    BY <1>0
  <2>2. f = <<f[1], f[2]>>
    BY <1>4 DEF ScanType
  <2>3. g[1] = f[1] /\ g[2] = f[2] /\ g[3] = typed[s] /\ g[4] = selected
    BY <2>1
  <2> QED BY <2>2, <2>3
<1>9. reply[s] \intersect G = {}
  BY <1>4, <1>8 DEF ScanType
<1>10. /\ IsFiniteSet(reply'[s]) /\ IsFiniteSet(found'[s])
       /\ Cardinality(reply'[s]) + Cardinality(found'[s])
            = Cardinality(reply[s]) + Cardinality(found[s])
  <2>1. IsFiniteSet(reply[s]) /\ IsFiniteSet(found[s])
    BY <1>4 DEF ScanType
  <2>2. F \subseteq found[s]
    OBVIOUS
  <2>3. IsFiniteSet(reply[s] \union G) /\ IsFiniteSet(found[s] \ F)
    BY <1>7, <2>1, FS_Union, FS_Difference
  <2>4. Cardinality(reply[s] \union G) + Cardinality(found[s] \ F)
          = Cardinality(reply[s]) + Cardinality(found[s])
    <3>1. IsFiniteSet(G) /\ Cardinality(G) = Cardinality(F)
      BY <1>7
    <3> QED BY <1>9, <2>1, <2>2, <3>1, Moves
  <2> QED BY <1>5, <2>3, <2>4
<1>12. \A r \in reply'[s] : <<r[1], r[2]>> \notin found'[s]
  BY <1>4, <1>5, <1>8 DEF ScanType
<1>13. ScanType(s)'
  BY <1>1, <1>4, <1>5, <1>10, <1>12 DEF ScanType, Reading
<1>14. OneDb(s)'
  <2> SUFFICES ASSUME s \notin moved
               PROVE  OneDb(s)'
    BY <1>5 DEF OneDb
  <2>1. /\ selected = dbIndex[s] /\ typed[s] = dbIndex[s]
        /\ \A f \in found[s] : f[2] = dbIndex[s]
        /\ \A r \in reply[s] : r[2] = dbIndex[s] /\ r[3] = dbIndex[s] /\ r[4] = dbIndex[s]
    BY <1>1, <1>4 DEF OneDb, Reading
  <2>2. \A g \in G : g[2] = dbIndex[s] /\ g[3] = dbIndex[s] /\ g[4] = dbIndex[s]
    <3>1. \A g \in G : <<g[1], g[2]>>[2] = dbIndex[s]
      BY <1>8, <2>1
    <3> QED BY <1>8, <2>1, <3>1
  <2> QED BY <1>5, <2>1, <2>2 DEF OneDb, Reading
<1>15. WholeDb(s)'
  <2>1. Keys(s)' = Keys(s)
    <3>1. ASSUME NEW k PROVE k \in Keys(s)' <=> k \in Keys(s)
      <4>1. k \in Keys(s) <=> (\E r \in reply[s] : r[1] = k) \/ (\E f \in found[s] : f[1] = k)
        BY DEF Keys
      <4>2. k \in Keys(s)' <=>
              (\E r \in reply'[s] : r[1] = k) \/ (\E f \in found'[s] : f[1] = k)
        BY DEF Keys
      <4>3. (\E r \in reply'[s] : r[1] = k) <=>
              (\E r \in reply[s] : r[1] = k) \/ (\E f \in F : f[1] = k)
        BY <1>5, <1>7
      <4> QED BY <1>5, <4>1, <4>2, <4>3
    <3> QED BY <3>1 DEF Keys
  <2>2. Reading(s)' /\ Reading(s)
    BY <1>1, <1>5 DEF Reading
  <2> QED BY <1>1, <1>4, <1>5, <1>10, <2>1, <2>2 DEF WholeDb, Reading
<1>16. ASSUME NEW x \in Scanner, x # s PROVE ScanType(x)' /\ OneDb(x)' /\ WholeDb(x)'
  <2>1. UNCHANGED <<scan[x], dbIndex[x], reply[x], found[x], typed[x]>>
    BY <1>1, <1>2, <1>16 DEF RedisInv, RedisType
  <2>2. ScanType(x) /\ OneDb(x) /\ WholeDb(x)
    BY DEF RedisInv
  <2> QED BY <1>1, <2>1, <2>2 DEF ScanType, OneDb, WholeDb, Reading, Whole, Keys
<1> QED BY <1>3, <1>13, <1>14, <1>15, <1>16 DEF RedisInv

\* The other steps keep it.
LEMMA RedisOthers ==
  ASSUME RedisInv,
         (\E d \in Db : Redis!Command(d)) \/ (\E k \in content[selected] : Redis!Delete(k))
  PROVE  RedisInv'
<1>1. ASSUME NEW d \in Db, Redis!Command(d) PROVE RedisInv'
  <2>1. /\ selected' = d
        /\ moved' = moved \union {x \in Scanner : scan[x] # "idle" /\ dbIndex[x] # d}
        /\ UNCHANGED <<content, scan, dbIndex, found, typed, reply, changed>>
    BY <1>1 DEF Redis!Command, Redis!Moved, Redis!Begun
  <2>2. RedisType'
    BY <2>1 DEF RedisInv, RedisType
  <2>3. ASSUME NEW x \in Scanner PROVE ScanType(x)' /\ OneDb(x)' /\ WholeDb(x)'
    <3>1. ScanType(x) /\ OneDb(x) /\ WholeDb(x)
      BY DEF RedisInv
    <3>2. scan[x] # "idle" /\ x \notin moved' => x \notin moved /\ dbIndex[x] = d
      BY <2>1
    <3>3. ScanType(x)'
      BY <2>1, <3>1 DEF ScanType, Reading
    <3>4. OneDb(x)'
      BY <2>1, <3>1, <3>2 DEF OneDb, Reading
    <3>5. WholeDb(x)'
      BY <2>1, <3>1, <3>2 DEF WholeDb, Reading, Whole, Keys
    <3> QED BY <3>3, <3>4, <3>5
  <2> QED BY <2>2, <2>3 DEF RedisInv
<1>2. ASSUME NEW k \in content[selected], Redis!Delete(k) PROVE RedisInv'
  <2>1. /\ content' = [content EXCEPT ![selected] = @ \ {k}]
        /\ changed' = changed \union {x \in Scanner : scan[x] # "idle"}
        /\ UNCHANGED <<selected, scan, dbIndex, found, typed, reply, moved>>
    BY <1>2 DEF Redis!Delete, Redis!Begun
  <2>2. RedisType'
    <3>1. \A d \in Db : content'[d] \subseteq content[d]
      BY <2>1 DEF RedisInv, RedisType
    <3>2. \A d \in Db : IsFiniteSet(content'[d])
      BY <3>1, FS_Subset DEF RedisInv, RedisType
    <3> QED BY <2>1, <3>2 DEF RedisInv, RedisType
  <2>3. ASSUME NEW x \in Scanner PROVE ScanType(x)' /\ OneDb(x)' /\ WholeDb(x)'
    <3>1. ScanType(x) /\ OneDb(x)
      BY DEF RedisInv
    <3> QED BY <2>1, <3>1 DEF ScanType, OneDb, WholeDb, Reading
  <2> QED BY <2>2, <2>3 DEF RedisInv
<1> QED BY <1>1, <1>2

\* Every step of RedisScan keeps the invariant.
LEMMA RedisStep == RedisInv /\ [Redis!Next]_redisVars => RedisInv'
<1> SUFFICES ASSUME RedisInv, [Redis!Next]_redisVars PROVE RedisInv'
  OBVIOUS
<1>1. ASSUME NEW s \in Scanner, (\E d \in Db : Redis!Select(s, d)) \/ Redis!Batch(s)
                                 \/ Redis!Type(s) \/ Redis!Read(s)
      PROVE  RedisInv'
  BY <1>1, RedisSelect, RedisBatch, RedisTypes, RedisRead
<1>2. CASE UNCHANGED redisVars
  <2>1. UNCHANGED <<selected, content, scan, dbIndex, found, typed, reply, moved, changed>>
    BY <1>2 DEF redisVars
  <2>2. RedisType'
    BY <2>1 DEF RedisInv, RedisType
  <2>3. ASSUME NEW x \in Scanner PROVE ScanType(x)' /\ OneDb(x)' /\ WholeDb(x)'
    <3>1. ScanType(x) /\ OneDb(x) /\ WholeDb(x)
      BY DEF RedisInv
    <3> QED BY <2>1, <3>1 DEF ScanType, OneDb, WholeDb, Reading, Whole, Keys
  <2> QED BY <2>2, <2>3 DEF RedisInv
<1> QED BY <1>1, <1>2, RedisOthers DEF Redis!Next

-----------------------------------------------------------------------------
(*****************************************************************************)
(* Listings: sorted lists                                                    *)
(*****************************************************************************)
\* The two copies of Cardinality are one.
LEMMA ListCardinality == \A S : Lists!Cardinality(S) = Cardinality(S)
BY Zenon DEF Lists!Cardinality, Cardinality

\* The place of an entry in a set, the entries of a list, and a list without
\* repetition.
Rank(x, S)  == Cardinality({y \in S : y <= x})
Members(s)  == {s[i] : i \in 1 .. Len(s)}
Distinct(s) == \A i, j \in 1 .. Len(s) : s[i] = s[j] => i = j

\* The two definitions of rank are one.
LEMMA RankIs == \A x, S : Lists!Rank(x, S) = Rank(x, S)
BY ListCardinality DEF Lists!Rank, Rank

\* Sets of entries are finite sets of numbers.
LEMMA FiniteEntries ==
  ASSUME NEW S \in SUBSET Lists!Entry
  PROVE  IsFiniteSet(S) /\ Cardinality(S) \in Nat /\ S \subseteq Nat
<1>1. IsFiniteSet(Lists!Entry)
  BY ListsAssumption, FS_Interval DEF Lists!Entry
<1>2. IsFiniteSet(S) /\ Cardinality(S) \in Nat
  BY <1>1, FS_Subset, FS_CardinalityType
<1> QED BY <1>2, ListsAssumption DEF Lists!Entry

\* A rank is a place of the set.
LEMMA RankType ==
  ASSUME NEW S \in SUBSET Lists!Entry, NEW x \in S
  PROVE  Rank(x, S) \in 1 .. Cardinality(S)
<1> DEFINE B == {y \in S : y <= x}
<1>1. IsFiniteSet(S) /\ Cardinality(S) \in Nat /\ S \subseteq Nat
  BY FiniteEntries
<1>2. B \in SUBSET S /\ x \in B
  BY <1>1
<1> HIDE DEF B
<1>3. IsFiniteSet(B) /\ Cardinality(B) <= Cardinality(S)
  BY <1>1, <1>2, FS_Subset
<1>4. Cardinality(B) \in Nat /\ Cardinality(B) # 0
  BY <1>2, <1>3, FS_CardinalityType, FS_EmptySet
<1> QED BY <1>1, <1>3, <1>4 DEF Rank, B

\* A smaller entry has a smaller rank.
LEMMA RankLess ==
  ASSUME NEW S \in SUBSET Lists!Entry, NEW x \in S, NEW y \in S, x < y
  PROVE  Rank(x, S) < Rank(y, S)
<1> DEFINE B == {z \in S : z <= x}
           C == {z \in S : z <= y}
<1>1. IsFiniteSet(S) /\ Cardinality(S) \in Nat /\ S \subseteq Nat
  BY FiniteEntries
<1>2. B \in SUBSET C /\ C \in SUBSET S /\ B # C
  <2>1. \A z \in S : z <= x => z <= y
    BY <1>1
  <2>2. y \in C /\ y \notin B
    BY <1>1
  <2> QED BY <2>1, <2>2
<1> HIDE DEF B, C
<1>3. IsFiniteSet(C)
  BY <1>1, <1>2, FS_Subset
<1>4. IsFiniteSet(B) /\ Cardinality(B) <= Cardinality(C) /\ Cardinality(B) # Cardinality(C)
  BY <1>2, <1>3, FS_Subset
<1>5. Cardinality(B) \in Nat /\ Cardinality(C) \in Nat
  BY <1>3, <1>4, FS_CardinalityType
<1> QED BY <1>4, <1>5 DEF Rank, B, C

\* In a larger set a rank is no smaller.
LEMMA RankGrows ==
  ASSUME NEW T \in SUBSET Lists!Entry, NEW S \in SUBSET T, NEW x
  PROVE  Rank(x, S) <= Rank(x, T)
<1> DEFINE B == {z \in S : z <= x}
           C == {z \in T : z <= x}
<1>1. IsFiniteSet(T)
  BY FiniteEntries
<1>2. B \in SUBSET C /\ C \in SUBSET T
  OBVIOUS
<1> HIDE DEF B, C
<1>3. IsFiniteSet(C)
  BY <1>1, <1>2, FS_Subset
<1>4. Cardinality(B) <= Cardinality(C)
  BY <1>2, <1>3, FS_Subset
<1> QED BY <1>4 DEF Rank, B, C

\* Every place of a set is the rank of one of its entries.
LEMMA RankOnto ==
  ASSUME NEW S \in SUBSET Lists!Entry, NEW i \in 1 .. Cardinality(S)
  PROVE  \E x \in S : Rank(x, S) = i
<1> DEFINE n == Cardinality(S)
           h == [x \in S |-> Rank(x, S)]
<1>1. IsFiniteSet(S) /\ n \in Nat /\ S \subseteq Nat
  BY FiniteEntries
<1>2. h \in [S -> 1 .. n]
  BY RankType
<1>3. ASSUME NEW a \in S, NEW b \in S, h[a] = h[b] PROVE a = b
  <2>1. Rank(a, S) = Rank(b, S) /\ Rank(a, S) \in Nat
    BY <1>1, <1>3, RankType
  <2>2. ~(a < b) /\ ~(b < a)
    BY <2>1, RankLess
  <2> QED BY <1>1, <2>2
<1> HIDE DEF h
<1>4. h \in Injection(S, 1 .. n)
  BY <1>2, <1>3 DEF Injection, IsInjective
<1>5. IsFiniteSet(1 .. n) /\ Cardinality(1 .. n) = n
  BY <1>1, FS_Interval
<1>6. h \in Surjection(S, 1 .. n)
  BY <1>4, <1>5, FS_Injection
<1>7. \E x \in S : h[x] = i
  BY <1>6 DEF Surjection
<1> QED BY <1>7 DEF h

\* Sort puts every entry of a set at its rank.
LEMMA Sorted ==
  ASSUME NEW S \in SUBSET Lists!Entry
  PROVE  /\ Lists!Sort(S) \in Seq(S) /\ Len(Lists!Sort(S)) = Cardinality(S)
         /\ \A i \in 1 .. Cardinality(S) :
              Lists!Sort(S)[i] \in S /\ Rank(Lists!Sort(S)[i], S) = i
         /\ \A x \in S : Lists!Sort(S)[Rank(x, S)] = x
<1> DEFINE n == Cardinality(S)
           s == Lists!Sort(S)
<1>1. IsFiniteSet(S) /\ n \in Nat /\ S \subseteq Nat
  BY FiniteEntries
<1>2. s = [i \in 1 .. n |-> CHOOSE x \in S : Rank(x, S) = i]
  BY ListCardinality, RankIs DEF Lists!Sort
<1>3. ASSUME NEW i \in 1 .. n PROVE s[i] \in S /\ Rank(s[i], S) = i
  <2>1. s[i] = CHOOSE x \in S : Rank(x, S) = i
    BY <1>2
  <2>2. \E x \in S : Rank(x, S) = i
    BY RankOnto
  <2> HIDE DEF s
  <2> QED BY <2>1, <2>2, Zenon
<1> HIDE DEF s, n
<1>4. s \in Seq(S) /\ Len(s) = n
  BY <1>1, <1>2, <1>3
<1>5. ASSUME NEW x \in S PROVE s[Rank(x, S)] = x
  <2>1. Rank(x, S) \in 1 .. n
    BY RankType DEF n
  <2>2. s[Rank(x, S)] \in S /\ Rank(s[Rank(x, S)], S) = Rank(x, S)
    BY <1>3, <2>1
  <2>3. PICK y : y = s[Rank(x, S)]
    OBVIOUS
  <2>4. y \in S /\ Rank(y, S) = Rank(x, S) /\ Rank(x, S) \in Nat
    BY <1>1, <2>1, <2>2, <2>3 DEF n
  <2>5. ~(x < y) /\ ~(y < x)
    BY <2>4, RankLess
  <2> QED BY <1>1, <2>3, <2>4, <2>5
<1> QED BY <1>3, <1>4, <1>5 DEF s, n

\* A sorted list has the entries of its set, each once.
LEMMA SortedList ==
  ASSUME NEW S \in SUBSET Lists!Entry
  PROVE  /\ Lists!Sort(S) \in Seq(Lists!Entry)
         /\ Members(Lists!Sort(S)) = S /\ Distinct(Lists!Sort(S))
<1> DEFINE s == Lists!Sort(S)
<1>1. /\ s \in Seq(S) /\ Len(s) = Cardinality(S) /\ Cardinality(S) \in Nat
      /\ \A i \in 1 .. Cardinality(S) : s[i] \in S /\ Rank(s[i], S) = i
      /\ \A x \in S : s[Rank(x, S)] = x
  BY Sorted, FiniteEntries
<1> HIDE DEF s
<1>2. s \in Seq(Lists!Entry)
  BY <1>1
<1>3. ASSUME NEW x \in S PROVE x \in Members(s)
  BY <1>1, RankType DEF Members
<1>4. Members(s) = S
  BY <1>1, <1>3 DEF Members
<1>5. Distinct(s)
  BY <1>1 DEF Distinct
<1> QED BY <1>2, <1>4, <1>5 DEF s

\* The first n of a list: no other entries, and all if there are no more than n.
LEMMA FirstOf ==
  ASSUME NEW T, NEW s \in Seq(T), NEW n \in Nat
  PROVE  /\ Lists!First(n, s) \in Seq(T)
         /\ Len(Lists!First(n, s)) = IF Len(s) > n THEN n ELSE Len(s)
         /\ \A i \in 1 .. Len(Lists!First(n, s)) : Lists!First(n, s)[i] = s[i]
         /\ Members(Lists!First(n, s)) \subseteq Members(s)
         /\ Distinct(s) => Distinct(Lists!First(n, s))
         /\ Len(s) <= n => Lists!First(n, s) = s
<1>1. CASE Len(s) > n
  <2>1. Lists!First(n, s) = SubSeq(s, 1, n)
    BY <1>1 DEF Lists!First
  <2>2. /\ SubSeq(s, 1, n) \in Seq(T) /\ Len(SubSeq(s, 1, n)) = n
        /\ \A i \in 1 .. n : SubSeq(s, 1, n)[i] = s[i]
    BY <1>1
  <2>3. PICK f : f = Lists!First(n, s)
    OBVIOUS
  <2>4. f \in Seq(T) /\ Len(f) = n /\ (\A i \in 1 .. n : f[i] = s[i] /\ i \in 1 .. Len(s))
    BY <1>1, <2>1, <2>2, <2>3
  <2>5. Members(f) \subseteq Members(s)
    BY <2>4 DEF Members
  <2>6. Distinct(s) => Distinct(f)
    BY <2>4 DEF Distinct
  <2> QED BY <1>1, <2>3, <2>4, <2>5, <2>6
<1>2. CASE ~(Len(s) > n)
  BY <1>2 DEF Lists!First
<1> QED BY <1>1, <1>2

\* Two lists without repetition and without a common entry make one.
LEMMA Concat ==
  ASSUME NEW T, NEW s \in Seq(T), NEW t \in Seq(T)
  PROVE  /\ s \o t \in Seq(T) /\ Len(s \o t) = Len(s) + Len(t)
         /\ Members(s \o t) = Members(s) \union Members(t)
         /\ Distinct(s) /\ Distinct(t) /\ Members(s) \intersect Members(t) = {} =>
              Distinct(s \o t)
<1>1. /\ s \o t \in Seq(T) /\ Len(s \o t) = Len(s) + Len(t)
      /\ \A i \in 1 .. Len(s) + Len(t) :
           (s \o t)[i] = IF i <= Len(s) THEN s[i] ELSE t[i - Len(s)]
      /\ Len(s) \in Nat /\ Len(t) \in Nat
  OBVIOUS
<1> DEFINE u == s \o t
<1>2. ASSUME NEW i \in 1 .. Len(s) PROVE u[i] = s[i] /\ i \in 1 .. Len(u)
  BY <1>1
<1>3. ASSUME NEW i \in 1 .. Len(t) PROVE u[Len(s) + i] = t[i] /\ Len(s) + i \in 1 .. Len(u)
  BY <1>1
<1>4. ASSUME NEW i \in 1 .. Len(u)
      PROVE  \/ i \in 1 .. Len(s) /\ u[i] = s[i]
             \/ i - Len(s) \in 1 .. Len(t) /\ u[i] = t[i - Len(s)]
  BY <1>1
<1> HIDE DEF u
<1>5. Members(u) \subseteq Members(s) \union Members(t)
  BY <1>4 DEF Members
<1>6. Members(s) \subseteq Members(u)
  BY <1>2 DEF Members
<1>7. Members(t) \subseteq Members(u)
  BY <1>3 DEF Members
<1>8. ASSUME Distinct(s), Distinct(t), Members(s) \intersect Members(t) = {} PROVE Distinct(u)
  <2> SUFFICES ASSUME NEW i \in 1 .. Len(u), NEW j \in 1 .. Len(u), u[i] = u[j] PROVE i = j
    BY DEF Distinct
  <2>1. \A a \in 1 .. Len(s), b \in 1 .. Len(t) : s[a] # t[b]
    BY <1>8 DEF Members
  <2>2. CASE i \in 1 .. Len(s) /\ u[i] = s[i]
    BY <1>1, <1>4, <1>8, <2>1, <2>2 DEF Distinct
  <2>3. CASE i - Len(s) \in 1 .. Len(t) /\ u[i] = t[i - Len(s)]
    <3>1. j - Len(s) \in 1 .. Len(t) /\ u[j] = t[j - Len(s)]
      BY <1>4, <2>1, <2>3
    <3>2. i - Len(s) = j - Len(s)
      BY <1>8, <2>3, <3>1 DEF Distinct
    <3>3. i \in Nat /\ j \in Nat
      OBVIOUS
    <3> QED BY <1>1, <3>2, <3>3
  <2> QED BY <1>4, <2>2, <2>3
<1>9. Members(u) = Members(s) \union Members(t)
  BY <1>5, <1>6, <1>7
<1> QED BY <1>1, <1>8, <1>9 DEF u

\* A list without repetition is as long as its set is large.
LEMMA AsManyMembers ==
  ASSUME NEW s \in Seq(Lists!Entry)
  PROVE  /\ Members(s) \in SUBSET Lists!Entry /\ Cardinality(Members(s)) <= Len(s)
         /\ Distinct(s) => Cardinality(Members(s)) = Len(s)
<1> DEFINE h == [i \in 1 .. Len(s) |-> s[i]]
<1>0. Len(s) \in Nat
  OBVIOUS
<1>1. IsFiniteSet(1 .. Len(s)) /\ Cardinality(1 .. Len(s)) = Len(s)
  BY <1>0, FS_Interval
<1>2. h \in Surjection(1 .. Len(s), Members(s))
  BY DEF Surjection, Members
<1>3. Distinct(s) => h \in Injection(1 .. Len(s), Members(s))
  BY DEF Injection, IsInjective, Distinct, Members
<1> HIDE DEF h
<1>4. Cardinality(Members(s)) <= Len(s)
      /\ (Distinct(s) => Cardinality(Members(s)) = Len(s))
  BY <1>1, <1>2, <1>3, FS_Surjection
<1>5. Members(s) \in SUBSET Lists!Entry
  BY DEF Members
<1> QED BY <1>4, <1>5

\* ToSet gives the entries of a list.
LEMMA ListMembers == ASSUME NEW T, NEW s \in Seq(T) PROVE Lists!ToSet(s) = Members(s)
BY DEF Lists!ToSet, Members

\* IsInjective says that a list has no repetition.
LEMMA ListInjective == ASSUME NEW T, NEW s \in Seq(T) PROVE Lists!IsInjective(s) <=> Distinct(s)
BY DEF Lists!IsInjective, Distinct

\* The entries of a list that pass a filter.
LEMMA PassingOf ==
  ASSUME NEW s \in Seq(Lists!Entry), NEW pass
  PROVE  /\ Lists!Passing(s, pass) \in Seq(Lists!Entry)
         /\ Members(Lists!Passing(s, pass)) = Members(s) \intersect pass
         /\ Distinct(Lists!Passing(s, pass))
         /\ Len(Lists!Passing(s, pass)) <= Len(s)
         /\ Distinct(s) /\ Members(s) \subseteq pass => Len(Lists!Passing(s, pass)) = Len(s)
<1> DEFINE M == Members(s) \intersect pass
<1>1. /\ Members(s) \in SUBSET Lists!Entry /\ Cardinality(Members(s)) <= Len(s)
      /\ Distinct(s) => Cardinality(Members(s)) = Len(s)
  BY AsManyMembers
<1>2. Lists!Passing(s, pass) = Lists!Sort(M)
  BY ListMembers DEF Lists!Passing
<1>3. M \in SUBSET Lists!Entry /\ M \in SUBSET Members(s)
  BY <1>1
<1>4. Members(s) \subseteq pass => M = Members(s)
  OBVIOUS
<1>5. Len(s) \in Nat
  OBVIOUS
<1> HIDE DEF M
<1>6. IsFiniteSet(Members(s)) /\ Cardinality(Members(s)) \in Nat /\ Cardinality(M) \in Nat
  BY <1>1, <1>3, FiniteEntries
<1>7. Cardinality(M) <= Cardinality(Members(s))
  BY <1>3, <1>6, FS_Subset
<1>8. /\ Lists!Sort(M) \in Seq(Lists!Entry) /\ Members(Lists!Sort(M)) = M
      /\ Distinct(Lists!Sort(M)) /\ Len(Lists!Sort(M)) = Cardinality(M)
  BY <1>3, Sorted, SortedList
<1>9. PICK p : p = Lists!Passing(s, pass)
  OBVIOUS
<1>10. p \in Seq(Lists!Entry) /\ Members(p) = M /\ Distinct(p) /\ Len(p) = Cardinality(M)
  BY <1>2, <1>8, <1>9
<1>11. Len(p) <= Len(s) /\ (Distinct(s) /\ Members(s) \subseteq pass => Len(p) = Len(s))
  BY <1>1, <1>4, <1>5, <1>6, <1>7, <1>10
<1> QED BY <1>9, <1>10, <1>11 DEF M

\* The page after the first k entries has every entry whose rank is in it.
LEMMA PageOf ==
  ASSUME NEW A \in SUBSET Lists!Entry, NEW k \in Nat
  PROVE  LET all == Lists!Sort(A)
             page == Lists!First(PageSize, SubSeq(all, k + 1, Len(all)))
         IN  /\ page \in Seq(Lists!Entry) /\ Len(page) <= PageSize
             /\ Len(page) = PageSize \/ k + Len(page) >= Len(all)
             /\ k < Len(all) => k + Len(page) <= Len(all)
             /\ \A i \in 1 .. Len(page) : k + i \in 1 .. Len(all) /\ page[i] = all[k + i]
             /\ \A x \in A : k < Rank(x, A) /\ Rank(x, A) <= k + Len(page) => x \in Members(page)
<1> DEFINE all == Lists!Sort(A)
           rest == SubSeq(all, k + 1, Len(all))
           page == Lists!First(PageSize, rest)
<1>1. /\ all \in Seq(Lists!Entry) /\ Len(all) \in Nat
      /\ \A x \in A : Rank(x, A) \in 1 .. Len(all) /\ all[Rank(x, A)] = x
  <2>1. all \in Seq(Lists!Entry)
    BY SortedList
  <2>2. Len(all) = Cardinality(A) /\ \A x \in A : all[Rank(x, A)] = x
    BY Sorted
  <2>3. \A x \in A : Rank(x, A) \in 1 .. Cardinality(A)
    BY RankType
  <2> HIDE DEF all
  <2> QED BY <2>1, <2>2, <2>3
<1> HIDE DEF all
<1>2. /\ rest \in Seq(Lists!Entry)
      /\ Len(rest) = IF k < Len(all) THEN Len(all) - k ELSE 0
      /\ \A i \in 1 .. Len(rest) : rest[i] = all[k + i]
  <2>1. \A i \in (k + 1) .. Len(all) : all[i] \in Lists!Entry
    BY <1>1
  <2>2. rest = [i \in 1 .. (1 + Len(all) - (k + 1)) |-> all[i + (k + 1) - 1]]
    OBVIOUS
  <2>3. CASE k < Len(all)
    BY <1>1, <2>3
  <2>4. CASE ~(k < Len(all))
    BY <1>1, <2>4
  <2> QED BY <2>3, <2>4
<1> HIDE DEF rest
<1>3. /\ page \in Seq(Lists!Entry)
      /\ Len(page) = IF Len(rest) > PageSize THEN PageSize ELSE Len(rest)
      /\ \A i \in 1 .. Len(page) : page[i] = rest[i]
  BY <1>2, FirstOf, ListsAssumption
<1> HIDE DEF page
<1>4. PageSize \in Nat \ {0} /\ Len(rest) \in Nat /\ Len(page) \in Nat
  BY <1>2, <1>3, ListsAssumption
<1>5. /\ Len(page) <= PageSize /\ (Len(page) = PageSize \/ k + Len(page) >= Len(all))
      /\ k < Len(all) => k + Len(page) <= Len(all)
  BY <1>1, <1>2, <1>3, <1>4
<1>6. ASSUME NEW i \in 1 .. Len(page) PROVE k + i \in 1 .. Len(all) /\ page[i] = all[k + i]
  BY <1>1, <1>2, <1>3, <1>4
<1>7. ASSUME NEW x \in A, k < Rank(x, A), Rank(x, A) <= k + Len(page)
      PROVE  x \in Members(page)
  <2>1. Rank(x, A) - k \in 1 .. Len(page) /\ k + (Rank(x, A) - k) = Rank(x, A)
    BY <1>1, <1>4, <1>7
  <2>2. page[Rank(x, A) - k] = x
    BY <1>1, <1>6, <2>1
  <2> QED BY <2>1, <2>2 DEF Members
<1> QED BY <1>3, <1>5, <1>6, <1>7 DEF all, rest, page

-----------------------------------------------------------------------------
(*****************************************************************************)
(* Listings: pages, groups and markers                                       *)
(*****************************************************************************)
\* The entries, the limit and the list.
ListType ==
  /\ present \in SUBSET Lists!Entry /\ always \in SUBSET present
  /\ cap \in Nat /\ place \in Nat
  /\ taken \in Seq(Lists!Entry) /\ Len(taken) <= cap

\* The entries the pages of a numbered listing are cut from.
All == IF way \in {"roles", "users"} THEN present \intersect wanted ELSE present

\* Pages by number that do not slide: what was there all the time and stood on a
\* page that was read is in the list.
PagesInv ==
  listing = "open" /\ way \in Lists!Pages /\ ~removed =>
    \A x \in always \intersect wanted :
      Rank(x, All) <= place * PageSize => x \in Members(taken)

\* getClient has asked for no page after the last one.
ClientInv ==
  way = "client" =>
    /\ cap # 0 /\ Members(taken) \subseteq wanted
    /\ listing = "open" /\ ~removed =>
         place * PageSize = 0 \/ place * PageSize < Cardinality(present)

\* A listing by group has the entries of the groups it has read, each once.
GroupsInv ==
  way \in {"sessions", "slabs"} =>
    /\ Distinct(taken)
    /\ listing = "open" =>
         /\ \A x \in Members(taken) : Group(x) \notin groups
         /\ \/ Len(taken) = cap
            \/ way = "slabs" /\ wanted # Lists!Entry
            \/ \A x \in always : Group(x) \in groups \/ x \in Members(taken)

\* A listing by marker has the entries up to its marker, each once.
ObjectsInv ==
  way = "objects" =>
    /\ Distinct(taken) /\ \A x \in Members(taken) : x <= place
    /\ listing = "open" => \A x \in always \intersect wanted : x > place \/ x \in Members(taken)

\* What was there when a purge began is on its page or after its marker.
PurgeInv ==
  listing = "open" =>
    IF way = "purge" THEN \A x \in always : x \in doomed \/ (x > place /\ ~lastPage)
    ELSE doomed = {}

\* What a listing that is done has.
DoneInv ==
  listing = "done" =>
    /\ way \notin {"purge", "client"} =>
         \/ Len(taken) = cap \/ gaveUp
         \/ way \in Lists!Pages /\ removed
         \/ way = "slabs" /\ wanted # Lists!Entry
         \/ always \intersect wanted \subseteq Members(taken)
    /\ way = "client" /\ taken = <<>> /\ ~removed => Entries \notin always \intersect wanted
    /\ way = "purge" => always = {}

\* The inductive invariant of Listings.
ListInv ==
  ListType /\ PagesInv /\ ClientInv /\ GroupsInv /\ ObjectsInv /\ PurgeInv /\ DoneInv

\* Pages have equal steps.
LEMMA Steps ==
  ASSUME NEW a \in Nat, NEW b \in Nat
  PROVE  a * b \in Nat /\ (a + 1) * b = a * b + b /\ 0 * b = 0
OBVIOUS

\* The empty list.
LEMMA NoMembers == Members(<<>>) = {} /\ Distinct(<<>>) /\ Len(<<>>) = 0
BY DEF Members, Distinct

\* The invariant is what the listings promise.
LEMMA ListHonest ==
  ListInv => /\ Lists!ListsAreWhole /\ Lists!ClientIsFound
             /\ Lists!MarkersNeverRepeat /\ Lists!PurgeIsWhole
<1> SUFFICES ASSUME ListInv
             PROVE  /\ Lists!ListsAreWhole /\ Lists!ClientIsFound
                    /\ Lists!MarkersNeverRepeat /\ Lists!PurgeIsWhole
  OBVIOUS
<1>1. /\ Lists!ToSet(taken) = Members(taken) /\ (Lists!IsInjective(taken) <=> Distinct(taken))
  BY ListMembers, ListInjective DEF ListInv, ListType
<1>2. Lists!ListsAreWhole
  BY <1>1 DEF ListInv, ListType, DoneInv, Lists!ListsAreWhole
<1>3. Lists!ClientIsFound
  BY <1>1 DEF ListInv, ClientInv, DoneInv, Lists!ClientIsFound
<1>4. Lists!MarkersNeverRepeat
  BY <1>1 DEF ListInv, GroupsInv, ObjectsInv, Lists!MarkersNeverRepeat
<1>5. Lists!PurgeIsWhole
  BY DEF ListInv, DoneInv, Lists!PurgeIsWhole
<1> QED BY <1>2, <1>3, <1>4, <1>5

\* It holds before the first listing.
LEMMA ListInit == Lists!Init => ListInv
<1> SUFFICES ASSUME Lists!Init PROVE ListInv
  OBVIOUS
<1>1. /\ present = Lists!Entry /\ listing = "idle" /\ way = "clients" /\ cap = 0 /\ place = 0
      /\ taken = <<>> /\ always = {}
  BY DEF Lists!Init
<1> QED BY <1>1, NoMembers
        DEF ListInv, ListType, PagesInv, ClientInv, GroupsInv, ObjectsInv, PurgeInv, DoneInv

\* Starting a listing establishes it.
LEMMA ListStart ==
  ASSUME ListInv, NEW w \in Lists!Ways, NEW n \in ListLimits, Lists!Start(w, n) PROVE ListInv'
<1>1. /\ listing' = "open" /\ way' = w /\ cap' = IF w = "client" THEN 1 ELSE n
      /\ groups' = IF w \in {"sessions", "slabs"} THEN {Group(x) : x \in present} ELSE {}
      /\ place' = 0 /\ taken' = <<>> /\ doomed' = {} /\ lastPage' = FALSE
      /\ always' = present /\ removed' = FALSE /\ present' = present
  BY DEF Lists!Start
<1>2. present \in SUBSET Lists!Entry /\ n \in Nat /\ PageSize \in Nat
  BY ListsAssumption DEF ListInv, ListType
<1>3. ListType'
  BY <1>1, <1>2, NoMembers DEF ListType
<1>4. PagesInv'
  <2> SUFFICES ASSUME NEW x \in always' \intersect wanted', w \in Lists!Pages
               PROVE  ~(Rank(x, All') <= place' * PageSize)
    BY <1>1 DEF PagesInv
  <2>1. All' \in SUBSET Lists!Entry /\ x \in All'
    BY <1>1, <1>2 DEF All
  <2>2. Rank(x, All') \in 1 .. Cardinality(All') /\ Cardinality(All') \in Nat
    BY <2>1, RankType, FiniteEntries
  <2>3. place' * PageSize = 0
    BY <1>1, <1>2
  <2> QED BY <2>2, <2>3
<1>5. ClientInv'
  BY <1>1, <1>2, NoMembers DEF ClientInv
<1>6. GroupsInv' /\ ObjectsInv'
  BY <1>1, <1>2, NoMembers DEF GroupsInv, ObjectsInv, Lists!Entry
<1>7. PurgeInv'
  BY <1>1, <1>2 DEF PurgeInv, Lists!Entry
<1>8. DoneInv'
  BY <1>1 DEF DoneInv
<1> QED BY <1>3, <1>4, <1>5, <1>6, <1>7, <1>8 DEF ListInv

\* A page by number keeps it: the page has every entry between its first and its
\* last place, so that nothing that stays is stepped over unless an entry was removed.
LEMMA ListPages ==
  ASSUME ListInv, Lists!GetClients \/ Lists!GetOrganizations \/ Lists!GetMembers
                  \/ Lists!GetRoles \/ Lists!GetUsers
  PROVE  ListInv'
<1>1. PICK A, pass : /\ A = All /\ A \intersect wanted \subseteq pass /\ way \in Lists!Pages
                     /\ Lists!Numbered(way, Lists!Sort(A), pass, taken)
  <2>1. ASSUME NEW w \in {"clients", "organizations", "members"},
               Lists!Numbered(w, Lists!Sort(present), wanted, taken)
        PROVE  \E A, pass : /\ A = All /\ A \intersect wanted \subseteq pass
                            /\ way \in Lists!Pages
                            /\ Lists!Numbered(way, Lists!Sort(A), pass, taken)
    <3>1. way = w
      BY <2>1 DEF Lists!Numbered
    <3>2. All = present /\ way \in Lists!Pages
      BY <3>1 DEF All, Lists!Pages
    <3> QED BY <2>1, <3>1, <3>2
  <2>2. ASSUME NEW w \in {"roles", "users"},
               Lists!Numbered(w, Lists!Sort(present \intersect wanted), Lists!Entry, taken)
        PROVE  \E A, pass : /\ A = All /\ A \intersect wanted \subseteq pass
                            /\ way \in Lists!Pages
                            /\ Lists!Numbered(way, Lists!Sort(A), pass, taken)
    <3>1. way = w
      BY <2>2 DEF Lists!Numbered
    <3>2. All = present \intersect wanted /\ way \in Lists!Pages
      BY <3>1 DEF All, Lists!Pages
    <3>3. All \intersect wanted \subseteq Lists!Entry
      BY <3>2 DEF ListInv, ListType
    <3> QED BY <2>2, <3>1, <3>2, <3>3
  <2> QED BY <2>1, <2>2 DEF Lists!GetClients, Lists!GetOrganizations, Lists!GetMembers,
             Lists!GetRoles, Lists!GetUsers
<1> DEFINE all == Lists!Sort(A)
           k == place * PageSize
<1>2. PICK page, grown :
        /\ page = Lists!First(PageSize, SubSeq(all, k + 1, Len(all)))
        /\ grown = taken \o Lists!Passing(page, pass)
        /\ taken' = Lists!First(cap, grown)
        /\ listing' = IF Len(grown) <= cap /\ k + Len(page) < Len(all) THEN "open" ELSE "done"
  BY <1>1 DEF Lists!Numbered, Lists!Goes, Lists!Counted
<1>3. /\ listing = "open" /\ place' = place + 1
      /\ UNCHANGED <<present, way, cap, wanted, groups, doomed, lastPage, always, removed, gaveUp>>
  BY <1>1 DEF Lists!Numbered
<1>4. /\ present \in SUBSET Lists!Entry /\ always \in SUBSET present /\ cap \in Nat
      /\ place \in Nat /\ taken \in Seq(Lists!Entry) /\ Len(taken) <= cap
      /\ A \in SUBSET Lists!Entry /\ always \intersect wanted \in SUBSET A
  BY <1>1 DEF ListInv, ListType, All
<1>5. k \in Nat /\ place' * PageSize = k + PageSize /\ PageSize \in Nat
  BY <1>3, <1>4, Steps, ListsAssumption
<1> HIDE DEF all, k
<1>6. /\ page \in Seq(Lists!Entry) /\ Len(page) <= PageSize
      /\ Len(page) = PageSize \/ k + Len(page) >= Len(all)
      /\ \A x \in A : k < Rank(x, A) /\ Rank(x, A) <= k + Len(page) => x \in Members(page)
  BY <1>2, <1>4, <1>5, PageOf DEF all
<1>7. PICK more : more = Lists!Passing(page, pass)
  OBVIOUS
<1>8. more \in Seq(Lists!Entry) /\ Members(more) = Members(page) \intersect pass
  BY <1>6, <1>7, PassingOf
<1>9. /\ grown \in Seq(Lists!Entry) /\ Members(grown) = Members(taken) \union Members(more)
      /\ Len(grown) \in Nat
  BY <1>2, <1>4, <1>7, <1>8, Concat
<1>10. /\ taken' \in Seq(Lists!Entry) /\ Len(taken') = IF Len(grown) > cap THEN cap ELSE Len(grown)
       /\ Len(grown) <= cap => taken' = grown
  BY <1>2, <1>4, <1>9, FirstOf
<1>11. ListType'
  BY <1>3, <1>4, <1>9, <1>10 DEF ListType
<1>12. /\ Len(all) \in Nat /\ \A x \in A : Rank(x, A) \in 1 .. Len(all)
  <2>1. Len(all) = Cardinality(A) /\ Cardinality(A) \in Nat
    BY <1>4, Sorted, FiniteEntries DEF all
  <2>2. \A x \in A : Rank(x, A) \in 1 .. Cardinality(A)
    BY <1>4, RankType
  <2> QED BY <2>1, <2>2
<1>13. ASSUME NEW x \in always \intersect wanted, ~removed, Rank(x, A) <= k + Len(page)
       PROVE  x \in Members(grown)
  <2>1. x \in A /\ x \in pass /\ Rank(x, A) \in Nat
    BY <1>1, <1>4, <1>12
  <2>2. CASE Rank(x, A) <= k
    <3>1. x \in Members(taken)
      BY <1>1, <1>3, <1>13, <2>2 DEF ListInv, PagesInv, k
    <3> QED BY <1>9, <3>1
  <2>3. CASE ~(Rank(x, A) <= k)
    <3>1. k < Rank(x, A)
      BY <1>5, <2>1, <2>3
    <3>2. x \in Members(page)
      BY <1>6, <1>13, <2>1, <3>1
    <3> QED BY <1>8, <1>9, <2>1, <3>2
  <2> QED BY <2>2, <2>3
<1>14. PagesInv'
  <2> SUFFICES ASSUME listing' = "open", ~removed, NEW x \in always \intersect wanted,
                      Rank(x, A) <= k + PageSize
               PROVE  x \in Members(taken')
    BY <1>1, <1>3, <1>5 DEF PagesInv, All
  <2>1. Len(grown) <= cap /\ k + Len(page) < Len(all)
    BY <1>2
  <2>2. Len(page) = PageSize
    BY <1>5, <1>6, <1>12, <2>1
  <2> QED BY <1>10, <1>13, <2>1, <2>2
<1>15. DoneInv'
  <2> SUFFICES ASSUME listing' = "done", ~removed, Len(taken') # cap
               PROVE  always \intersect wanted \subseteq Members(taken')
    BY <1>1, <1>3 DEF DoneInv, Lists!Pages
  <2>1. ~(Len(grown) > cap)
    BY <1>10
  <2>2. Len(grown) <= cap
    BY <1>4, <1>9, <2>1
  <2>3. k + Len(page) >= Len(all)
    BY <1>2, <1>5, <1>6, <1>12, <2>2
  <2>4. ASSUME NEW x \in always \intersect wanted PROVE Rank(x, A) <= k + Len(page)
    BY <1>4, <1>5, <1>6, <1>12, <2>3
  <2> QED BY <1>10, <1>13, <2>2, <2>4
<1> QED BY <1>1, <1>3, <1>11, <1>14, <1>15
        DEF ListInv, ClientInv, GroupsInv, ObjectsInv, PurgeInv, Lists!Pages

\* A page of getClient keeps it.
LEMMA ListClient == ASSUME ListInv, Lists!GetClient PROVE ListInv'
<1> DEFINE all == Lists!Sort(present)
           k == place * PageSize
<1>1. PICK page, more :
        /\ page = Lists!First(PageSize, SubSeq(all, k + 1, Len(all)))
        /\ more = Lists!Passing(page, wanted)
        /\ taken' = Lists!First(cap, <<>> \o more)
        /\ listing' = IF Len(<<>> \o more) <= cap /\ k + Len(page) < Len(all)
                      THEN "open" ELSE "done"
  BY DEF Lists!GetClient, Lists!Numbered, Lists!Goes, Lists!Counted
<1>2. /\ listing = "open" /\ way = "client" /\ place' = place + 1
      /\ UNCHANGED <<present, way, cap, wanted, groups, doomed, lastPage, always, removed, gaveUp>>
  BY DEF Lists!GetClient, Lists!Numbered
<1>3. /\ present \in SUBSET Lists!Entry /\ always \in SUBSET present /\ cap \in Nat \ {0}
      /\ place \in Nat
  BY <1>2 DEF ListInv, ListType, ClientInv
<1>4. k \in Nat /\ place' * PageSize = k + PageSize /\ PageSize \in Nat \ {0}
  BY <1>2, <1>3, Steps, ListsAssumption
<1>5. ~removed => k = 0 \/ k < Cardinality(present)
  BY <1>2 DEF ListInv, ClientInv
<1>6. Len(all) = Cardinality(present) /\ Cardinality(present) \in Nat
  BY <1>3, Sorted, FiniteEntries
<1> HIDE DEF all, k
<1>7. /\ page \in Seq(Lists!Entry) /\ Len(page) <= PageSize
      /\ Len(page) = PageSize \/ k + Len(page) >= Len(all)
      /\ \A x \in present : k < Rank(x, present) /\ Rank(x, present) <= k + Len(page) =>
           x \in Members(page)
  BY <1>1, <1>3, <1>4, PageOf DEF all
<1>8. more \in Seq(Lists!Entry) /\ Members(more) = Members(page) \intersect wanted
  BY <1>1, <1>7, PassingOf
<1>9. <<>> \o more = more /\ Len(more) \in Nat
  BY <1>8
<1>10. /\ taken' \in Seq(Lists!Entry) /\ Len(taken') = IF Len(more) > cap THEN cap ELSE Len(more)
       /\ Members(taken') \subseteq Members(more)
  BY <1>1, <1>3, <1>8, <1>9, FirstOf
<1>11. ListType'
  BY <1>2, <1>3, <1>9, <1>10 DEF ListType
<1>12. ClientInv'
  <2>1. listing' = "open" => place' * PageSize < Cardinality(present)
    BY <1>1, <1>4, <1>6, <1>7
  <2> QED BY <1>2, <1>3, <1>8, <1>10, <2>1 DEF ClientInv
<1>13. DoneInv'
  <2> SUFFICES ASSUME listing' = "done", taken' = <<>>, ~removed, Entries \in always \intersect wanted
               PROVE  FALSE
    BY <1>2 DEF DoneInv
  <2>1. Len(more) = 0
    BY <1>3, <1>9, <1>10
  <2>2. k + Len(page) >= Len(all)
    BY <1>1, <1>3, <1>4, <1>6, <1>7, <1>9, <2>1
  <2>3. Rank(Entries, present) = Cardinality(present)
    <3>1. \A y \in present : y <= Entries
      BY <1>3 DEF Lists!Entry
    <3>2. {y \in present : y <= Entries} = present
      BY <3>1
    <3> QED BY <3>2 DEF Rank
  <2>4. Entries \in present /\ Rank(Entries, present) \in 1 .. Cardinality(present)
    BY <1>3, RankType
  <2>5. Entries \in Members(page)
    BY <1>4, <1>5, <1>6, <1>7, <2>2, <2>3, <2>4
  <2>6. Entries \in Members(more)
    BY <1>8, <2>5
  <2> QED BY <2>1, <2>6 DEF Members
<1> QED BY <1>2, <1>11, <1>12, <1>13
        DEF ListInv, PagesInv, GroupsInv, ObjectsInv, PurgeInv, Lists!Pages

\* A page of the sessions of a client keeps it.
LEMMA ListSessions == ASSUME ListInv, Lists!Sessions PROVE ListInv'
<1>1. /\ listing = "open" /\ way = "sessions"
      /\ UNCHANGED <<present, way, cap, wanted, place, doomed, lastPage, always, removed, gaveUp>>
  BY DEF Lists!Sessions
<1>2. /\ present \in SUBSET Lists!Entry /\ always \in SUBSET present /\ cap \in Nat
      /\ taken \in Seq(Lists!Entry) /\ Len(taken) <= cap
  BY DEF ListInv, ListType
<1>3. /\ Distinct(taken) /\ \A x \in Members(taken) : Group(x) \notin groups
      /\ \/ Len(taken) = cap
         \/ \A x \in always : Group(x) \in groups \/ x \in Members(taken)
  BY <1>1 DEF ListInv, GroupsInv
<1>4. CASE groups = {}
  <2>1. taken' = taken /\ listing' = "done" /\ groups' = groups
    BY <1>4 DEF Lists!Sessions, Lists!Goes
  <2> QED BY <1>1, <1>2, <1>3, <1>4, <2>1
          DEF ListInv, ListType, PagesInv, ClientInv, GroupsInv, ObjectsInv, PurgeInv, DoneInv
<1>5. CASE groups # {}
  <2>1. PICK g, S, F, list :
          /\ g \in groups /\ S = Lists!Sort({x \in present : Group(x) = g}) /\ F = Lists!First(cap, S)
          /\ list = taken \o F /\ groups' = groups \ {g} /\ taken' = Lists!First(cap, list)
          /\ listing' = IF Len(list) <= cap THEN "open" ELSE "done"
    BY <1>5 DEF Lists!Sessions, Lists!Goes
  <2> DEFINE A == {x \in present : Group(x) = g}
  <2>2. A \in SUBSET Lists!Entry
    BY <1>2
  <2> HIDE DEF A
  <2>3. S \in Seq(Lists!Entry) /\ Members(S) = A /\ Distinct(S)
    BY <2>1, <2>2, SortedList DEF A
  <2>4. /\ F \in Seq(Lists!Entry) /\ Len(F) = IF Len(S) > cap THEN cap ELSE Len(S)
        /\ Members(F) \subseteq A /\ Distinct(F) /\ (Len(S) <= cap => F = S)
    BY <1>2, <2>1, <2>3, FirstOf
  <2>5. Members(taken) \intersect Members(F) = {}
    BY <1>3, <2>1, <2>4 DEF A
  <2>6. /\ list \in Seq(Lists!Entry) /\ Len(list) = Len(taken) + Len(F)
        /\ Members(list) = Members(taken) \union Members(F) /\ Distinct(list)
    <3>0. /\ taken \in Seq(Lists!Entry) /\ F \in Seq(Lists!Entry)
          /\ Distinct(taken) /\ Distinct(F) /\ Members(taken) \intersect Members(F) = {}
      BY <1>2, <1>3, <2>4, <2>5
    <3>1. /\ taken \o F \in Seq(Lists!Entry) /\ Len(taken \o F) = Len(taken) + Len(F)
          /\ Members(taken \o F) = Members(taken) \union Members(F)
          /\ Distinct(taken \o F)
      BY <3>0, Concat
    <3> QED BY <2>1, <3>1, Zenon
  <2>7. /\ taken' \in Seq(Lists!Entry)
        /\ Len(taken') = IF Len(list) > cap THEN cap ELSE Len(list)
        /\ Members(taken') \subseteq Members(list) /\ Distinct(taken')
        /\ Len(list) <= cap => taken' = list
    BY <1>2, <2>1, <2>6, FirstOf
  <2>8. Len(taken) \in Nat /\ Len(F) \in Nat /\ Len(S) \in Nat /\ Len(list) \in Nat
    BY <1>2, <2>3, <2>4, <2>6
  <2>9. ListType'
    BY <1>1, <1>2, <2>7, <2>8 DEF ListInv, ListType
  <2>10. ASSUME Len(taken') # cap
         PROVE  /\ listing' = "open" /\ taken' = list /\ F = S /\ Len(taken) # cap
    BY <1>2, <2>1, <2>4, <2>6, <2>7, <2>8, <2>10
  <2>11. GroupsInv'
    <3>1. \A x \in Members(taken') : Group(x) \notin groups'
      BY <1>3, <2>1, <2>4, <2>6, <2>7 DEF A
    <3>2. ASSUME Len(taken') # cap, NEW x \in always, Group(x) \notin groups'
          PROVE  x \in Members(taken')
      <4>1. CASE Group(x) = g
        <5>1. x \in A
          BY <1>2, <4>1 DEF A
        <5> QED BY <2>3, <2>6, <2>10, <3>2, <5>1
      <4>2. CASE Group(x) # g
        <5>1. Group(x) \notin groups
          BY <2>1, <3>2, <4>2
        <5>2. x \in Members(taken)
          BY <1>3, <2>10, <3>2, <5>1
        <5> QED BY <2>6, <2>10, <3>2, <5>2
      <4> QED BY <4>1, <4>2
    <3> QED BY <1>1, <2>7, <3>1, <3>2 DEF GroupsInv
  <2>12. DoneInv'
    BY <1>1, <2>10 DEF DoneInv
  <2> QED BY <1>1, <2>9, <2>11, <2>12
          DEF ListInv, PagesInv, ClientInv, ObjectsInv, PurgeInv, Lists!Pages
<1> QED BY <1>4, <1>5

\* A dump of a slab keeps it.
LEMMA ListSlabs == ASSUME ListInv, Lists!Slabs PROVE ListInv'
<1>1. /\ listing = "open" /\ way = "slabs"
      /\ UNCHANGED <<present, way, cap, wanted, place, doomed, lastPage, always, removed, gaveUp>>
  BY DEF Lists!Slabs
<1>2. /\ present \in SUBSET Lists!Entry /\ always \in SUBSET present /\ cap \in Nat
      /\ taken \in Seq(Lists!Entry) /\ Len(taken) <= cap
  BY DEF ListInv, ListType
<1>3. /\ Distinct(taken) /\ \A x \in Members(taken) : Group(x) \notin groups
      /\ \/ Len(taken) = cap \/ wanted # Lists!Entry
         \/ \A x \in always : Group(x) \in groups \/ x \in Members(taken)
  BY <1>1 DEF ListInv, GroupsInv
<1>4. CASE groups = {}
  <2>1. taken' = taken /\ listing' = "done" /\ groups' = groups
    BY <1>4 DEF Lists!Slabs, Lists!Goes
  <2> QED BY <1>1, <1>2, <1>3, <1>4, <2>1
          DEF ListInv, ListType, PagesInv, ClientInv, GroupsInv, ObjectsInv, PurgeInv, DoneInv
<1>5. CASE groups # {}
  <2>1. PICK g, S, F, P, list :
          /\ g \in groups
          /\ S = Lists!Sort({x \in present : Group(x) = g})
          /\ F = Lists!First(cap - Len(taken), S)
          /\ P = Lists!Passing(F, wanted)
          /\ list = taken \o P /\ groups' = groups \ {g} /\ taken' = list
          /\ listing' = IF Len(list) < cap THEN "open" ELSE "done"
    BY <1>5 DEF Lists!Slabs, Lists!Goes, Lists!Keep
  <2> DEFINE A == {x \in present : Group(x) = g}
  <2>2. A \in SUBSET Lists!Entry /\ cap - Len(taken) \in Nat /\ Len(taken) \in Nat
    BY <1>2
  <2> HIDE DEF A
  <2>3. S \in Seq(Lists!Entry) /\ Members(S) = A /\ Distinct(S)
    BY <2>1, <2>2, SortedList DEF A
  <2>4. /\ F \in Seq(Lists!Entry)
        /\ Len(F) = IF Len(S) > cap - Len(taken) THEN cap - Len(taken) ELSE Len(S)
        /\ Members(F) \subseteq A /\ Distinct(F) /\ (Len(S) <= cap - Len(taken) => F = S)
    BY <2>1, <2>2, <2>3, FirstOf
  <2>5. /\ P \in Seq(Lists!Entry) /\ Members(P) = Members(F) \intersect wanted /\ Distinct(P)
        /\ Len(P) <= Len(F) /\ (Members(F) \subseteq wanted => Len(P) = Len(F))
    BY <2>1, <2>4, PassingOf
  <2>6. Members(taken) \intersect Members(P) = {}
    BY <1>3, <2>1, <2>4, <2>5 DEF A
  <2>7. /\ list \in Seq(Lists!Entry) /\ Len(list) = Len(taken) + Len(P)
        /\ Members(list) = Members(taken) \union Members(P) /\ Distinct(list)
    <3>0. /\ taken \in Seq(Lists!Entry) /\ P \in Seq(Lists!Entry)
          /\ Distinct(taken) /\ Distinct(P) /\ Members(taken) \intersect Members(P) = {}
      BY <1>2, <1>3, <2>5, <2>6
    <3>1. /\ taken \o P \in Seq(Lists!Entry) /\ Len(taken \o P) = Len(taken) + Len(P)
          /\ Members(taken \o P) = Members(taken) \union Members(P)
          /\ Distinct(taken \o P)
      BY <3>0, Concat
    <3> QED BY <2>1, <3>1, Zenon
  <2>8. Len(F) \in Nat /\ Len(S) \in Nat /\ Len(P) \in Nat
    BY <2>3, <2>4, <2>5
  <2>9. Len(list) <= cap /\ Len(list) \in Nat
    BY <1>2, <2>2, <2>4, <2>5, <2>7, <2>8
  <2>10. ListType'
    BY <1>1, <1>2, <2>1, <2>7, <2>9 DEF ListInv, ListType
  <2>11. ASSUME Len(list) # cap PROVE listing' = "open"
    BY <1>2, <2>1, <2>9, <2>11
  <2>12. ASSUME Len(list) # cap, wanted = Lists!Entry
         PROVE  Members(P) = A /\ Len(taken) # cap
    <3>1. Members(F) \subseteq wanted
      BY <2>2, <2>4, <2>12
    <3>2. Len(P) = Len(F)
      BY <2>5, <3>1
    <3>3. Len(S) <= cap - Len(taken) /\ Len(taken) # cap
      BY <1>2, <2>2, <2>4, <2>7, <2>8, <2>12, <3>2
    <3> QED BY <2>3, <2>4, <2>5, <3>1, <3>3
  <2>13. GroupsInv'
    <3>1. \A x \in Members(list) : Group(x) \notin groups'
      BY <1>3, <2>1, <2>4, <2>5, <2>7 DEF A
    <3>2. ASSUME Len(list) # cap, wanted = Lists!Entry, NEW x \in always, Group(x) \notin groups'
          PROVE  x \in Members(list)
      <4>1. CASE Group(x) = g
        <5>1. x \in A
          BY <1>2, <4>1 DEF A
        <5> QED BY <2>7, <2>12, <3>2, <5>1
      <4>2. CASE Group(x) # g
        <5>1. Group(x) \notin groups
          BY <2>1, <3>2, <4>2
        <5>2. x \in Members(taken)
          BY <1>3, <2>12, <3>2, <5>1
        <5> QED BY <2>7, <5>2
      <4> QED BY <4>1, <4>2
    <3> QED BY <1>1, <2>1, <2>7, <3>1, <3>2 DEF GroupsInv
  <2>14. DoneInv'
    BY <1>1, <2>1, <2>11 DEF DoneInv
  <2> QED BY <1>1, <2>10, <2>13, <2>14
          DEF ListInv, PagesInv, ClientInv, ObjectsInv, PurgeInv, Lists!Pages
<1> QED BY <1>4, <1>5

\* The first n entries of a sorted list are those up to the last of them.
LEMMA LastOf ==
  ASSUME NEW A \in SUBSET Lists!Entry, NEW n \in Nat, NEW S, NEW page,
         S = Lists!Sort(A), page = Lists!First(n, S), page # <<>>
  PROVE  /\ page \in Seq(Lists!Entry) /\ Distinct(page) /\ page[Len(page)] \in A
         /\ Members(page) \subseteq A /\ \A x \in Members(page) : x <= page[Len(page)]
         /\ \A x \in A : x <= page[Len(page)] => x \in Members(page)
         /\ Len(page) = Len(S) => Members(page) = A
<1>1. /\ S \in Seq(Lists!Entry) /\ Members(S) = A /\ Distinct(S)
      /\ Len(S) = Cardinality(A) /\ Len(S) \in Nat
      /\ \A i \in 1 .. Len(S) : S[i] \in A /\ Rank(S[i], A) = i
      /\ \A x \in A : S[Rank(x, A)] = x
  BY SortedList, Sorted, FiniteEntries
<1>2. /\ page \in Seq(Lists!Entry) /\ Distinct(page) /\ Members(page) \subseteq A
      /\ \A i \in 1 .. Len(page) : page[i] = S[i]
      /\ Len(page) = IF Len(S) > n THEN n ELSE Len(S)
      /\ Len(S) <= n => page = S
  BY <1>1, FirstOf
<1> DEFINE m == Len(page)
<1>3. m \in 1 .. Len(S) /\ m \in Nat
  BY <1>1, <1>2
<1>4. PICK z : z = page[m]
  OBVIOUS
<1>5. z \in A /\ Rank(z, A) = m /\ A \subseteq Nat
  BY <1>1, <1>2, <1>3, <1>4, FiniteEntries
<1>6. \A x \in A : Rank(x, A) \in 1 .. Len(S)
  BY <1>1, RankType
<1> HIDE DEF m
<1>7. ASSUME NEW x \in A PROVE x \in Members(page) <=> x <= z
  <2>1. x <= z => Rank(x, A) <= m
    <3>1. x < z => Rank(x, A) < Rank(z, A)
      BY <1>5, RankLess
    <3> QED BY <1>3, <1>5, <1>6, <3>1
  <2>2. Rank(x, A) <= m => x \in Members(page)
    BY <1>1, <1>2, <1>3, <1>6 DEF Members, m
  <2>3. x \in Members(page) => ~(z < x)
    <3>1. z < x => Rank(z, A) < Rank(x, A)
      BY <1>5, RankLess
    <3>2. x \in Members(page) => Rank(x, A) <= m
      BY <1>1, <1>2, <1>3 DEF Members, m
    <3> QED BY <1>3, <1>5, <1>6, <3>1, <3>2
  <2> QED BY <1>5, <2>1, <2>2, <2>3
<1>8. Len(page) = Len(S) => Members(page) = A
  BY <1>1, <1>2
<1> QED BY <1>2, <1>4, <1>5, <1>7, <1>8 DEF m

\* The entries after a marker.
After(m) == {x \in present : x > m}

\* A page after the marker keeps it.
LEMMA ListObjects == ASSUME ListInv, Lists!Objects PROVE ListInv'
<1>1. /\ listing = "open" /\ way = "objects"
      /\ UNCHANGED <<present, way, cap, wanted, groups, doomed, lastPage, always, removed>>
  BY DEF Lists!Objects
<1>2. /\ present \in SUBSET Lists!Entry /\ always \in SUBSET present /\ cap \in Nat
      /\ taken \in Seq(Lists!Entry) /\ Len(taken) <= cap /\ place \in Nat
      /\ Len(taken) \in Nat /\ PageSize \in Nat \ {0}
  BY ListsAssumption DEF ListInv, ListType
<1>3. /\ Distinct(taken) /\ \A x \in Members(taken) : x <= place
      /\ \A x \in always \intersect wanted : x > place \/ x \in Members(taken)
  BY <1>1 DEF ListInv, ObjectsInv
<1> DEFINE n == IF cap - Len(taken) < PageSize THEN cap - Len(taken) ELSE PageSize
           S == Lists!Sort(After(place))
<1>4. PICK page :
        /\ page = Lists!First(n, S)
        /\ \/ /\ page # <<>> /\ place' = page[Len(page)]
              /\ taken' = taken \o Lists!Passing(page, wanted)
              /\ listing' = IF Len(page) < Len(S) THEN "open" ELSE "done"
              /\ UNCHANGED gaveUp
           \/ /\ page = <<>> /\ taken' = taken /\ listing' = "done" /\ UNCHANGED <<place, gaveUp>>
           \/ /\ taken' = taken /\ listing' = "done" /\ gaveUp' = TRUE /\ UNCHANGED place
  BY DEF Lists!Objects, Lists!Goes, Lists!Keep, Lists!After, After
<1>5. n \in Nat /\ n <= cap - Len(taken) /\ (n = 0 => Len(taken) = cap)
  BY <1>2
<1>6. After(place) \in SUBSET Lists!Entry
  BY <1>2 DEF After
<1>7. S \in Seq(Lists!Entry) /\ Members(S) = After(place) /\ Len(S) \in Nat
  BY <1>6, SortedList
<1> HIDE DEF n, S
<1>8. page \in Seq(Lists!Entry) /\ Len(page) = IF Len(S) > n THEN n ELSE Len(S)
  BY <1>4, <1>5, <1>7, FirstOf
<1>9. CASE /\ taken' = taken /\ listing' = "done" /\ gaveUp' = TRUE /\ UNCHANGED place
  BY <1>1, <1>2, <1>3, <1>9
     DEF ListInv, ListType, PagesInv, ClientInv, GroupsInv, ObjectsInv, PurgeInv, DoneInv
<1>10. CASE page = <<>> /\ taken' = taken /\ listing' = "done" /\ UNCHANGED <<place, gaveUp>>
  <2>1. Len(page) = 0
    BY <1>10
  <2>2. Len(taken) = cap \/ Len(S) = 0
    BY <1>5, <1>7, <1>8, <2>1
  <2>3. Len(taken) = cap \/ After(place) = {}
    BY <1>7, <2>2 DEF Members
  <2>4. Len(taken) = cap \/ always \intersect wanted \subseteq Members(taken)
    BY <1>2, <1>3, <2>3 DEF After
  <2> QED BY <1>1, <1>2, <1>3, <1>10, <2>4
          DEF ListInv, ListType, PagesInv, ClientInv, GroupsInv, ObjectsInv, PurgeInv, DoneInv
<1>11. CASE /\ page # <<>> /\ place' = page[Len(page)]
            /\ taken' = taken \o Lists!Passing(page, wanted)
            /\ listing' = IF Len(page) < Len(S) THEN "open" ELSE "done"
            /\ UNCHANGED gaveUp
  <2>1. /\ Distinct(page) /\ place' \in After(place) /\ Members(page) \subseteq After(place)
        /\ \A x \in Members(page) : x <= place'
        /\ \A x \in After(place) : x <= place' => x \in Members(page)
        /\ Len(page) = Len(S) => Members(page) = After(place)
    BY <1>4, <1>5, <1>6, <1>11, LastOf DEF S
  <2>2. place' \in Nat /\ place < place' /\ place' \in Lists!Entry
    BY <1>2, <1>6, <2>1, FiniteEntries DEF After
  <2>3. PICK more : more = Lists!Passing(page, wanted)
    OBVIOUS
  <2>4. /\ more \in Seq(Lists!Entry) /\ Members(more) = Members(page) \intersect wanted
        /\ Distinct(more) /\ Len(more) <= Len(page) /\ Len(more) \in Nat /\ Len(page) \in Nat
    BY <1>8, <2>3, PassingOf
  <2>5. Members(taken) \intersect Members(more) = {}
    <3>1. \A x \in Members(more) : x > place
      BY <2>1, <2>4 DEF After
    <3>2. Members(taken) \subseteq Nat
      BY <1>2, ListsAssumption DEF Members, Lists!Entry
    <3> QED BY <1>2, <1>3, <3>1, <3>2
  <2>6. /\ taken' \in Seq(Lists!Entry) /\ Len(taken') = Len(taken) + Len(more)
        /\ Members(taken') = Members(taken) \union Members(more) /\ Distinct(taken')
    <3>0. /\ taken \in Seq(Lists!Entry) /\ more \in Seq(Lists!Entry) /\ Distinct(taken)
      BY <1>2, <1>3, <2>4
    <3>1. /\ taken \o more \in Seq(Lists!Entry) /\ Len(taken \o more) = Len(taken) + Len(more)
          /\ Members(taken \o more) = Members(taken) \union Members(more)
          /\ Distinct(taken \o more)
      BY <3>0, <2>4, <2>5, Concat
    <3> QED BY <1>11, <2>3, <3>1, Zenon
  <2>7. ListType'
    BY <1>1, <1>2, <1>5, <1>7, <1>8, <2>2, <2>4, <2>6 DEF ListType
  <2>8. \A x \in Members(taken') : x <= place'
    <3>1. Members(taken) \subseteq Nat
      BY <1>2, ListsAssumption DEF Members, Lists!Entry
    <3>2. \A x \in Members(taken) : x <= place'
      BY <1>2, <1>3, <2>2, <3>1
    <3> QED BY <2>1, <2>4, <2>6, <3>2
  <2>9. ASSUME NEW x \in always \intersect wanted PROVE x > place' \/ x \in Members(taken')
    <3>1. x \in Nat /\ x \in present
      BY <1>2, ListsAssumption DEF Lists!Entry
    <3>2. CASE x > place
      <4>1. x <= place' => x \in Members(page)
        BY <2>1, <3>1, <3>2 DEF After
      <4> QED BY <2>2, <2>4, <2>6, <3>1, <4>1
    <3>3. CASE ~(x > place)
      BY <1>3, <2>6, <3>3
    <3> QED BY <3>2, <3>3
  <2>10. ASSUME listing' = "done" PROVE always \intersect wanted \subseteq Members(taken')
    <3>1. Members(page) = After(place)
      BY <1>7, <1>8, <1>5, <1>11, <2>1, <2>4, <2>10
    <3>2. ASSUME NEW x \in always \intersect wanted PROVE x \in Members(taken')
      <4>1. CASE x > place
        BY <1>2, <2>4, <2>6, <3>1, <4>1 DEF After
      <4>2. CASE ~(x > place)
        BY <1>3, <2>6, <4>2
      <4> QED BY <4>1, <4>2
    <3> QED BY <3>2
  <2>11. ObjectsInv' /\ DoneInv'
    BY <1>1, <2>6, <2>8, <2>9, <2>10 DEF ObjectsInv, DoneInv
  <2> QED BY <1>1, <2>7, <2>11
          DEF ListInv, PagesInv, ClientInv, GroupsInv, PurgeInv, Lists!Pages
<1> QED BY <1>4, <1>9, <1>10, <1>11

\* A page of a purge keeps it.
LEMMA ListPurgePage == ASSUME ListInv, Lists!PurgePage PROVE ListInv'
<1>1. /\ listing = "open" /\ way = "purge" /\ doomed = {}
      /\ UNCHANGED <<present, way, cap, wanted, groups, always, removed, gaveUp>>
  BY DEF Lists!PurgePage
<1>2. /\ present \in SUBSET Lists!Entry /\ always \in SUBSET present /\ cap \in Nat
      /\ taken \in Seq(Lists!Entry) /\ Len(taken) <= cap /\ place \in Nat
      /\ PageSize \in Nat /\ PageSize # 0
  BY ListsAssumption DEF ListInv, ListType
<1>3. \A x \in always : x > place /\ ~lastPage
  BY <1>1 DEF ListInv, PurgeInv
<1> DEFINE S == Lists!Sort(After(place))
<1>4. PICK page :
        /\ page = Lists!First(PageSize, S) /\ taken' = taken
        /\ \/ /\ lastPage \/ page = <<>>
              /\ listing' = "done" /\ UNCHANGED <<doomed, place, lastPage>>
           \/ /\ page # <<>> /\ doomed' = Lists!ToSet(page) /\ place' = page[Len(page)]
              /\ lastPage' = (Len(page) = Len(S)) /\ listing' = "open"
  BY DEF Lists!PurgePage, Lists!Goes, Lists!After, After
<1>5. After(place) \in SUBSET Lists!Entry
  BY <1>2 DEF After
<1>6. S \in Seq(Lists!Entry) /\ Members(S) = After(place) /\ Len(S) \in Nat
  BY <1>5, SortedList
<1> HIDE DEF S
<1>7. page \in Seq(Lists!Entry) /\ Len(page) = IF Len(S) > PageSize THEN PageSize ELSE Len(S)
  BY <1>2, <1>4, <1>6, FirstOf
<1>8. CASE /\ lastPage \/ page = <<>>
           /\ listing' = "done" /\ UNCHANGED <<doomed, place, lastPage>>
  <2>1. always = {}
    <3>1. CASE lastPage
      BY <1>3, <3>1
    <3>2. CASE page = <<>>
      <4>1. Len(S) = 0
        BY <1>2, <1>6, <1>7, <3>2
      <4>2. After(place) = {}
        BY <1>6, <4>1 DEF Members
      <4> QED BY <1>2, <1>3, <4>2 DEF After
    <3> QED BY <1>8, <3>1, <3>2
  <2> QED BY <1>1, <1>2, <1>4, <1>8, <2>1
          DEF ListInv, ListType, PagesInv, ClientInv, GroupsInv, ObjectsInv, PurgeInv, DoneInv
<1>9. CASE /\ page # <<>> /\ doomed' = Lists!ToSet(page) /\ place' = page[Len(page)]
           /\ lastPage' = (Len(page) = Len(S)) /\ listing' = "open"
  <2>1. /\ place' \in After(place)
        /\ \A x \in After(place) : x <= place' => x \in Members(page)
        /\ Len(page) = Len(S) => Members(page) = After(place)
    <3>1. /\ S = Lists!Sort(After(place)) /\ page = Lists!First(PageSize, S) /\ page # <<>>
          /\ place' = page[Len(page)]
      BY <1>4, <1>9 DEF S
    <3>2. /\ page[Len(page)] \in After(place)
          /\ \A x \in After(place) : x <= page[Len(page)] => x \in Members(page)
          /\ Len(page) = Len(S) => Members(page) = After(place)
      BY <1>2, <1>5, <3>1, LastOf
    <3> QED BY <3>1, <3>2
  <2>2. place' \in Nat
    BY <1>5, <2>1, FiniteEntries
  <2>3. doomed' = Members(page)
    BY <1>7, <1>9, ListMembers
  <2>4. ASSUME NEW x \in always PROVE x \in doomed' \/ (x > place' /\ ~lastPage')
    <3>1. x \in Nat /\ x \in After(place)
      BY <1>2, <1>3, ListsAssumption DEF Lists!Entry, After
    <3>2. lastPage' => x \in doomed'
      BY <1>9, <2>1, <2>3, <3>1
    <3>3. x <= place' => x \in doomed'
      BY <2>1, <2>3, <3>1
    <3> QED BY <2>2, <3>1, <3>2, <3>3
  <2>5. ListType'
    BY <1>1, <1>2, <1>4, <2>2 DEF ListType
  <2> QED BY <1>1, <1>9, <2>4, <2>5
          DEF ListInv, PagesInv, ClientInv, GroupsInv, ObjectsInv, PurgeInv, DoneInv, Lists!Pages
<1> QED BY <1>4, <1>8, <1>9

\* So does deleting one object of it,
LEMMA ListPurgeObject == ASSUME ListInv, Lists!PurgeObject PROVE ListInv'
<1>1. PICK x : /\ doomed' = doomed \ {x} /\ present' = present \ {x} /\ always' = always \ {x}
  BY DEF Lists!PurgeObject
<1>2. /\ listing = "open" /\ doomed # {}
      /\ UNCHANGED <<listing, way, cap, wanted, place, groups, taken, lastPage, removed, gaveUp>>
  BY DEF Lists!PurgeObject
<1>3. way = "purge" /\ \A y \in always : y \in doomed \/ (y > place /\ ~lastPage)
  BY <1>2 DEF ListInv, PurgeInv
<1>4. ListType'
  BY <1>1, <1>2 DEF ListInv, ListType
<1>5. PurgeInv'
  BY <1>1, <1>2, <1>3 DEF PurgeInv
<1> QED BY <1>2, <1>3, <1>4, <1>5
        DEF ListInv, PagesInv, ClientInv, GroupsInv, ObjectsInv, DoneInv, Lists!Pages

\* a request that fails,
LEMMA ListRejected == ASSUME ListInv, Lists!Rejected PROVE ListInv'
<1>1. /\ way # "objects" /\ listing = "open" /\ listing' = "idle"
      /\ UNCHANGED <<present, way, cap, wanted, place, groups, taken, doomed, lastPage, always,
                     removed, gaveUp>>
  BY DEF Lists!Rejected
<1> QED BY <1>1
        DEF ListInv, ListType, PagesInv, ClientInv, GroupsInv, ObjectsInv, PurgeInv, DoneInv

\* an entry that others add,
LEMMA ListAdded == ASSUME ListInv, NEW x \in Lists!Entry, Lists!Added(x) PROVE ListInv'
<1>1. /\ present' = present \union {x}
      /\ UNCHANGED <<listing, way, cap, wanted, place, groups, taken, doomed, lastPage, always,
                     removed, gaveUp>>
  BY DEF Lists!Added
<1>2. /\ present \in SUBSET Lists!Entry /\ present' \in SUBSET Lists!Entry
      /\ always \in SUBSET present /\ place \in Nat
  BY <1>1 DEF ListInv, ListType
<1>3. ListType'
  BY <1>1, <1>2 DEF ListInv, ListType
<1>4. PagesInv'
  <2> SUFFICES ASSUME listing = "open", way \in Lists!Pages, ~removed,
                      NEW y \in always \intersect wanted, Rank(y, All') <= place * PageSize
               PROVE  y \in Members(taken)
    BY <1>1 DEF PagesInv
  <2>1. /\ All \in SUBSET Lists!Entry /\ All' \in SUBSET Lists!Entry /\ All \subseteq All'
        /\ y \in All /\ y \in All'
    BY <1>1, <1>2 DEF All
  <2>2. /\ Rank(y, All) \in 1 .. Cardinality(All) /\ Cardinality(All) \in Nat
        /\ Rank(y, All') \in 1 .. Cardinality(All') /\ Cardinality(All') \in Nat
    BY <2>1, RankType, FiniteEntries
  <2>3. Rank(y, All) <= Rank(y, All')
    BY <2>1, RankGrows
  <2>4. place * PageSize \in Nat
    BY <1>2, Steps, ListsAssumption
  <2>5. Rank(y, All) <= place * PageSize
    BY <2>2, <2>3, <2>4
  <2> QED BY <2>5 DEF ListInv, PagesInv
<1>5. ClientInv'
  <2>1. /\ Cardinality(present) \in Nat /\ Cardinality(present') \in Nat
        /\ Cardinality(present) <= Cardinality(present')
    BY <1>1, <1>2, FiniteEntries, FS_Subset
  <2>2. place * PageSize \in Nat
    BY <1>2, Steps, ListsAssumption
  <2> QED BY <1>1, <2>1, <2>2 DEF ListInv, ClientInv
<1> QED BY <1>1, <1>3, <1>4, <1>5 DEF ListInv, GroupsInv, ObjectsInv, PurgeInv, DoneInv

\* and one that they remove.
LEMMA ListRemoved == ASSUME ListInv, NEW x \in Lists!Entry, Lists!Removed(x) PROVE ListInv'
<1>1. /\ present' = present \ {x} /\ always' = always \ {x} /\ removed' = TRUE
      /\ UNCHANGED <<listing, way, cap, wanted, place, groups, taken, doomed, lastPage, gaveUp>>
  BY DEF Lists!Removed
<1>2. ListType'
  BY <1>1 DEF ListInv, ListType
<1>3. PagesInv' /\ ClientInv' /\ GroupsInv' /\ ObjectsInv' /\ PurgeInv'
  BY <1>1 DEF ListInv, PagesInv, ClientInv, GroupsInv, ObjectsInv, PurgeInv
<1>4. DoneInv'
  BY <1>1 DEF ListInv, DoneInv
<1> QED BY <1>2, <1>3, <1>4 DEF ListInv

\* Every step of Listings keeps the invariant.
LEMMA ListStep == ListInv /\ [Lists!Next]_listVars => ListInv'
<1> SUFFICES ASSUME ListInv, Lists!Next \/ UNCHANGED listVars PROVE ListInv'
  OBVIOUS
<1>1. CASE UNCHANGED listVars
  <2>1. UNCHANGED <<present, listing, way, cap, wanted, place, groups, taken, doomed, lastPage,
                    always, removed, gaveUp>>
    BY <1>1 DEF listVars
  <2>2. All' = All
    BY <2>1 DEF All
  <2> QED BY <2>1, <2>2
          DEF ListInv, ListType, PagesInv, ClientInv, GroupsInv, ObjectsInv, PurgeInv, DoneInv
<1>2. CASE Lists!Next
  BY <1>2, ListStart, ListPages, ListClient, ListSessions, ListSlabs, ListObjects,
     ListPurgePage, ListPurgeObject, ListRejected, ListAdded, ListRemoved DEF Lists!Next
<1> QED BY <1>1, <1>2

-----------------------------------------------------------------------------
(*****************************************************************************)
(* The clients together                                                      *)
(*****************************************************************************)
\* The invariants of the parts, which share no variable.
ClientsInv ==
  /\ FileAimed /\ FileLoaded /\ FileCurrent
  /\ LogType /\ LogCounted /\ LogAimed
  /\ DynType /\ DynAimed /\ \A r \in Reader : DynRead(r)
  /\ MetricInv /\ RedisInv /\ ListInv

\* They hold in the initial states.
LEMMA ClientsInit == MCInit => ClientsInv
<1> SUFFICES ASSUME MCInit PROVE ClientsInv
  OBVIOUS
<1>1. FileAimed /\ FileLoaded /\ FileCurrent
  <2>1. Sqlite!Init
    BY DEF MCInit
  <2> QED BY <2>1 DEF Sqlite!Init, FileAimed, FileLoaded, FileCurrent
<1>2. LogType /\ LogCounted /\ LogAimed
  <2>1. Logs!Init
    BY DEF MCInit
  <2> QED BY <2>1, LogsAssumption DEF Logs!Init, LogType, LogCounted, LogAimed
<1>3. DynType /\ DynAimed /\ \A r \in Reader : DynRead(r)
  <2>1. Dynamo!Init
    BY DEF MCInit
  <2> QED BY <2>1 DEF Dynamo!Init, DynType, DynAimed, DynRead, Dynamo!Statements
<1>4. MetricInv
  <2>1. Metrics!Init
    BY DEF MCInit
  <2>2. MetricType
    BY <2>1 DEF Metrics!Init, MetricType
  <2>3. ASSUME NEW q \in Metrics!Query PROVE Series(q)
    BY <2>1 DEF Metrics!Init, Series, Statuses, Refused
  <2>4. Answered
    BY <2>1, MetricsAssumption DEF Metrics!Init, Answered
  <2>5. Shown
    BY <2>1 DEF Metrics!Init, Metrics!NoPanel, Shown
  <2> QED BY <2>2, <2>3, <2>4, <2>5 DEF MetricInv
<1>5. RedisInv /\ ListInv
  BY RedisInit, ListInit DEF MCInit
<1> QED BY <1>1, <1>2, <1>3, <1>4, <1>5 DEF ClientsInv

\* A step of the clients is for each part one of its own or none.
LEMMA PartsStep ==
  [MCNext]_<<on, vars, sqliteVars, redisVars, dynamoVars, logVars, listVars, metricVars>> =>
    /\ [Sqlite!Next]_sqliteVars /\ [Redis!Next]_redisVars /\ [Dynamo!Next]_dynamoVars
    /\ [Logs!Next]_logVars /\ [Lists!Next]_listVars /\ [Metrics!Next]_metricVars
BY DEF MCNext

\* Every step keeps the invariants of all parts.
LEMMA ClientsStep ==
  ClientsInv /\ [MCNext]_<<on, vars, sqliteVars, redisVars, dynamoVars, logVars, listVars,
                           metricVars>> => ClientsInv'
<1> SUFFICES ASSUME ClientsInv,
                    [Sqlite!Next]_sqliteVars, [Redis!Next]_redisVars, [Dynamo!Next]_dynamoVars,
                    [Logs!Next]_logVars, [Lists!Next]_listVars, [Metrics!Next]_metricVars
             PROVE  ClientsInv'
  BY PartsStep
<1>1. FileAimed' /\ FileLoaded' /\ FileCurrent'
  BY FileAimedStep, FileLoadedStep, FileCurrentStep DEF ClientsInv
<1>2. LogType' /\ LogCounted' /\ LogAimed'
  BY LogTypeStep, LogCountedStep, LogAimedStep DEF ClientsInv
<1>3. DynType' /\ DynAimed'
  BY DynTypeStep, DynAimedStep DEF ClientsInv
<1>4. ASSUME NEW r \in Reader PROVE DynRead(r)'
  BY DynReadStep DEF ClientsInv
<1>5. MetricInv' /\ RedisInv' /\ ListInv'
  BY MetricStep, RedisStep, ListStep DEF ClientsInv
<1> QED BY <1>1, <1>2, <1>3, <1>4, <1>5 DEF ClientsInv

\* They hold in every behaviour.
LEMMA ClientsInvariant == MCSpec => []ClientsInv
BY ClientsInit, ClientsStep, PTL DEF MCSpec

\* Whatever is queried, read and killed in whatever order: a kill() of SQLiteDriver
\* interrupts a query that ran when it came and no other, one of the DynamoDB driver
\* a read under way, and one of the CloudWatch Logs driver at most one call, whose
\* job it stops (kill, requestSqlSub, executeStatement, query).
THEOREM KillsAreAimed == MCSpec => []KillsAimed
<1>1. ClientsInv => KillsAimed
  BY DEF ClientsInv, KillsAimed, FileAimed, LogCounted, LogAimed, DynAimed,
     Sqlite!KillsWhatRuns, Dynamo!KillsReadsUnderWay, Logs!OneInterruptPerKill
<1> QED BY <1>1, ClientsInvariant, PTL

\* For every table, page size, limit and filter, and whatever others add and remove
\* meanwhile, a scan, a read and a listing return what they promise, and a SQLite
\* driver that has closed has written what it was given.
THEOREM ReadsAreWhole == MCSpec => []ReadsWhole
<1>1. ClientsInv => ReadsWhole
  <2> SUFFICES ASSUME ClientsInv PROVE ReadsWhole
    OBVIOUS
  <2>1. Dynamo!NoGapNoRepeat /\ Dynamo!ObservedWithinBounds
    BY DynCardinality
       DEF ClientsInv, DynRead, Plainly, Dynamo!NoGapNoRepeat, Dynamo!ObservedWithinBounds
  <2>2. Redis!ScanInOneDb /\ Redis!ScanWithinLimit
    BY RedisHonest DEF ClientsInv
  <2>3. /\ Lists!ListsAreWhole /\ Lists!ClientIsFound
        /\ Lists!MarkersNeverRepeat /\ Lists!PurgeIsWhole
    BY ListHonest DEF ClientsInv
  <2>4. Sqlite!ClosedIsKept
    BY DEF ClientsInv, FileCurrent, Sqlite!ClosedIsKept
  <2> QED BY <2>1, <2>2, <2>3, <2>4 DEF ReadsWhole
<1> QED BY <1>1, ClientsInvariant, PTL

\* For any batches, pages, failures and inputs, the status of a series and that of
\* the series derived of others say what their points are worth.
THEOREM SeriesHonest == MCSpec => []SeriesAreHonest
<1>1. ClientsInv => SeriesAreHonest
  BY MetricHonest DEF ClientsInv, SeriesAreHonest
<1> QED BY <1>1, ClientsInvariant, PTL
=============================================================================
