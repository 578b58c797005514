------------------------------ MODULE MC_Clients ------------------------------
(***************************************************************************)
(* The clients of other systems than SQL servers: MQTT (MqttSubscriptions, *)
(* extended), SQLite files, Redis, DynamoDB, CloudWatch Logs and metrics,  *)
(* and the listings of Auth0, Keycloak, S3 and Memcached.                  *)
(* They share no state, so a behaviour is one of one part.                 *)
(***************************************************************************)
EXTENDS MqttSubscriptions, FiniteSets

\* SQLite: the drivers of one file and the queries of them.
CONSTANTS Driver, FileQuery, On(_), ReadOnly(_)

\* Redis: scans and databases.
CONSTANTS Scanner, Db, ScanLimit, Stored(_)

\* DynamoDB: readers, items and the bounds of reads.
CONSTANTS Reader, Kinds(_), Size, Matching, ReadLimits, PageLimit, MaxPages, MaxEvaluated

\* CloudWatch Logs: calls, queries and kills.
CONSTANTS Call, Queries, MaxKills

\* Listings: entries, pages and groups.
CONSTANTS Entries, PageSize, Group(_), ListLimits

\* CloudWatch: the batches of an endpoint, the timestamps, those a query may have
\* points at, and the inputs of the derived series.
CONSTANTS Endpoint, Batches(_), Time, TimesOf(_), Inputs

VARIABLES on,
          file, memory, connected, interrupted, asleep, freed, killed, excused,
          wrong, version, loaded, kept, lost,
          selected, content, scan, dbIndex, found, typed, reply, moved, changed,
          reading, kind, limit, start, lastKey, hasMore, items, evaluated, pages,
          flag, struck, spared, misfired,
          doing, job, queryId, interrupt, kills, thrown, stray,
          present, listing, way, cap, wanted, place, groups, taken, doomed,
          lastPage, always, removed, gaveUp,
          truth, batch, points, status, errored, panel

Sqlite == INSTANCE SqliteFile WITH Query <- FileQuery
Redis == INSTANCE RedisScan WITH Limit <- ScanLimit
Dynamo == INSTANCE DynamoRead WITH Limits <- ReadLimits, last <- lastKey
Logs == INSTANCE CloudWatchLogs
Lists == INSTANCE Listings WITH Limits <- ListLimits, last <- lastPage
Metrics == INSTANCE CloudWatchMetrics

\* What the parameters may be.
ASSUME RedisAssumption ==
  ScanLimit \in Nat /\ Db # {} /\ \A d \in Db : IsFiniteSet(Stored(d))
ASSUME DynamoAssumption ==
  /\ Size \in Nat /\ ReadLimits \subseteq Nat
  /\ {PageLimit, MaxPages, MaxEvaluated} \subseteq Nat \ {0}
ASSUME LogsAssumption == Queries \subseteq Call /\ Logs!NoQuery \notin Call
ASSUME ListsAssumption ==
  Entries \in Nat /\ PageSize \in Nat \ {0} /\ ListLimits \subseteq Nat
ASSUME MetricsAssumption ==
  /\ \A e \in Endpoint : /\ Len(Batches(e)) \in Nat
                        /\ DOMAIN Batches(e) = 1 .. Len(Batches(e))
  /\ Inputs \subseteq Metrics!Query

sqliteVars == <<file, memory, connected, interrupted, asleep, freed, killed, excused,
                wrong, version, loaded, kept, lost>>
redisVars == <<selected, content, scan, dbIndex, found, typed, reply, moved, changed>>
dynamoVars == <<reading, kind, limit, start, lastKey, hasMore, items, evaluated,
                pages, flag, struck, spared, misfired>>
logVars == <<doing, job, queryId, interrupt, kills, thrown, stray>>
listVars == <<present, listing, way, cap, wanted, place, groups, taken, doomed,
              lastPage, always, removed, gaveUp>>
metricVars == <<truth, batch, points, status, errored, panel>>

MCInit ==
  /\ on \in {"mqtt", "sqlite", "redis", "dynamo", "logs", "lists", "metrics"}
  /\ Init /\ Sqlite!Init /\ Redis!Init /\ Dynamo!Init /\ Logs!Init /\ Lists!Init
  /\ Metrics!Init /\ \A q \in DOMAIN truth : truth[q] \subseteq TimesOf(q)
  /\ on = "metrics" \/ \A q \in DOMAIN truth : truth[q] = {}

MCNext ==
  \/ /\ on = "mqtt" /\ Next
     /\ UNCHANGED <<on, sqliteVars, redisVars, dynamoVars, logVars, listVars,
                  metricVars>>
  \/ /\ on = "sqlite" /\ Sqlite!Next
     /\ UNCHANGED <<on, vars, redisVars, dynamoVars, logVars, listVars, metricVars>>
  \/ /\ on = "redis" /\ Redis!Next
     /\ UNCHANGED <<on, vars, sqliteVars, dynamoVars, logVars, listVars, metricVars>>
  \/ /\ on = "dynamo" /\ Dynamo!Next
     /\ UNCHANGED <<on, vars, sqliteVars, redisVars, logVars, listVars, metricVars>>
  \/ /\ on = "logs" /\ Logs!Next
     /\ UNCHANGED <<on, vars, sqliteVars, redisVars, dynamoVars, listVars,
                  metricVars>>
  \/ /\ on = "lists" /\ Lists!Next
     /\ UNCHANGED <<on, vars, sqliteVars, redisVars, dynamoVars, logVars,
                  metricVars>>
  \/ /\ on = "metrics" /\ Metrics!Next
     /\ UNCHANGED <<on, vars, sqliteVars, redisVars, dynamoVars, logVars, listVars>>

MCSpec == MCInit /\ [][MCNext]_<<on, vars, sqliteVars, redisVars, dynamoVars, logVars,
                                listVars, metricVars>>

-----------------------------------------------------------------------------
\* A kill() stops the query it found running and none that began later, in every
\* driver that has a flag for it (SqliteFile, DynamoRead, CloudWatchLogs).
KillsAimed ==
  /\ on = "sqlite" => Sqlite!KillsWhatRuns
  /\ on = "dynamo" => Dynamo!KillsReadsUnderWay
  /\ on = "logs" => Logs!OneInterruptPerKill

\* What a paged or scanning read returns is whole and from one place, within its
\* limit, however it ends (RedisScan, DynamoRead, Listings); what a SQLite driver
\* wrote is in the file once it has closed (SqliteFile).
ReadsWhole ==
  /\ on = "redis" => Redis!ScanInOneDb /\ Redis!ScanWithinLimit
  /\ on = "dynamo" => Dynamo!NoGapNoRepeat /\ Dynamo!ObservedWithinBounds
  /\ on = "lists" => Lists!ListsAreWhole /\ Lists!ClientIsFound
                  /\ Lists!MarkersNeverRepeat /\ Lists!PurgeIsWhole
  /\ on = "sqlite" => Sqlite!ClosedIsKept

\* The status of a series says what its points are worth, and so does that of a
\* series derived of others (CloudWatchMetrics).
SeriesAreHonest ==
  on = "metrics" => Metrics!SeriesAreHonest /\ Metrics!DerivedIsHonest
-----------------------------------------------------------------------------
\* The values of the constants.
MCTopic == {<<"a">>, <<"a", "b">>}
MCFilter == {<<"a">>, <<"a", "+", "#">>}

\* SQLite: two writers and a reader of one file, two queries of one of them.
MCOn(q) == "a"
MCReadOnly(d) == d = "r"

\* Redis: two scans, limited to one key, of two databases.
MCStored(d) == IF d = 0 THEN {"k1", "k2"} ELSE {"k1"}

\* DynamoDB: two readers of four items, three of which match.
MCKinds(r) == IF r = "r1"
              THEN {"items", "table", "statement", "once", "complete", "pages"}
              ELSE {"statement"}

\* Listings: four entries in pages of two and in two groups.
MCGroup(x) == IF x = 1 THEN 1 ELSE 2

\* CloudWatch: three queries in three batches at two endpoints; the second has
\* one point at most.
MCBatches(e) == IF e = "e1" THEN <<{"q1"}, {"q2"}>> ELSE <<{"q3"}>>
MCTimesOf(q) == IF q = "q2" THEN {1} ELSE {1, 2}
=============================================================================
