--------------------------- MODULE CloudWatchLogs ---------------------------
(***************************************************************************)
(* AwsCloudwatchServiceClient: queries of CloudWatch Logs that are polled  *)
(* until they end, paged reads, and kill(), which sets one flag and stops  *)
(* the one query the client remembers.                                     *)
(***************************************************************************)
EXTENDS Naturals, FiniteSets

CONSTANTS Call, Queries, \* the calls, and those of them that call query()
          MaxKills       \* bound: calls of kill()

VARIABLES doing,       \* "idle", "starting", "polling", "paging" or how it ended
          job,         \* a call's query at the service: "none", "running", "ended"
                       \* or "cancelled"
          queryId,     \* this.queryId: the call whose query it is, or NoQuery
          interrupt,   \* this.interrupted
          kills,       \* counter
          thrown,      \* history: how many calls ended with INTERRUPT
          stray        \* history: calls that may leave their query running

kvars == <<doing, job, queryId, interrupt, kills, thrown, stray>>

NoQuery  == "no query"
UnderWay == {c \in Call : doing[c] \in {"starting", "polling", "paging"}}
Polling  == {c \in Call : doing[c] = "polling"}

Init ==
  /\ doing = [c \in Call |-> "idle"] /\ job = [c \in Call |-> "none"]
  /\ queryId = NoQuery /\ interrupt = FALSE /\ kills = 0
  /\ thrown = 0 /\ stray = {}

-----------------------------------------------------------------------------
To(c, how) == doing' = [doing EXCEPT ![c] = how]

\* Mutant: the flag stays set when it has been taken.
Interrupted_StaysSet(c) ==
  /\ interrupt /\ To(c, "interrupted")
  /\ thrown' = thrown + 1
  /\ UNCHANGED interrupt

\* The check at the head of every loop.
Interrupted(c) ==
  /\ interrupt /\ To(c, "interrupted")
  /\ interrupt' = FALSE
  /\ thrown' = thrown + 1

\* query(): StartQuery is sent ...
Query(c) ==
  /\ c \in Queries /\ c \notin UnderWay
  /\ To(c, "starting")
  /\ job' = [job EXCEPT ![c] = "none"]
  /\ stray' = stray \ {c}
  /\ UNCHANGED <<queryId, interrupt, kills, thrown>>

\* ... and when it is answered, the id is remembered, for the last query only;
\* a flag that was set meanwhile ends the call before its first poll.
Started(c) ==
  /\ doing[c] = "starting"
  /\ job' = [job EXCEPT ![c] = "running"]
  /\ queryId' = c
  /\ \/ Interrupted(c) /\ stray' = stray \union {c}
     \/ /\ ~interrupt /\ To(c, "polling")
        /\ stray' = IF Polling = {} THEN stray ELSE stray \union Polling \union {c}
        /\ UNCHANGED <<interrupt, thrown>>
  /\ UNCHANGED kills

\* GetQueryResults: an ended query is returned, whatever the flag says; and the
\* id is forgotten, whosever it is.
Poll(c) ==
  /\ doing[c] = "polling"
  /\ IF job[c] # "running"
     THEN /\ To(c, "returned") /\ queryId' = NoQuery /\ UNCHANGED <<interrupt, thrown>>
     ELSE Interrupted(c) /\ UNCHANGED queryId
  /\ UNCHANGED <<job, kills, stray>>

\* A request that fails; the query goes on and the id stays.
PollFails(c) ==
  /\ doing[c] \in {"starting", "polling", "paging"}
  /\ To(c, "failed")
  /\ stray' = IF doing[c] = "polling" THEN stray \union {c} ELSE stray
  /\ UNCHANGED <<job, queryId, interrupt, kills, thrown>>

\* getLogEvents, getLogStreams, getQueries, up to their first request ...
Read(c) ==
  /\ c \notin Queries \union UnderWay
  /\ Interrupted(c) \/ (~interrupt /\ To(c, "paging") /\ UNCHANGED <<interrupt, thrown>>)
  /\ UNCHANGED <<job, queryId, kills, stray>>

\* ... and from its answer to the next.
NextPage(c) ==
  /\ doing[c] = "paging"
  /\ Interrupted(c) \/ (To(c, "returned") /\ UNCHANGED <<interrupt, thrown>>)
  /\ UNCHANGED <<job, queryId, kills, stray>>

\* StopQuery, of a query that may have ended by itself.
StopQuery ==
  IF queryId = NoQuery \/ job[queryId] # "running" THEN UNCHANGED job
  ELSE job' = [job EXCEPT ![queryId] = "cancelled"]

Kill ==
  /\ kills < MaxKills /\ kills' = kills + 1
  /\ interrupt' = TRUE /\ queryId' = NoQuery
  /\ StopQuery
  /\ stray' = stray \union (IF Cardinality(Polling) > 1 THEN Polling ELSE {})
  /\ UNCHANGED <<doing, thrown>>

\* The service finishes a query.
Ends(c) == /\ job[c] = "running" /\ job' = [job EXCEPT ![c] = "ended"]
           /\ UNCHANGED <<doing, queryId, interrupt, kills, thrown, stray>>

Next ==
  \/ \E c \in Call : Query(c) \/ Started(c) \/ Poll(c) \/ PollFails(c) \/ Read(c)
                     \/ NextPage(c) \/ Ends(c)
  \/ Kill

-----------------------------------------------------------------------------
\* A kill() interrupts one call at most, and a query that is interrupted while
\* it is the only one does not run on at the service, unless the kill() came
\* before the answer to its StartQuery.
OneInterruptPerKill ==
  /\ thrown + (IF interrupt THEN 1 ELSE 0) <= kills
  /\ \A c \in Queries : doing[c] \in {"interrupted", "returned"} /\ c \notin stray =>
       job[c] # "running"
=============================================================================
