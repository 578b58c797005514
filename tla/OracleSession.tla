--------------------------- MODULE OracleSession ---------------------------
(***************************************************************************)
(* OracleDriver's one connection, the calls that share it, and the session *)
(* settings a capture of an actual plan switches:                          *)
(*                                                                         *)
(*   User     requestSqlSub                                                *)
(*   Analyze  explainAnalyzeSql: a capture, without a deadline             *)
(*   Tuning   getPerformanceTuningContext: its plan stage, the rows of     *)
(*            PLAN_TABLE and then a capture, under withDeadline            *)
(*                                                                         *)
(* The connection runs what is issued on it one by one, oldest first.  A   *)
(* statement that is cut off, by the call timeout or by break(), whoever   *)
(* called it, fails; if LostAnswers it may have taken effect.              *)
(***************************************************************************)
EXTENDS Naturals, Sequences

CONSTANTS User, Analyze, Tuning,
          LostAnswers,
          Casts        \* bound: which callers take part together

Caller  == User \union Analyze \union Tuning
NoOne   == "no one"

ASSUME CallersAssumption ==
  /\ LostAnswers \in BOOLEAN /\ NoOne \notin Caller
  /\ User \intersect (Analyze \union Tuning) = {} /\ Analyze \intersect Tuning = {}

\* The statement a caller has issued and waits for.
PlanRow == {"explain", "rows", "delete", "resolve"}
Capture == {"param", "on", "select", "cursor", "display", "restore"}
Issued  == {"query", "close"} \union PlanRow \union Capture

VARIABLES con,         \* this.con: what it is worth
          queue,       \* the callers whose statements are issued, oldest first
          level,       \* STATISTICS_LEVEL of the session
          callTimeout, \* con.callTimeout: the connection's or the capture's
          exclusive,   \* exclusiveSessionStateOperation
          pc,          \* the statement a caller waits for
          failed,      \* what the finally blocks of a caller will throw
          previous,    \* previousStatisticsLevel
          answer,      \* what getPerformanceTuningContext has said of the stage
          prev,        \* PREV_SQL_ID: whose statement ran last in the session
          shown,       \* history: a capture showed somebody else's cursor
          tainted,     \* history: a user's statement ran under a capture's level
          excuse       \* history: what can leave the level behind

vars == <<con, queue, level, callTimeout, exclusive, pc, failed, previous, answer,
          prev, shown, tainted, excuse>>

TypeOK ==
  /\ con \in {"open", "closed"}
  /\ queue \in Seq(Caller)
  /\ level \in {"TYPICAL", "ALL"} /\ callTimeout \in {"own", "capture"}
  /\ exclusive \in Caller \union {NoOne}
  /\ pc \in [Caller -> Issued \union {"absent", "idle"}]
  /\ failed \in [Caller -> BOOLEAN]
  /\ previous \in [Caller -> {"TYPICAL", "ALL"}]
  /\ answer \in [Tuning -> {"none", "awaited", "timed out", "failed", "plan"}]
  /\ prev \in Caller \union {NoOne}
  /\ shown \in BOOLEAN /\ tainted \in BOOLEAN
  /\ excuse \subseteq {"onLost", "closeFailed"}

Init ==
  /\ con = "open" /\ queue = <<>> /\ level = "TYPICAL" /\ callTimeout = "own"
  /\ exclusive = NoOne
  /\ \E cast \in Casts :
       pc = [j \in Caller |-> IF j \in cast THEN "idle" ELSE "absent"]
  /\ failed = [j \in Caller |-> FALSE]
  /\ previous = [j \in Caller |-> "TYPICAL"]
  /\ answer = [j \in Tuning |-> "none"]
  /\ prev = NoOne /\ shown = FALSE /\ tainted = FALSE /\ excuse = {}

-----------------------------------------------------------------------------
\* assertSessionStateAvailable
Available == exclusive = NoOne

\* A caller whose statement was answered issues its next one, or is done.
Then(j, s) == /\ pc' = [pc EXCEPT ![j] = s]
              /\ queue' = IF s = "idle" THEN Tail(queue) ELSE Append(Tail(queue), j)

Fresh(j, s) == /\ pc' = [pc EXCEPT ![j] = s]
               /\ queue' = Append(queue, j)

Idle(j) == con = "open" /\ pc[j] = "idle"

\* withDeadline hands over what the stage returns, unless it has settled.
Settle(j, a) ==
  answer' = IF j \in Tuning /\ answer[j] = "awaited"
            THEN [answer EXCEPT ![j] = a] ELSE answer

\* Mutant: the guard is not looked at before a query is issued.
Query_Unguarded(j) ==
  /\ j \in User /\ Idle(j)
  /\ Fresh(j, "query")
  /\ UNCHANGED <<con, level, callTimeout, exclusive, failed, previous, answer,
                 prev, shown, tainted, excuse>>

\* requestSqlSub looks at the guard and issues the statement in one step.
Query(j) ==
  /\ j \in User /\ Idle(j)
  /\ Available
  /\ Fresh(j, "query")
  /\ UNCHANGED <<con, level, callTimeout, exclusive, failed, previous, answer,
                 prev, shown, tainted, excuse>>

\* getPerformanceTuningContext gets to the EXPLAIN PLAN in one step.
Tune(j) ==
  /\ j \in Tuning /\ Idle(j)
  /\ Available
  /\ Fresh(j, "explain")
  /\ answer' = [answer EXCEPT ![j] = "awaited"]
  /\ failed' = [failed EXCEPT ![j] = FALSE]
  /\ UNCHANGED <<con, level, callTimeout, exclusive, previous, prev, shown,
                 tainted, excuse>>

\* explainAnalyzeSql, with no timeout of its own.
StartAnalyze(j) ==
  /\ j \in Analyze /\ Idle(j)
  /\ Available
  /\ exclusive' = j
  /\ Fresh(j, "param")
  /\ failed' = [failed EXCEPT ![j] = FALSE]
  /\ UNCHANGED <<con, level, callTimeout, previous, answer, prev, shown, tainted,
                 excuse>>

-----------------------------------------------------------------------------
(***************************************************************************)
(* What the oldest statement of the connection does.                       *)
(***************************************************************************)
Answered(j, s) == queue # <<>> /\ j = Head(queue) /\ pc[j] = s /\ con = "open"

\* A statement that ran: it is the previous statement of the session.
Ran(j) == prev' = j

QueryRuns(j) ==
  /\ Answered(j, "query")
  /\ tainted' = (tainted \/ (level = "ALL" /\ excuse = {}))
  /\ Ran(j) \/ UNCHANGED prev
  /\ Then(j, "idle")
  /\ UNCHANGED <<con, level, callTimeout, exclusive, failed, previous, answer,
                 shown, excuse>>

\* With the plan in PLAN_TABLE, its rows are read: requestSqlSub throws when it
\* meets the guard, and then there are only the rows to delete.
Explained(j) ==
  /\ Answered(j, "explain")
  /\ \/ /\ Ran(j)
        /\ IF Available
           THEN Then(j, "rows") /\ UNCHANGED failed
           ELSE Then(j, "delete") /\ failed' = [failed EXCEPT ![j] = TRUE]
        /\ UNCHANGED answer
     \/ Settle(j, "failed") /\ Then(j, "idle") /\ UNCHANGED <<prev, failed>>
  /\ UNCHANGED <<con, level, callTimeout, exclusive, previous, shown, tainted, excuse>>

\* The finally block deletes the rows without a look at the guard.
Rows(j) ==
  /\ Answered(j, "rows")
  /\ \/ Ran(j) /\ UNCHANGED failed
     \/ failed' = [failed EXCEPT ![j] = TRUE] /\ UNCHANGED prev
  /\ Then(j, "delete")
  /\ UNCHANGED <<con, level, callTimeout, exclusive, previous, answer, shown,
                 tainted, excuse>>

\* collectPerformanceTuningActualPlan up to its first statement; the provider
\* turns an error into a failed stage.
BeginCapture(j) ==
  \/ /\ Available
     /\ exclusive' = j /\ callTimeout' = "capture"
     /\ Then(j, "param")
     /\ UNCHANGED <<answer, failed>>
  \/ /\ Settle(j, "failed") /\ Then(j, "idle")
     /\ UNCHANGED <<exclusive, callTimeout, failed>>

EstimateOnly(j) == /\ Settle(j, "plan") /\ Then(j, "idle")
                   /\ UNCHANGED <<exclusive, callTimeout, failed>>

\* The delete is best effort.  Then index-only accesses may have to be
\* resolved, the call may ask for an estimate only, or the capture begins; it
\* is refused when it meets the guard or was aborted.
Deleted(j) ==
  /\ Answered(j, "delete")
  /\ Ran(j) \/ UNCHANGED prev
  /\ IF failed[j]
     THEN /\ Settle(j, "failed") /\ Then(j, "idle")
          /\ UNCHANGED <<exclusive, callTimeout, failed>>
     ELSE \/ Available /\ Then(j, "resolve")
             /\ UNCHANGED <<answer, exclusive, callTimeout, failed>>
          \/ BeginCapture(j)
          \/ EstimateOnly(j)
  /\ UNCHANGED <<con, level, previous, shown, tainted, excuse>>

\* resolveIndexOnlyAccessTables is best effort, too.
Resolved(j) ==
  /\ Answered(j, "resolve")
  /\ Ran(j) \/ UNCHANGED prev
  /\ BeginCapture(j) \/ EstimateOnly(j)
  /\ UNCHANGED <<con, level, previous, shown, tainted, excuse>>

-----------------------------------------------------------------------------
(***************************************************************************)
(* collectPerformanceTuningActualPlan                                      *)
(***************************************************************************)
\* The last lines of the finally block, and what the provider makes of them.
Leave(j) == /\ exclusive' = NoOne
            /\ callTimeout' = "own"
            /\ Settle(j, IF failed[j] THEN "failed" ELSE "plan")

Fail(j) == failed' = [failed EXCEPT ![j] = TRUE]

\* An error before statisticsLevelChanged: there is nothing to restore.
FailsEarly(j) ==
  /\ exclusive' = NoOne /\ callTimeout' = "own"
  /\ Settle(j, "failed")
  /\ Fail(j)
  /\ Then(j, "idle")

\* Mutant: the guard is kept when the parameter cannot be read.
Param_Held(j) ==
  /\ Answered(j, "param")
  /\ \/ /\ Ran(j)
        /\ previous' = [previous EXCEPT ![j] = level]
        /\ Then(j, "on")
        /\ UNCHANGED <<callTimeout, answer, failed>>
     \/ /\ callTimeout' = "own" /\ Settle(j, "failed") /\ Fail(j)
        /\ Then(j, "idle") /\ UNCHANGED <<previous, prev>>
  /\ UNCHANGED <<con, level, exclusive, shown, tainted, excuse>>

Param(j) ==
  /\ Answered(j, "param")
  /\ \/ /\ Ran(j)
        /\ previous' = [previous EXCEPT ![j] = level]
        /\ Then(j, "on")
        /\ UNCHANGED <<exclusive, callTimeout, answer, failed>>
     \/ FailsEarly(j) /\ UNCHANGED <<previous, prev>>
  /\ UNCHANGED <<con, level, shown, tainted, excuse>>

\* statisticsLevelChanged is only set once the ALTER SESSION resolved.
On(j) ==
  /\ Answered(j, "on")
  /\ \/ /\ Ran(j)
        /\ level' = "ALL"
        /\ Then(j, "select")
        /\ UNCHANGED <<exclusive, callTimeout, answer, failed, excuse>>
     \/ /\ FailsEarly(j) /\ UNCHANGED prev
        /\ \/ UNCHANGED <<level, excuse>>
           \/ /\ LostAnswers
              /\ level' = "ALL"
              /\ excuse' = excuse \union {"onLost"}
  /\ UNCHANGED <<con, previous, shown, tainted>>

\* Mutant: the level is restored only when the statement succeeded.
Select_NoFinally(j) ==
  /\ Answered(j, "select")
  /\ \/ Ran(j) /\ Then(j, "cursor")
        /\ UNCHANGED <<exclusive, callTimeout, answer, failed>>
     \/ FailsEarly(j) /\ UNCHANGED prev
  /\ UNCHANGED <<con, level, previous, shown, tainted, excuse>>

Select(j) ==
  /\ Answered(j, "select")
  /\ \/ Ran(j) /\ Then(j, "cursor") /\ UNCHANGED failed
     \/ Fail(j) /\ Then(j, "restore") /\ UNCHANGED prev
  /\ UNCHANGED <<con, level, callTimeout, exclusive, previous, answer, shown,
                 tainted, excuse>>

\* V$SESSION says which statement ran before.
Cursor(j) ==
  /\ Answered(j, "cursor")
  /\ \/ /\ Ran(j) /\ Then(j, "display")
        /\ shown' = (shown \/ prev # j)
        /\ UNCHANGED failed
     \/ Fail(j) /\ Then(j, "restore") /\ UNCHANGED <<prev, shown>>
  /\ UNCHANGED <<con, level, callTimeout, exclusive, previous, answer, tainted, excuse>>

Display(j) ==
  /\ Answered(j, "display")
  /\ \/ Ran(j) /\ UNCHANGED failed
     \/ Fail(j) /\ UNCHANGED prev
  /\ Then(j, "restore")
  /\ UNCHANGED <<con, level, callTimeout, exclusive, previous, answer, shown,
                 tainted, excuse>>

\* Mutant: a failed restore is only reported.
Restore_StaysOpen(j) ==
  /\ Answered(j, "restore")
  /\ \/ Ran(j) /\ level' = previous[j]
     \/ UNCHANGED <<level, prev>>
  /\ Leave(j)
  /\ Then(j, "idle")
  /\ UNCHANGED <<con, failed, previous, shown, tainted, excuse>>

\* After a failed restore disconnect() is called in the step that releases the
\* guard: nothing can be issued between them.
Restore(j) ==
  /\ Answered(j, "restore")
  /\ \/ /\ Ran(j)
        /\ level' = previous[j]
        /\ Leave(j)
        /\ Then(j, "idle")
        /\ UNCHANGED failed
     \/ /\ exclusive' = NoOne /\ callTimeout' = "own"
        /\ Then(j, "close")
        /\ Fail(j)
        /\ level' \in {level} \union (IF LostAnswers THEN {previous[j]} ELSE {})
        /\ UNCHANGED <<prev, answer>>
  /\ UNCHANGED <<con, previous, shown, tainted, excuse>>

\* con.close(), issued like a statement; whatever waits behind it is rejected.
Closed(j) ==
  /\ Answered(j, "close")
  /\ \/ con' = "closed" /\ UNCHANGED excuse
     \/ excuse' = excuse \union {"closeFailed"} /\ UNCHANGED con
  /\ Settle(j, "failed")
  /\ Then(j, "idle")
  /\ UNCHANGED <<level, callTimeout, exclusive, failed, previous, prev, shown,
                 tainted>>

\* A statement that is rejected because the connection is closed.  A finally
\* block goes on with its next statement, which is rejected as well.
Rejected(j) ==
  /\ con = "closed" /\ queue # <<>> /\ j = Head(queue)
  /\ exclusive' = IF exclusive = j THEN NoOne ELSE exclusive
  /\ callTimeout' = IF exclusive = j THEN "own" ELSE callTimeout
  /\ Settle(j, "failed")
  /\ Then(j, "idle")
  /\ UNCHANGED <<con, level, failed, previous, prev, shown, tainted, excuse>>

Connect ==
  /\ con = "closed" /\ queue = <<>>
  /\ con' = "open" /\ level' = "TYPICAL" /\ callTimeout' = "own"
  /\ prev' = NoOne
  /\ excuse' = {}
  /\ UNCHANGED <<queue, exclusive, pc, failed, previous, answer, shown, tainted>>

\* The deadline passes or the signal is raised: the call is told so, and the
\* stage goes on.
Deadline(j) ==
  /\ j \in Tuning /\ answer[j] = "awaited"
  /\ answer' = [answer EXCEPT ![j] = "timed out"]
  /\ UNCHANGED <<con, queue, level, callTimeout, exclusive, pc, failed, previous,
                 prev, shown, tainted, excuse>>

Runs(j) ==
  \/ QueryRuns(j) \/ Explained(j) \/ Rows(j) \/ Deleted(j) \/ Resolved(j)
  \/ Param(j) \/ On(j) \/ Select(j) \/ Cursor(j) \/ Display(j) \/ Restore(j)
  \/ Closed(j) \/ Rejected(j)

Next ==
  \/ \E j \in Caller :
       Query(j) \/ Tune(j) \/ StartAnalyze(j) \/ Deadline(j) \/ Runs(j)
  \/ Connect

Spec == Init /\ [][Next]_vars

\* The server or the timeout answers whatever is issued, and timers fire.
Fairness == /\ \A j \in Caller : WF_vars(Runs(j))
            /\ \A j \in Tuning : WF_vars(Deadline(j))

FairSpec == Spec /\ Fairness

-----------------------------------------------------------------------------
Closing == \E j \in Caller : pc[j] = "close"

\* When no capture is in progress, the session that callers may use has its
\* own STATISTICS_LEVEL, unless an ALTER SESSION took effect without an answer
\* or the connection of a failed restore could not be closed
\* (collectPerformanceTuningActualPlan).
LevelRestored ==
  Available /\ con = "open" /\ ~Closing /\ excuse = {} => level = "TYPICAL"

\* No statement of a user runs under the level of a capture: neither one that
\* was issued before the capture began nor one issued while a failed capture
\* closes the connection (requestSqlSub looks at the guard once).
Unmixed == ~tainted

\* The cursor a capture finds in V$SESSION is that of its own SELECT, although
\* the rows of another call's PLAN_TABLE are deleted without a look at the guard
\* (collectPerformanceTuningPlanRows).
OwnCursor == ~shown

\* However the statements of a capture fail, the guard is released: later
\* queries, commits and captures are not refused for ever.
GuardFreed == \A j \in Analyze \union Tuning : exclusive = j ~> exclusive # j
=============================================================================
