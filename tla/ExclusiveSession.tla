-------------------------- MODULE ExclusiveSession --------------------------
(***************************************************************************)
(* The session-state guard of RDSBaseDriver as SQLServerDriver uses it:    *)
(* operations that switch a setting of a database session on and off       *)
(* again, over a pool whose connections other callers use meanwhile.       *)
(*                                                                         *)
(*   Query     requestSqlSub                                               *)
(*   Tran      begin, statements, commit or rollback (this.tran)           *)
(*   Explain   explainSqlSub: three batches on the pool                    *)
(*   Showplan  collectPerformanceTuningShowplan: pinned by a transaction   *)
(*   Capture   collectPerformanceTuningActualPlan: pinned and exclusive    *)
(*                                                                         *)
(* A batch that is refused, or cancelled by a timeout or an abort, has no  *)
(* effect, unless LostAnswers: then it may have one.                       *)
(***************************************************************************)
EXTENDS Naturals, FiniteSets

CONSTANTS Conn,        \* the connections of the pool
          Query, Tran, Explain, Showplan, Capture,
          LostAnswers, \* may a cancelled SET ... ON have taken effect?
          Casts        \* bound: which callers take part together

Caller == Query \union Tran \union Explain \union Showplan \union Capture
NoOne  == "no one"
NoConn == "none"

\* One caller at a time has a transaction on a driver; a caller has one role.
ASSUME CallersAssumption ==
  /\ LostAnswers \in BOOLEAN
  /\ NoOne \notin Caller /\ NoConn \notin Conn
  /\ \A t, u \in Tran : t = u
  /\ Explain \intersect Showplan = {}

Label == {"absent",                                    \* not of the cast
          "idle", "waiting", "running",                \* Query
          "beginning", "inside",                       \* Tran
          "on", "plan", "off",                         \* Explain
          "pin", "pinnedOn", "pinnedPlan", "pinnedOff", "unpin",
          "start", "xmlOn", "select", "xmlOff", "rollback", "ended"}

VARIABLES exclusive,   \* exclusiveSessionStateOperation
          tran,        \* who set this.tran
          open,        \* this.con.connected
          settings,    \* the settings switched on in each session
          free,        \* connections the pool may hand out
          holds,       \* the connection a caller has checked out
          pc,
          cleanup,     \* cleanupError of a capture
          before,      \* connection the explain's previous batch ran on
          executed,    \* history: who executed a statement meant to be planned
          tainted,     \* history: a statement ran under a foreign setting
          excuse       \* history: what can leave a setting behind

vars == <<exclusive, tran, open, settings, free, holds, pc, cleanup, before,
          executed, tainted, excuse>>

TypeOK ==
  /\ exclusive \in Capture \union {NoOne}
  /\ tran \in Tran \union {NoOne}
  /\ open \in BOOLEAN
  /\ settings \in [Conn -> SUBSET {"showplan", "xml"}]
  /\ free \subseteq Conn
  /\ holds \in [Caller -> Conn \union {NoConn}]
  /\ pc \in [Caller -> Label]
  /\ cleanup \in [Caller -> BOOLEAN]
  /\ before \in [Caller -> Conn \union {NoConn}]
  /\ executed \subseteq Caller /\ tainted \in BOOLEAN
  /\ excuse \subseteq {"onLost", "offFailed", "unpinned"}

Init ==
  /\ exclusive = NoOne /\ tran = NoOne /\ open = TRUE
  /\ settings = [c \in Conn |-> {}]
  /\ free = Conn
  /\ holds = [j \in Caller |-> NoConn]
  /\ \E cast \in Casts :
       pc = [j \in Caller |-> IF j \in cast THEN "idle" ELSE "absent"]
  /\ cleanup = [j \in Caller |-> FALSE]
  /\ before = [j \in Caller |-> NoConn]
  /\ executed = {} /\ tainted = FALSE /\ excuse = {}

-----------------------------------------------------------------------------
Goto(j, l) == pc' = [pc EXCEPT ![j] = l]

\* assertSessionStateAvailable
Available == exclusive = NoOne

Acquire(j, c) == /\ open /\ c \in free
                 /\ free' = free \ {c}
                 /\ holds' = [holds EXCEPT ![j] = c]

\* What the caller holds goes back to the pool, if it ever got a connection.
Release(j) == /\ free' = free \union ({holds[j]} \ {NoConn})
              /\ holds' = [holds EXCEPT ![j] = NoConn]

Switch(c, s, on) ==
  settings' = [settings EXCEPT ![c] = IF on THEN @ \union {s} ELSE @ \ {s}]

\* A SET ... ON that is refused or cancelled.
OnFails(c, s) ==
  \/ UNCHANGED <<settings, excuse>>
  \/ LostAnswers /\ Switch(c, s, TRUE) /\ excuse' = excuse \union {"onLost"}

\* A SET ... OFF that is refused or cancelled.
OffFails == excuse' = excuse \union {"offFailed"} /\ UNCHANGED settings

-----------------------------------------------------------------------------
(***************************************************************************)
(* Statements and transactions of the user                                 *)
(***************************************************************************)
\* The guard is looked at once; then the request waits for a connection.
QueryPool(j) ==
  /\ j \in Query /\ pc[j] = "idle"
  /\ open /\ Available /\ tran = NoOne
  /\ Goto(j, "waiting")
  /\ UNCHANGED <<exclusive, tran, open, settings, free, holds, cleanup, before,
                 executed, tainted, excuse>>

QueryRun(j) ==
  /\ pc[j] = "waiting"
  /\ \E c \in Conn : /\ Acquire(j, c)
                     /\ tainted' = (tainted \/ settings[c] # {})
  /\ Goto(j, "running")
  /\ UNCHANGED <<exclusive, tran, open, settings, cleanup, before, executed, excuse>>

QueryDone(j) ==
  /\ j \in Query /\ pc[j] = "running"
  /\ Release(j)
  /\ Goto(j, "idle")
  /\ UNCHANGED <<exclusive, tran, open, settings, cleanup, before, executed,
                 tainted, excuse>>

\* Inside a transaction, a statement runs on its connection.
QueryInside(j) ==
  /\ j \in Query /\ pc[j] = "idle"
  /\ open /\ Available /\ tran # NoOne /\ holds[tran] # NoConn
  /\ tainted' = (tainted \/ settings[holds[tran]] # {})
  /\ UNCHANGED <<exclusive, tran, open, settings, free, holds, pc, cleanup,
                 before, executed, excuse>>

\* Mutant: begin() does not look at the guard.
BeginTran_Unguarded(j) ==
  /\ j \in Tran /\ pc[j] = "idle"
  /\ open
  /\ tran' = j
  /\ Goto(j, "beginning")
  /\ UNCHANGED <<exclusive, open, settings, free, holds, cleanup, before,
                 executed, tainted, excuse>>

\* begin() assigns this.tran in the step that looked at the guard.
BeginTran(j) ==
  /\ j \in Tran /\ pc[j] = "idle"
  /\ open /\ Available
  /\ tran' = j
  /\ Goto(j, "beginning")
  /\ UNCHANGED <<exclusive, open, settings, free, holds, cleanup, before,
                 executed, tainted, excuse>>

\* Transaction.begin() gets a connection, or rejects: this.tran stays set until
\* the caller's rollback.
Begun(j) ==
  /\ pc[j] = "beginning"
  /\ (\E c \in Conn : Acquire(j, c)) \/ UNCHANGED <<free, holds>>
  /\ Goto(j, "inside")
  /\ UNCHANGED <<exclusive, tran, open, settings, cleanup, before, executed,
                 tainted, excuse>>

\* commit() and rollback() clear this.tran in a finally block, but throw
\* before it when the guard is taken.
EndTran(j) ==
  /\ pc[j] = "inside"
  /\ Available
  /\ tran' = NoOne
  /\ Release(j)
  /\ Goto(j, "idle")
  /\ UNCHANGED <<exclusive, open, settings, cleanup, before, executed,
                 tainted, excuse>>

-----------------------------------------------------------------------------
(***************************************************************************)
(* explainSqlSub: each batch takes whichever connection is free.           *)
(***************************************************************************)
ExplainStart(j) ==
  /\ j \in Explain /\ pc[j] = "idle"
  /\ open /\ Available
  /\ Goto(j, "on")
  /\ UNCHANGED <<exclusive, tran, open, settings, free, holds, cleanup, before,
                 executed, tainted, excuse>>

\* When ON fails, the finally block is not entered.
ExplainOn(j) ==
  /\ pc[j] = "on"
  /\ open
  /\ \E c \in free :
       \/ /\ Switch(c, "showplan", TRUE) /\ UNCHANGED excuse
          /\ before' = [before EXCEPT ![j] = c]
          /\ Goto(j, "plan")
       \/ OnFails(c, "showplan") /\ Goto(j, "idle") /\ UNCHANGED before
  /\ UNCHANGED <<exclusive, tran, open, free, holds, cleanup, executed, tainted>>

\* The statement is planned where SHOWPLAN_ALL is on, and executed where not.
Executed(j, c) ==
  IF "showplan" \in settings[c] THEN executed ELSE executed \union {j}

ExplainPlan(j) ==
  /\ pc[j] = "plan"
  /\ open
  /\ \E c \in free :
       /\ executed' = Executed(j, c)
       /\ excuse' = IF c = before[j] THEN excuse ELSE excuse \union {"unpinned"}
  /\ Goto(j, "off")
  /\ UNCHANGED <<exclusive, tran, open, settings, free, holds, cleanup, before,
                 tainted>>

ExplainOff(j) ==
  /\ pc[j] = "off"
  /\ open
  /\ \E c \in free :
       \/ /\ Switch(c, "showplan", FALSE)
          /\ excuse' = IF c = before[j] THEN excuse ELSE excuse \union {"unpinned"}
       \/ OffFails
  /\ before' = [before EXCEPT ![j] = NoConn]
  /\ Goto(j, "idle")
  /\ UNCHANGED <<exclusive, tran, open, free, holds, cleanup, executed, tainted>>

-----------------------------------------------------------------------------
(***************************************************************************)
(* collectPerformanceTuningShowplan: one transaction pins the connection.  *)
(***************************************************************************)
ShowplanStart(j) ==
  /\ j \in Showplan /\ pc[j] = "idle"
  /\ open /\ Available
  /\ Goto(j, "pin")
  /\ UNCHANGED <<exclusive, tran, open, settings, free, holds, cleanup, before,
                 executed, tainted, excuse>>

ShowplanPin(j) ==
  /\ pc[j] = "pin"
  /\ \/ (\E c \in Conn : Acquire(j, c)) /\ Goto(j, "pinnedOn")
     \/ UNCHANGED <<free, holds>> /\ Goto(j, "idle")
  /\ UNCHANGED <<exclusive, tran, open, settings, cleanup, before, executed,
                 tainted, excuse>>

\* Mutant: ON is sent on the pool and not in the transaction.
ShowplanOn_OnPool(j) ==
  /\ pc[j] = "pinnedOn"
  /\ \E c \in free \union {holds[j]} : Switch(c, "showplan", TRUE)
  /\ Goto(j, "pinnedPlan")
  /\ UNCHANGED <<exclusive, tran, open, free, holds, cleanup, before, executed,
                 tainted, excuse>>

\* The inner finally is entered only when ON succeeded.
ShowplanOn(j) ==
  /\ pc[j] = "pinnedOn"
  /\ \/ Switch(holds[j], "showplan", TRUE) /\ Goto(j, "pinnedPlan")
        /\ UNCHANGED excuse
     \/ OnFails(holds[j], "showplan") /\ Goto(j, "unpin")
  /\ UNCHANGED <<exclusive, tran, open, free, holds, cleanup, before, executed,
                 tainted>>

\* Mutant: OFF is not in a finally block.
ShowplanPlan_NoFinally(j) ==
  /\ pc[j] = "pinnedPlan"
  /\ executed' = Executed(j, holds[j])
  /\ Goto(j, "pinnedOff") \/ Goto(j, "unpin")
  /\ UNCHANGED <<exclusive, tran, open, settings, free, holds, cleanup, before,
                 tainted, excuse>>

ShowplanPlan(j) ==
  /\ pc[j] = "pinnedPlan"
  /\ executed' = Executed(j, holds[j])
  /\ Goto(j, "pinnedOff")
  /\ UNCHANGED <<exclusive, tran, open, settings, free, holds, cleanup, before,
                 tainted, excuse>>

ShowplanOff(j) ==
  /\ pc[j] = "pinnedOff"
  /\ \/ Switch(holds[j], "showplan", FALSE) /\ UNCHANGED excuse
     \/ OffFails
  /\ Goto(j, "unpin")
  /\ UNCHANGED <<exclusive, tran, open, free, holds, cleanup, before, executed,
                 tainted>>

\* commit(), resolved or not, gives the connection back.
ShowplanUnpin(j) ==
  /\ pc[j] = "unpin"
  /\ Release(j)
  /\ Goto(j, "idle")
  /\ UNCHANGED <<exclusive, tran, open, settings, cleanup, before, executed,
                 tainted, excuse>>

-----------------------------------------------------------------------------
(***************************************************************************)
(* collectPerformanceTuningActualPlan                                      *)
(***************************************************************************)
CaptureStart(j) ==
  /\ j \in Capture /\ pc[j] = "idle"
  /\ open
  /\ tran = NoOne
  /\ Available
  /\ exclusive' = j
  /\ Goto(j, "start")
  /\ UNCHANGED <<tran, open, settings, free, holds, cleanup, before, executed,
                 tainted, excuse>>

\* Mutant: the guard is not released when tran.begin() rejects.
CaptureBegin_Held(j) ==
  /\ pc[j] = "start"
  /\ \/ /\ \E c \in Conn : Acquire(j, c)
        /\ Goto(j, "xmlOn")
     \/ Goto(j, "idle") /\ UNCHANGED <<free, holds>>
  /\ UNCHANGED <<exclusive, tran, open, settings, cleanup, before, executed,
                 tainted, excuse>>

\* tran.begin(); when it rejects the finally block only releases the guard.
CaptureBegin(j) ==
  /\ pc[j] = "start"
  /\ \/ /\ \E c \in Conn : Acquire(j, c)
        /\ Goto(j, "xmlOn")
        /\ UNCHANGED exclusive
     \/ /\ exclusive' = NoOne
        /\ Goto(j, "idle")
        /\ UNCHANGED <<free, holds>>
  /\ UNCHANGED <<tran, open, settings, cleanup, before, executed, tainted, excuse>>

\* statisticsXmlEnabled is only set once ON resolved.
CaptureOn(j) ==
  /\ pc[j] = "xmlOn"
  /\ \/ Switch(holds[j], "xml", TRUE) /\ Goto(j, "select") /\ UNCHANGED excuse
     \/ OnFails(holds[j], "xml") /\ Goto(j, "rollback")
  /\ UNCHANGED <<exclusive, tran, open, free, holds, cleanup, before, executed,
                 tainted>>

\* Mutant: OFF is skipped when the SELECT failed.
CaptureSelect_NoFinally(j) ==
  /\ pc[j] = "select"
  /\ Goto(j, "xmlOff") \/ Goto(j, "rollback")
  /\ UNCHANGED <<exclusive, tran, open, settings, free, holds, cleanup, before,
                 executed, tainted, excuse>>

\* The SELECT resolves, fails, or is cancelled by the timer or the signal.
CaptureSelect(j) ==
  /\ pc[j] = "select"
  /\ Goto(j, "xmlOff")
  /\ UNCHANGED <<exclusive, tran, open, settings, free, holds, cleanup, before,
                 executed, tainted, excuse>>

CaptureOff(j) ==
  /\ pc[j] = "xmlOff"
  /\ \/ Switch(holds[j], "xml", FALSE) /\ UNCHANGED <<cleanup, excuse>>
     \/ OffFails /\ cleanup' = [cleanup EXCEPT ![j] = TRUE]
  /\ Goto(j, "rollback")
  /\ UNCHANGED <<exclusive, tran, open, free, holds, before, executed, tainted>>

\* rollback(), resolved or not, gives the connection back: a request that has
\* been waiting may get it before the capture goes on.
CaptureRollback(j) ==
  /\ pc[j] = "rollback"
  /\ Release(j)
  /\ cleanup' \in {cleanup, [cleanup EXCEPT ![j] = TRUE]}
  /\ Goto(j, "ended")
  /\ UNCHANGED <<exclusive, tran, open, settings, before, executed, tainted,
                 excuse>>

\* Mutant: the cleanup error is thrown and the pool stays open.
CaptureEnd_StaysOpen(j) ==
  /\ pc[j] = "ended"
  /\ exclusive' = NoOne
  /\ cleanup' = [cleanup EXCEPT ![j] = FALSE]
  /\ Goto(j, "idle")
  /\ UNCHANGED <<tran, open, settings, free, holds, before, executed, tainted,
                 excuse>>

\* The guard is released; after a cleanup error disconnect() closes the pool,
\* which hands out no connection from here on.
CaptureEnd(j) ==
  /\ pc[j] = "ended"
  /\ exclusive' = NoOne
  /\ open' = (open /\ ~cleanup[j])
  /\ cleanup' = [cleanup EXCEPT ![j] = FALSE]
  /\ Goto(j, "idle")
  /\ UNCHANGED <<tran, settings, free, holds, before, executed, tainted, excuse>>

-----------------------------------------------------------------------------
\* Once the pool is closed, every await on it rejects: the finally blocks give
\* up what is held.  closeSub has cleared this.tran.
Abort(j) ==
  /\ ~open /\ pc[j] \notin {"idle", "absent"}
  /\ exclusive' = IF exclusive = j THEN NoOne ELSE exclusive
  /\ tran' = IF tran = j THEN NoOne ELSE tran
  /\ Release(j)
  /\ cleanup' = [cleanup EXCEPT ![j] = FALSE]
  /\ before' = [before EXCEPT ![j] = NoConn]
  /\ Goto(j, "idle")
  /\ UNCHANGED <<open, settings, executed, tainted, excuse>>

\* A new pool: new sessions.
Reconnect ==
  /\ ~open /\ \A j \in Caller : pc[j] \in {"idle", "absent"}
  /\ open' = TRUE
  /\ settings' = [c \in Conn |-> {}]
  /\ excuse' = {} /\ executed' = {} /\ tainted' = FALSE
  /\ UNCHANGED <<exclusive, tran, free, holds, pc, cleanup, before>>

Resume(j) ==
  \/ QueryRun(j) \/ QueryDone(j) \/ Begun(j) \/ EndTran(j)
  \/ ExplainOn(j) \/ ExplainPlan(j) \/ ExplainOff(j)
  \/ ShowplanPin(j) \/ ShowplanOn(j) \/ ShowplanPlan(j) \/ ShowplanOff(j)
  \/ ShowplanUnpin(j)
  \/ CaptureBegin(j) \/ CaptureOn(j) \/ CaptureSelect(j) \/ CaptureOff(j)
  \/ CaptureRollback(j) \/ CaptureEnd(j)
  \/ Abort(j)

Invoke(j) ==
  \/ QueryPool(j) \/ QueryInside(j) \/ BeginTran(j)
  \/ ExplainStart(j) \/ ShowplanStart(j) \/ CaptureStart(j)

Next == Reconnect \/ \E j \in Caller : Resume(j) \/ Invoke(j)

\* The server answers, and the pool serves a capture that waits for a
\* connection again and again; the others need not be served.
Fairness ==
  /\ \A j \in Capture : SF_vars(Resume(j))
  /\ \A j \in Caller \ Capture : WF_vars(Resume(j))

Spec == Init /\ [][Next]_vars
FairSpec == Spec /\ Fairness
-----------------------------------------------------------------------------
(***************************************************************************)
(* Properties                                                              *)
(***************************************************************************)

\* CaptureRestores: a connection the pool can hand out never has STATISTICS XML
\* on, whatever failed or was cancelled during a capture, but for an ON that
\* took effect and was reported as failed, and between the rollback and the
\* disconnect of a capture whose OFF failed, when the guard is still up.
CaptureRestores ==
  open => \A c \in free : "xml" \in settings[c] =>
    \/ "onLost" \in excuse
    \/ exclusive # NoOne /\ cleanup[exclusive]

\* PlanRestores: nor SHOWPLAN_ALL, but for a failed OFF (which closes nothing
\* here), an ON of the kind above, or an explain whose batches ran on different
\* connections.
PlanRestores ==
  open => \A c \in free : "showplan" \in settings[c] =>
    excuse # {} \/ \E j \in Explain : pc[j] \notin {"idle", "absent"}

\* Unmixed: where nobody uses explain, a statement of the user runs under a
\* setting somebody else switched on only after a SET ... OFF failed.
Unmixed ==
  tainted /\ (\A j \in Explain : pc[j] = "absent") => excuse # {}

\* PlannedOnly: a pinned plan retrieval never executes the statement it plans,
\* whoever else switches the setting on other connections of the pool.
PlannedOnly == executed \intersect Showplan = {}

\* NeverBlocked: a transaction in progress and a capture exclude each other, so
\* commit and rollback never meet the guard that would leave this.tran set.
NeverBlocked == exclusive # NoOne => tran = NoOne

\* GuardReleased: the guard is released however the capture ends.
GuardReleased == exclusive # NoOne ~> exclusive = NoOne

\* PlanIsNotRun: a statement given to explain is planned and not executed (the
\* comment in collectPerformanceTuningShowplan says what its batches need).
PlanIsNotRun == executed = {}
=============================================================================
