----------------------- MODULE ExclusiveSession_proofs -----------------------
(***************************************************************************)
(* Proofs about ExclusiveSession for any pool and any callers: typing, that *)
(* a capture leaves no session with STATISTICS XML on (CaptureRestores),   *)
(* that a plan retrieval leaves no session with SHOWPLAN on but for the    *)
(* failures named there (PlanRestores), that a pinned retrieval never      *)
(* executes its statement (PlannedOnly), that without explain no statement *)
(* of a user meets a session somebody else switched (Unmixed), and that    *)
(* the guard never meets a transaction (NeverBlocked).                                    *)
(***************************************************************************)
EXTENDS ExclusiveSession, TLAPS

Capturing == {"start", "xmlOn", "select", "xmlOff", "rollback", "ended"}

\* Who needs a connection has it, and it is nobody else's.
Holding ==
  /\ \A j \in Caller :
       /\ pc[j] \in {"running", "pinnedOn", "pinnedPlan", "pinnedOff", "unpin",
                     "xmlOn", "select", "xmlOff", "rollback"}
            => holds[j] # NoConn
       /\ holds[j] \notin free
  /\ \A j, k \in Caller : holds[j] = holds[k] => j = k \/ holds[j] = NoConn

\* The guard is up exactly while a capture is on its way.
Guard ==
  /\ NeverBlocked
  /\ \A j \in Caller : pc[j] \in Capturing <=> exclusive = j

\* Where STATISTICS XML is on: in the session of the capture, or in one that
\* the capture will close.
Excused(c) ==
  \/ ~open \/ "onLost" \in excuse
  \/ \E j \in Caller :
       /\ exclusive = j
       /\ \/ holds[j] = c /\ pc[j] \in {"select", "xmlOff"}
          \/ cleanup[j] /\ pc[j] \in {"rollback", "ended"}

Restoring == \A c \in Conn : "xml" \in settings[c] => Excused(c)

\* A pinned session keeps SHOWPLAN_ALL from the ON to the statement.
Planning ==
  /\ PlannedOnly
  /\ \A j \in Caller : pc[j] = "pinnedPlan" => "showplan" \in settings[holds[j]]
  /\ \A j \in Caller : pc[j] \in {"on", "plan"} => j \in Explain

\* Who switched a setting on that is on: the holder of the connection, or an
\* explain whose last batch ran there.
Switcher(c, s) == \E j \in Caller :
  \/ s = "xml" /\ holds[j] = c /\ pc[j] \in {"select", "xmlOff"}
  \/ s = "showplan" /\ holds[j] = c /\ pc[j] \in {"pinnedPlan", "pinnedOff"}
  \/ s = "showplan" /\ before[j] = c /\ pc[j] \in {"plan", "off"}

Traced ==
  /\ open /\ excuse = {} => \A c \in Conn : \A s \in settings[c] : Switcher(c, s)
  /\ \A j \in Caller : pc[j] \in {"on", "plan", "off"} => j \in Explain

\* The transaction of the driver is between its begin() and its end.
Untainted ==
  /\ Unmixed
  /\ tran # NoOne => pc[tran] \in {"beginning", "inside"}

IInv == TypeOK /\ Holding /\ Guard /\ Restoring /\ Planning /\ Traced /\ Untainted

LEMMA InitInv == Init => IInv
<1> SUFFICES ASSUME Init PROVE IInv
  OBVIOUS
<1>1. TypeOK
  BY CallersAssumption DEF Init, TypeOK, Label
<1>2. Holding
  BY CallersAssumption DEF Init, Holding
<1>3. Guard
  BY CallersAssumption DEF Init, Guard, NeverBlocked, Capturing
<1>4. Restoring
  BY DEF Init, Restoring
<1>5. Planning
  BY DEF Init, Planning, PlannedOnly
<1>6. Traced /\ Untainted
  BY DEF Init, Traced, Untainted, Unmixed
<1> QED BY <1>1, <1>2, <1>3, <1>4, <1>5, <1>6 DEF IInv

\* What switching a setting, or failing to, and running a batch leave.
LEMMA Switched ==
  ASSUME TypeOK, NEW c \in Conn, NEW s \in {"showplan", "xml"}, NEW on \in BOOLEAN,
         Switch(c, s, on)
  PROVE  /\ settings' \in [Conn -> SUBSET {"showplan", "xml"}]
         /\ settings'[c] = IF on THEN settings[c] \union {s} ELSE settings[c] \ {s}
         /\ \A d \in Conn \ {c} : settings'[d] = settings[d]
<1> DEFINE new == IF on THEN settings[c] \union {s} ELSE settings[c] \ {s}
<1>1. settings[c] \subseteq {"showplan", "xml"}
  BY DEF TypeOK
<1>2. new \in SUBSET {"showplan", "xml"}
  BY <1>1
<1>3. settings' = [settings EXCEPT ![c] = new]
  BY DEF Switch
<1> QED BY <1>2, <1>3 DEF TypeOK

LEMMA Failed ==
  ASSUME TypeOK, NEW c \in Conn, NEW s \in {"showplan", "xml"},
         OnFails(c, s) \/ OffFails
  PROVE  /\ settings' \in [Conn -> SUBSET {"showplan", "xml"}]
         /\ excuse' \subseteq {"onLost", "offFailed", "unpinned"}
         /\ settings' = settings \/ "onLost" \in excuse'
         /\ excuse \subseteq excuse'
         /\ \A d \in Conn : settings[d] \subseteq settings'[d]
         /\ \A d \in Conn \ {c} : settings'[d] = settings[d]
<1>1. CASE UNCHANGED settings /\ excuse \subseteq excuse'
         /\ excuse' \subseteq excuse \union {"offFailed"}
  BY <1>1 DEF TypeOK
<1>2. CASE Switch(c, s, TRUE) /\ excuse' = excuse \union {"onLost"}
  <2>1. /\ settings' \in [Conn -> SUBSET {"showplan", "xml"}]
        /\ settings'[c] = settings[c] \union {s}
        /\ \A d \in Conn \ {c} : settings'[d] = settings[d]
    BY <1>2, Switched
  <2> QED BY <1>2, <2>1 DEF TypeOK
<1> QED BY <1>1, <1>2 DEF OnFails, OffFails

LEMMA Batch ==
  ASSUME TypeOK, NEW j \in Caller, NEW c \in Conn
  PROVE  /\ Executed(j, c) \subseteq Caller
         /\ Executed(j, c) \subseteq executed \union {j}
         /\ "showplan" \in settings[c] => Executed(j, c) = executed
BY DEF TypeOK, Executed

LEMMA Typing == IInv /\ [Next]_vars => TypeOK'
<1> SUFFICES ASSUME IInv, [Next]_vars PROVE TypeOK'
  OBVIOUS
<1> USE CallersAssumption DEF IInv, Goto, Acquire, Release, Available,
        TypeOK, Label
<1>1. ASSUME NEW j \in Caller, Resume(j) \/ Invoke(j) PROVE TypeOK'
  <2>1. CASE QueryPool(j)
    BY <2>1 DEF QueryPool
  <2>2. CASE QueryRun(j)
    BY <2>2 DEF QueryRun
  <2>3. CASE QueryDone(j)
    BY <2>3 DEF QueryDone
  <2>4. CASE QueryInside(j)
    BY <2>4 DEF QueryInside
  <2>5. CASE BeginTran(j)
    BY <2>5 DEF BeginTran
  <2>6. CASE Begun(j)
    BY <2>6 DEF Begun
  <2>7. CASE EndTran(j)
    BY <2>7 DEF EndTran
  <2>8. CASE ExplainStart(j)
    BY <2>8 DEF ExplainStart
  <2>9. CASE ExplainOn(j)
    <3>1. PICK c \in free :
            \/ /\ Switch(c, "showplan", TRUE) /\ UNCHANGED excuse
               /\ before' = [before EXCEPT ![j] = c]
               /\ pc' = [pc EXCEPT ![j] = "plan"]
            \/ /\ OnFails(c, "showplan") /\ UNCHANGED before
               /\ pc' = [pc EXCEPT ![j] = "idle"]
      BY <2>9 DEF ExplainOn
    <3>2. c \in Conn
      OBVIOUS
    <3>3. /\ settings' \in [Conn -> SUBSET {"showplan", "xml"}]
          /\ excuse' \subseteq {"onLost", "offFailed", "unpinned"}
      BY <3>1, <3>2, Switched, Failed
    <3>4. /\ before' \in [Caller -> Conn \union {NoConn}]
          /\ pc' \in [Caller -> Label]
      <4>1. /\ before' \in {before, [before EXCEPT ![j] = c]}
            /\ pc' \in {[pc EXCEPT ![j] = "plan"], [pc EXCEPT ![j] = "idle"]}
        BY <3>1
      <4>2. [before EXCEPT ![j] = c] \in [Caller -> Conn \union {NoConn}]
        BY <3>2
      <4> QED BY <4>1, <4>2
    <3> QED BY <2>9, <3>3, <3>4 DEF ExplainOn
  <2>10. CASE ExplainPlan(j)
    <3>1. executed' \subseteq Caller
      BY <2>10, Batch DEF ExplainPlan
    <3> QED BY <2>10, <3>1 DEF ExplainPlan
  <2>11. CASE ExplainOff(j)
    <3>1. PICK c \in free : Switch(c, "showplan", FALSE) \/ OffFails
      BY <2>11 DEF ExplainOff
    <3>2. c \in Conn
      OBVIOUS
    <3>3. settings' \in [Conn -> SUBSET {"showplan", "xml"}]
      BY <3>1, <3>2, Switched, Failed
    <3>4. excuse' \subseteq {"onLost", "offFailed", "unpinned"}
      BY <2>11 DEF ExplainOff, OffFails
    <3> QED BY <2>11, <3>3, <3>4 DEF ExplainOff
  <2>12. CASE ShowplanStart(j)
    BY <2>12 DEF ShowplanStart
  <2>13. CASE ShowplanPin(j)
    BY <2>13 DEF ShowplanPin
  <2>14. CASE ShowplanOn(j)
    <3>1. holds[j] \in Conn
      BY <2>14 DEF ShowplanOn, Holding
    <3>2. /\ settings' \in [Conn -> SUBSET {"showplan", "xml"}]
          /\ excuse' \subseteq {"onLost", "offFailed", "unpinned"}
      BY <2>14, <3>1, Switched, Failed DEF ShowplanOn
    <3> QED BY <2>14, <3>1, <3>2 DEF ShowplanOn
  <2>15. CASE ShowplanPlan(j)
    <3>1. holds[j] \in Conn
      BY <2>15 DEF ShowplanPlan, Holding
    <3>2. executed' \subseteq Caller
      BY <2>15, <3>1, Batch DEF ShowplanPlan
    <3> QED BY <2>15, <3>2 DEF ShowplanPlan
  <2>16. CASE ShowplanOff(j)
    <3>1. holds[j] \in Conn
      BY <2>16 DEF ShowplanOff, Holding
    <3>2. /\ settings' \in [Conn -> SUBSET {"showplan", "xml"}]
          /\ excuse' \subseteq {"onLost", "offFailed", "unpinned"}
      BY <2>16, <3>1, Switched, Failed DEF ShowplanOff
    <3> QED BY <2>16, <3>1, <3>2 DEF ShowplanOff
  <2>17. CASE ShowplanUnpin(j)
    BY <2>17 DEF ShowplanUnpin
  <2>18. CASE CaptureStart(j)
    BY <2>18 DEF CaptureStart
  <2>19. CASE CaptureBegin(j)
    BY <2>19 DEF CaptureBegin
  <2>20. CASE CaptureOn(j)
    <3>1. holds[j] \in Conn
      BY <2>20 DEF CaptureOn, Holding
    <3>2. /\ settings' \in [Conn -> SUBSET {"showplan", "xml"}]
          /\ excuse' \subseteq {"onLost", "offFailed", "unpinned"}
      BY <2>20, <3>1, Switched, Failed DEF CaptureOn
    <3> QED BY <2>20, <3>1, <3>2 DEF CaptureOn
  <2>21. CASE CaptureSelect(j)
    BY <2>21 DEF CaptureSelect
  <2>22. CASE CaptureOff(j)
    <3>1. holds[j] \in Conn
      BY <2>22 DEF CaptureOff, Holding
    <3>2. /\ settings' \in [Conn -> SUBSET {"showplan", "xml"}]
          /\ excuse' \subseteq {"onLost", "offFailed", "unpinned"}
      BY <2>22, <3>1, Switched, Failed DEF CaptureOff
    <3> QED BY <2>22, <3>1, <3>2 DEF CaptureOff
  <2>23. CASE CaptureRollback(j)
    BY <2>23, ZenonT(60) DEF CaptureRollback
  <2>24. CASE CaptureEnd(j)
    BY <2>24 DEF CaptureEnd
  <2>25. CASE Abort(j)
    BY <2>25 DEF Abort
  <2> QED BY <1>1, <2>1, <2>2, <2>3, <2>4, <2>5, <2>6, <2>7, <2>8, <2>9, <2>10, <2>11, <2>12, <2>13, <2>14, <2>15, <2>16, <2>17, <2>18, <2>19, <2>20, <2>21, <2>22, <2>23, <2>24, <2>25 DEF Resume, Invoke
<1>2. CASE Reconnect
  BY <1>2 DEF Reconnect
<1>3. CASE UNCHANGED vars
  BY <1>3 DEF vars
<1> QED BY <1>1, <1>2, <1>3 DEF Next

LEMMA HoldingStep == IInv /\ [Next]_vars => Holding'
<1> SUFFICES ASSUME IInv, [Next]_vars PROVE Holding'
  OBVIOUS
<1> USE CallersAssumption DEF IInv, Goto, Acquire, Release, Switch, OnFails, OffFails, Available,
        TypeOK, Holding
<1>1. ASSUME NEW j \in Caller, Resume(j) \/ Invoke(j) PROVE Holding'
  <2>1. CASE QueryPool(j)
    BY <2>1 DEF QueryPool
  <2>2. CASE QueryRun(j)
    BY <2>2 DEF QueryRun
  <2>3. CASE QueryDone(j)
    BY <2>3 DEF QueryDone
  <2>4. CASE QueryInside(j)
    BY <2>4 DEF QueryInside
  <2>5. CASE BeginTran(j)
    BY <2>5 DEF BeginTran
  <2>6. CASE Begun(j)
    BY <2>6 DEF Begun
  <2>7. CASE EndTran(j)
    BY <2>7 DEF EndTran
  <2>8. CASE ExplainStart(j)
    BY <2>8 DEF ExplainStart
  <2>9. CASE ExplainOn(j)
    BY <2>9 DEF ExplainOn
  <2>10. CASE ExplainPlan(j)
    BY <2>10 DEF ExplainPlan
  <2>11. CASE ExplainOff(j)
    BY <2>11 DEF ExplainOff
  <2>12. CASE ShowplanStart(j)
    BY <2>12 DEF ShowplanStart
  <2>13. CASE ShowplanPin(j)
    BY <2>13 DEF ShowplanPin
  <2>14. CASE ShowplanOn(j)
    BY <2>14 DEF ShowplanOn
  <2>15. CASE ShowplanPlan(j)
    BY <2>15, SMTT(30) DEF ShowplanPlan
  <2>16. CASE ShowplanOff(j)
    BY <2>16 DEF ShowplanOff
  <2>17. CASE ShowplanUnpin(j)
    BY <2>17 DEF ShowplanUnpin
  <2>18. CASE CaptureStart(j)
    BY <2>18 DEF CaptureStart
  <2>19. CASE CaptureBegin(j)
    BY <2>19 DEF CaptureBegin
  <2>20. CASE CaptureOn(j)
    BY <2>20 DEF CaptureOn
  <2>21. CASE CaptureSelect(j)
    BY <2>21 DEF CaptureSelect
  <2>22. CASE CaptureOff(j)
    BY <2>22 DEF CaptureOff
  <2>23. CASE CaptureRollback(j)
    BY <2>23 DEF CaptureRollback
  <2>24. CASE CaptureEnd(j)
    BY <2>24 DEF CaptureEnd
  <2>25. CASE Abort(j)
    BY <2>25 DEF Abort
  <2> QED BY <1>1, <2>1, <2>2, <2>3, <2>4, <2>5, <2>6, <2>7, <2>8, <2>9, <2>10, <2>11, <2>12, <2>13, <2>14, <2>15, <2>16, <2>17, <2>18, <2>19, <2>20, <2>21, <2>22, <2>23, <2>24, <2>25 DEF Resume, Invoke
<1>2. CASE Reconnect
  BY <1>2 DEF Reconnect
<1>3. CASE UNCHANGED vars
  BY <1>3 DEF vars
<1> QED BY <1>1, <1>2, <1>3 DEF Next

LEMMA GuardStep == IInv /\ [Next]_vars => Guard'
<1> SUFFICES ASSUME IInv, [Next]_vars PROVE Guard'
  OBVIOUS
<1> USE CallersAssumption DEF IInv, Goto, Acquire, Release, Switch, OnFails, OffFails, Available,
        TypeOK, Guard, NeverBlocked, Capturing
<1>1. ASSUME NEW j \in Caller, Resume(j) \/ Invoke(j) PROVE Guard'
  <2>1. CASE QueryPool(j)
    BY <2>1 DEF QueryPool
  <2>2. CASE QueryRun(j)
    BY <2>2 DEF QueryRun
  <2>3. CASE QueryDone(j)
    BY <2>3 DEF QueryDone
  <2>4. CASE QueryInside(j)
    BY <2>4 DEF QueryInside
  <2>5. CASE BeginTran(j)
    BY <2>5 DEF BeginTran
  <2>6. CASE Begun(j)
    BY <2>6 DEF Begun
  <2>7. CASE EndTran(j)
    BY <2>7 DEF EndTran
  <2>8. CASE ExplainStart(j)
    BY <2>8 DEF ExplainStart
  <2>9. CASE ExplainOn(j)
    BY <2>9 DEF ExplainOn
  <2>10. CASE ExplainPlan(j)
    BY <2>10 DEF ExplainPlan
  <2>11. CASE ExplainOff(j)
    BY <2>11 DEF ExplainOff
  <2>12. CASE ShowplanStart(j)
    BY <2>12 DEF ShowplanStart
  <2>13. CASE ShowplanPin(j)
    BY <2>13 DEF ShowplanPin
  <2>14. CASE ShowplanOn(j)
    BY <2>14 DEF ShowplanOn
  <2>15. CASE ShowplanPlan(j)
    BY <2>15, SMTT(30) DEF ShowplanPlan
  <2>16. CASE ShowplanOff(j)
    BY <2>16 DEF ShowplanOff
  <2>17. CASE ShowplanUnpin(j)
    BY <2>17 DEF ShowplanUnpin
  <2>18. CASE CaptureStart(j)
    BY <2>18 DEF CaptureStart
  <2>19. CASE CaptureBegin(j)
    BY <2>19 DEF CaptureBegin
  <2>20. CASE CaptureOn(j)
    BY <2>20 DEF CaptureOn
  <2>21. CASE CaptureSelect(j)
    BY <2>21 DEF CaptureSelect
  <2>22. CASE CaptureOff(j)
    BY <2>22 DEF CaptureOff
  <2>23. CASE CaptureRollback(j)
    BY <2>23 DEF CaptureRollback
  <2>24. CASE CaptureEnd(j)
    BY <2>24 DEF CaptureEnd
  <2>25. CASE Abort(j)
    BY <2>25 DEF Abort
  <2> QED BY <1>1, <2>1, <2>2, <2>3, <2>4, <2>5, <2>6, <2>7, <2>8, <2>9, <2>10, <2>11, <2>12, <2>13, <2>14, <2>15, <2>16, <2>17, <2>18, <2>19, <2>20, <2>21, <2>22, <2>23, <2>24, <2>25 DEF Resume, Invoke
<1>2. CASE Reconnect
  BY <1>2 DEF Reconnect
<1>3. CASE UNCHANGED vars
  BY <1>3 DEF vars
<1> QED BY <1>1, <1>2, <1>3 DEF Next

LEMMA RestoringStep == IInv /\ [Next]_vars => Restoring'
<1> SUFFICES ASSUME IInv, [Next]_vars PROVE Restoring'
  OBVIOUS
<1> USE CallersAssumption DEF IInv, Goto, Acquire, Release, Switch, OnFails, OffFails, Available,
        TypeOK, Restoring, Excused, Guard, Capturing, Holding
<1>1. ASSUME NEW j \in Caller, Resume(j) \/ Invoke(j) PROVE Restoring'
  <2>1. CASE QueryPool(j)
    BY <2>1 DEF QueryPool
  <2>2. CASE QueryRun(j)
    BY <2>2 DEF QueryRun
  <2>3. CASE QueryDone(j)
    BY <2>3 DEF QueryDone
  <2>4. CASE QueryInside(j)
    BY <2>4 DEF QueryInside
  <2>5. CASE BeginTran(j)
    BY <2>5 DEF BeginTran
  <2>6. CASE Begun(j)
    BY <2>6 DEF Begun
  <2>7. CASE EndTran(j)
    BY <2>7 DEF EndTran
  <2>8. CASE ExplainStart(j)
    BY <2>8 DEF ExplainStart
  <2>9. CASE ExplainOn(j)
    BY <2>9 DEF ExplainOn
  <2>10. CASE ExplainPlan(j)
    BY <2>10 DEF ExplainPlan
  <2>11. CASE ExplainOff(j)
    BY <2>11 DEF ExplainOff
  <2>12. CASE ShowplanStart(j)
    BY <2>12 DEF ShowplanStart
  <2>13. CASE ShowplanPin(j)
    BY <2>13 DEF ShowplanPin
  <2>14. CASE ShowplanOn(j)
    BY <2>14 DEF ShowplanOn
  <2>15. CASE ShowplanPlan(j)
    BY <2>15, SMTT(30) DEF ShowplanPlan
  <2>16. CASE ShowplanOff(j)
    BY <2>16 DEF ShowplanOff
  <2>17. CASE ShowplanUnpin(j)
    BY <2>17 DEF ShowplanUnpin
  <2>18. CASE CaptureStart(j)
    BY <2>18 DEF CaptureStart
  <2>19. CASE CaptureBegin(j)
    BY <2>19 DEF CaptureBegin
  <2>20. CASE CaptureOn(j)
    BY <2>20 DEF CaptureOn
  <2>21. CASE CaptureSelect(j)
    BY <2>21 DEF CaptureSelect
  <2>22. CASE CaptureOff(j)
    BY <2>22 DEF CaptureOff
  <2>23. CASE CaptureRollback(j)
    BY <2>23 DEF CaptureRollback
  <2>24. CASE CaptureEnd(j)
    <3>1. exclusive = j
      BY <2>24 DEF CaptureEnd
    <3>2. CASE cleanup[j]
      BY <2>24, <3>2 DEF CaptureEnd
    <3>3. CASE ~cleanup[j]
      <4>1. \A c \in Conn : "xml" \in settings[c] => ~open \/ "onLost" \in excuse
        BY <2>24, <3>1, <3>3 DEF CaptureEnd
      <4> QED BY <2>24, <4>1 DEF CaptureEnd
    <3> QED BY <3>2, <3>3
  <2>25. CASE Abort(j)
    BY <2>25 DEF Abort
  <2> QED BY <1>1, <2>1, <2>2, <2>3, <2>4, <2>5, <2>6, <2>7, <2>8, <2>9, <2>10, <2>11, <2>12, <2>13, <2>14, <2>15, <2>16, <2>17, <2>18, <2>19, <2>20, <2>21, <2>22, <2>23, <2>24, <2>25 DEF Resume, Invoke
<1>2. CASE Reconnect
  BY <1>2 DEF Reconnect
<1>3. CASE UNCHANGED vars
  BY <1>3 DEF vars
<1> QED BY <1>1, <1>2, <1>3 DEF Next

LEMMA PlanningStep == IInv /\ [Next]_vars => Planning'
<1> SUFFICES ASSUME IInv, [Next]_vars PROVE Planning'
  OBVIOUS
<1> USE CallersAssumption DEF IInv, Goto, Acquire, Release, Switch, OnFails, OffFails, Available,
        TypeOK, Planning, PlannedOnly, Holding, Executed
<1>1. ASSUME NEW j \in Caller, Resume(j) \/ Invoke(j) PROVE Planning'
  <2>1. CASE QueryPool(j)
    BY <2>1 DEF QueryPool
  <2>2. CASE QueryRun(j)
    BY <2>2 DEF QueryRun
  <2>3. CASE QueryDone(j)
    BY <2>3 DEF QueryDone
  <2>4. CASE QueryInside(j)
    BY <2>4 DEF QueryInside
  <2>5. CASE BeginTran(j)
    BY <2>5 DEF BeginTran
  <2>6. CASE Begun(j)
    BY <2>6 DEF Begun
  <2>7. CASE EndTran(j)
    BY <2>7 DEF EndTran
  <2>8. CASE ExplainStart(j)
    BY <2>8 DEF ExplainStart
  <2>9. CASE ExplainOn(j)
    <3>1. PICK c \in free : Switch(c, "showplan", TRUE) \/ OnFails(c, "showplan")
      BY <2>9 DEF ExplainOn
    <3>2. \A d \in Conn : settings[d] \subseteq settings'[d]
      <4>1. c \in Conn
        OBVIOUS
      <4> QED BY <3>1, <4>1, Switched, Failed
    <3>3. \A k \in Caller : pc'[k] = "pinnedPlan" =>
            pc[k] = "pinnedPlan" /\ holds'[k] = holds[k] /\ holds[k] \in Conn
      <4>1. /\ pc' = [pc EXCEPT ![j] = "plan"] \/ pc' = [pc EXCEPT ![j] = "idle"]
            /\ holds' = holds
        BY <2>9 DEF ExplainOn
      <4> QED BY <4>1
    <3>4. \A k \in Caller : pc'[k] = "pinnedPlan" => "showplan" \in settings'[holds'[k]]
      BY <3>2, <3>3
    <3>5. \A k \in Caller : pc'[k] \in {"on", "plan"} => k \in Explain
      BY <2>9 DEF ExplainOn
    <3> QED BY <2>9, <3>4, <3>5 DEF ExplainOn
  <2>10. CASE ExplainPlan(j)
    BY <2>10 DEF ExplainPlan
  <2>11. CASE ExplainOff(j)
    BY <2>11 DEF ExplainOff
  <2>12. CASE ShowplanStart(j)
    BY <2>12 DEF ShowplanStart
  <2>13. CASE ShowplanPin(j)
    BY <2>13 DEF ShowplanPin
  <2>14. CASE ShowplanOn(j)
    BY <2>14 DEF ShowplanOn
  <2>15. CASE ShowplanPlan(j)
    BY <2>15, SMTT(30) DEF ShowplanPlan
  <2>16. CASE ShowplanOff(j)
    BY <2>16 DEF ShowplanOff
  <2>17. CASE ShowplanUnpin(j)
    BY <2>17 DEF ShowplanUnpin
  <2>18. CASE CaptureStart(j)
    BY <2>18 DEF CaptureStart
  <2>19. CASE CaptureBegin(j)
    BY <2>19 DEF CaptureBegin
  <2>20. CASE CaptureOn(j)
    BY <2>20 DEF CaptureOn
  <2>21. CASE CaptureSelect(j)
    BY <2>21 DEF CaptureSelect
  <2>22. CASE CaptureOff(j)
    BY <2>22 DEF CaptureOff
  <2>23. CASE CaptureRollback(j)
    BY <2>23 DEF CaptureRollback
  <2>24. CASE CaptureEnd(j)
    BY <2>24 DEF CaptureEnd
  <2>25. CASE Abort(j)
    BY <2>25 DEF Abort
  <2> QED BY <1>1, <2>1, <2>2, <2>3, <2>4, <2>5, <2>6, <2>7, <2>8, <2>9, <2>10, <2>11, <2>12, <2>13, <2>14, <2>15, <2>16, <2>17, <2>18, <2>19, <2>20, <2>21, <2>22, <2>23, <2>24, <2>25 DEF Resume, Invoke
<1>2. CASE Reconnect
  BY <1>2 DEF Reconnect
<1>3. CASE UNCHANGED vars
  BY <1>3 DEF vars
<1> QED BY <1>1, <1>2, <1>3 DEF Next

LEMMA TracedStep == IInv /\ [Next]_vars => Traced'
<1> SUFFICES ASSUME IInv, [Next]_vars PROVE Traced'
  OBVIOUS
<1> USE CallersAssumption DEF IInv, Goto, Acquire, Release, Switch, OnFails, OffFails, Available,
        TypeOK, Traced, Switcher
<1>1. ASSUME NEW j \in Caller, Resume(j) \/ Invoke(j) PROVE Traced'
  <2>1. CASE QueryPool(j)
    BY <2>1 DEF QueryPool
  <2>2. CASE QueryRun(j)
    BY <2>2 DEF QueryRun
  <2>3. CASE QueryDone(j)
    BY <2>3 DEF QueryDone
  <2>4. CASE QueryInside(j)
    BY <2>4 DEF QueryInside
  <2>5. CASE BeginTran(j)
    BY <2>5 DEF BeginTran
  <2>6. CASE Begun(j)
    BY <2>6 DEF Begun
  <2>7. CASE EndTran(j)
    BY <2>7 DEF EndTran
  <2>8. CASE ExplainStart(j)
    BY <2>8 DEF ExplainStart
  <2>9. CASE ExplainOn(j)
    BY <2>9, SMTT(30) DEF ExplainOn
  <2>10. CASE ExplainPlan(j)
    BY <2>10 DEF ExplainPlan
  <2>11. CASE ExplainOff(j)
    BY <2>11 DEF ExplainOff
  <2>12. CASE ShowplanStart(j)
    BY <2>12 DEF ShowplanStart
  <2>13. CASE ShowplanPin(j)
    BY <2>13 DEF ShowplanPin
  <2>14. CASE ShowplanOn(j)
    BY <2>14, SMTT(30) DEF ShowplanOn
  <2>15. CASE ShowplanPlan(j)
    BY <2>15, SMTT(30) DEF ShowplanPlan
  <2>16. CASE ShowplanOff(j)
    BY <2>16, SMTT(30) DEF ShowplanOff
  <2>17. CASE ShowplanUnpin(j)
    BY <2>17 DEF ShowplanUnpin
  <2>18. CASE CaptureStart(j)
    BY <2>18 DEF CaptureStart
  <2>19. CASE CaptureBegin(j)
    BY <2>19 DEF CaptureBegin
  <2>20. CASE CaptureOn(j)
    BY <2>20 DEF CaptureOn
  <2>21. CASE CaptureSelect(j)
    BY <2>21 DEF CaptureSelect
  <2>22. CASE CaptureOff(j)
    <3>1. CASE OffFails
      BY <2>22, <3>1 DEF CaptureOff
    <3>2. CASE Switch(holds[j], "xml", FALSE) /\ UNCHANGED <<cleanup, excuse>>
      <4>1. \A c \in Conn : settings'[c] \subseteq settings[c] /\ "xml" \notin settings'[holds[j]]
        <5>1. holds[j] \in Conn /\ Switch(holds[j], "xml", FALSE)
          BY <2>22, <3>2 DEF CaptureOff, Holding
        <5> QED BY <5>1, Switched
      <4>2. SUFFICES ASSUME open', excuse' = {}, NEW c \in Conn, NEW s \in settings'[c]
                     PROVE  Switcher(c, s)'
        BY <2>22 DEF CaptureOff
      <4>3. open /\ excuse = {} /\ s \in settings[c]
        BY <2>22, <3>2, <4>1, <4>2 DEF CaptureOff
      <4>4. PICK i \in Caller :
              \/ s = "xml" /\ holds[i] = c /\ pc[i] \in {"select", "xmlOff"}
              \/ s = "showplan" /\ holds[i] = c /\ pc[i] \in {"pinnedPlan", "pinnedOff"}
              \/ s = "showplan" /\ before[i] = c /\ pc[i] \in {"plan", "off"}
        BY <4>3
      <4>5. i # j
        BY <2>22, <4>1, <4>2, <4>4 DEF CaptureOff
      <4>6. UNCHANGED <<holds, before>> /\ pc'[i] = pc[i]
        BY <2>22, <4>5 DEF CaptureOff
      <4> QED BY <4>4, <4>6
    <3> QED BY <2>22, <3>1, <3>2 DEF CaptureOff
  <2>23. CASE CaptureRollback(j)
    BY <2>23 DEF CaptureRollback
  <2>24. CASE CaptureEnd(j)
    BY <2>24 DEF CaptureEnd
  <2>25. CASE Abort(j)
    BY <2>25 DEF Abort
  <2> QED BY <1>1, <2>1, <2>2, <2>3, <2>4, <2>5, <2>6, <2>7, <2>8, <2>9, <2>10, <2>11, <2>12, <2>13, <2>14, <2>15, <2>16, <2>17, <2>18, <2>19, <2>20, <2>21, <2>22, <2>23, <2>24, <2>25 DEF Resume, Invoke
<1>2. CASE Reconnect
  BY <1>2 DEF Reconnect
<1>3. CASE UNCHANGED vars
  BY <1>3 DEF vars
<1> QED BY <1>1, <1>2, <1>3 DEF Next

\* As long as there is no excuse and nobody explains, a connection that is free
\* or the transaction's has no setting on.
LEMMA Clean ==
  ASSUME IInv, open, excuse = {}, \A j \in Explain : pc[j] = "absent",
         NEW c \in Conn, c \in free \/ (tran # NoOne /\ c = holds[tran])
  PROVE  settings[c] = {}
<1> SUFFICES ASSUME NEW s \in settings[c] PROVE FALSE
  OBVIOUS
<1>1. PICK j \in Caller :
        \/ holds[j] = c /\ pc[j] \in {"select", "xmlOff", "pinnedPlan", "pinnedOff"}
        \/ pc[j] \in {"plan", "off"}
  BY DEF IInv, Traced, Switcher
<1>2. holds[j] = c /\ pc[j] \in {"select", "xmlOff", "pinnedPlan", "pinnedOff"}
  BY <1>1 DEF IInv, Traced
<1>3. c \notin free
  BY <1>2 DEF IInv, Holding
<1>4. tran \in Caller /\ holds[j] = holds[tran] /\ holds[j] # NoConn
  BY <1>2, <1>3, CallersAssumption DEF IInv, TypeOK, Caller
<1>5. j = tran
  BY <1>4 DEF IInv, Holding
<1>6. tran # NoOne
  BY <1>2, <1>3
<1> QED BY <1>2, <1>5, <1>6 DEF IInv, Untainted

LEMMA UntaintedStep == IInv /\ [Next]_vars => Untainted'
<1> SUFFICES ASSUME IInv, [Next]_vars PROVE Untainted'
  OBVIOUS
<1> USE CallersAssumption DEF IInv, Goto, Acquire, Release, Switch, OnFails, OffFails, Available,
        TypeOK, Untainted, Unmixed
<1>0. Explain \subseteq Caller /\ Tran \subseteq Caller
  BY DEF Caller
<1>1. ASSUME NEW j \in Caller, Resume(j) \/ Invoke(j) PROVE Untainted'
  <2>1. CASE QueryPool(j)
    BY <2>1 DEF QueryPool
  <2>2. CASE QueryRun(j)
    <3>1. PICK c \in free : tainted' = (tainted \/ settings[c] # {})
      BY <2>2 DEF QueryRun
    <3>2. open /\ c \in Conn /\ excuse' = excuse /\ tran' = tran
      BY <2>2, <3>1 DEF QueryRun
    <3>3. \A k \in Caller : pc'[k] = pc[k] \/ (k = j /\ pc[k] = "waiting" /\ pc'[k] = "running")
      BY <2>2 DEF QueryRun
    <3>4. Unmixed'
      <4> SUFFICES ASSUME tainted', \A k \in Explain : pc'[k] = "absent", excuse = {} PROVE FALSE
        BY <3>2 DEF Unmixed
      <4>1. \A k \in Explain : pc[k] = "absent"
        BY <1>0, <3>3
      <4>2. settings[c] = {}
        BY <3>2, <4>1, Clean DEF IInv
      <4>3. ~tainted
        BY <4>1 DEF Unmixed
      <4> QED BY <3>1, <4>2, <4>3
    <3> QED BY <1>0, <2>2, <3>2, <3>3, <3>4
  <2>3. CASE QueryDone(j)
    BY <2>3 DEF QueryDone
  <2>4. CASE QueryInside(j)
    <3>1. /\ tainted' = (tainted \/ settings[holds[tran]] # {})
          /\ open /\ tran # NoOne /\ holds[tran] \in Conn
          /\ UNCHANGED <<tran, pc, excuse>>
      BY <2>4 DEF QueryInside, Caller
    <3>2. Unmixed'
      <4> SUFFICES ASSUME tainted', \A k \in Explain : pc[k] = "absent", excuse = {} PROVE FALSE
        BY <3>1 DEF Unmixed
      <4>1. settings[holds[tran]] = {}
        BY <3>1, Clean DEF IInv
      <4>2. ~tainted
        BY DEF Unmixed
      <4> QED BY <3>1, <4>1, <4>2
    <3> QED BY <3>1, <3>2
  <2>5. CASE BeginTran(j)
    BY <2>5 DEF BeginTran
  <2>6. CASE Begun(j)
    BY <2>6 DEF Begun
  <2>7. CASE EndTran(j)
    BY <2>7 DEF EndTran
  <2>8. CASE ExplainStart(j)
    BY <2>8 DEF ExplainStart
  <2>9. CASE ExplainOn(j)
    <3>1. /\ UNCHANGED <<tran, tainted>> /\ excuse \subseteq excuse'
          /\ \A k \in Caller : k # j => pc'[k] = pc[k]
      BY <2>9 DEF ExplainOn
    <3>2. pc[j] \notin {"absent", "beginning", "inside"} /\ pc'[j] # "absent"
      BY <2>9 DEF ExplainOn
    <3> QED BY <1>0, <3>1, <3>2
  <2>10. CASE ExplainPlan(j)
    BY <2>10 DEF ExplainPlan
  <2>11. CASE ExplainOff(j)
    BY <2>11 DEF ExplainOff
  <2>12. CASE ShowplanStart(j)
    BY <2>12 DEF ShowplanStart
  <2>13. CASE ShowplanPin(j)
    <3>1. /\ UNCHANGED <<tran, tainted>> /\ excuse \subseteq excuse'
          /\ \A k \in Caller : k # j => pc'[k] = pc[k]
      BY <2>13 DEF ShowplanPin
    <3>2. pc[j] \notin {"absent", "beginning", "inside"} /\ pc'[j] # "absent"
      BY <2>13 DEF ShowplanPin
    <3> QED BY <1>0, <3>1, <3>2
  <2>14. CASE ShowplanOn(j)
    <3>1. /\ UNCHANGED <<tran, tainted>> /\ excuse \subseteq excuse'
          /\ \A k \in Caller : k # j => pc'[k] = pc[k]
      BY <2>14 DEF ShowplanOn
    <3>2. pc[j] \notin {"absent", "beginning", "inside"} /\ pc'[j] # "absent"
      BY <2>14 DEF ShowplanOn
    <3> QED BY <1>0, <3>1, <3>2
  <2>15. CASE ShowplanPlan(j)
    BY <2>15, SMTT(30) DEF ShowplanPlan
  <2>16. CASE ShowplanOff(j)
    BY <2>16 DEF ShowplanOff
  <2>17. CASE ShowplanUnpin(j)
    BY <2>17 DEF ShowplanUnpin
  <2>18. CASE CaptureStart(j)
    BY <2>18 DEF CaptureStart
  <2>19. CASE CaptureBegin(j)
    <3>1. /\ UNCHANGED <<tran, tainted>> /\ excuse \subseteq excuse'
          /\ \A k \in Caller : k # j => pc'[k] = pc[k]
      BY <2>19 DEF CaptureBegin
    <3>2. pc[j] \notin {"absent", "beginning", "inside"} /\ pc'[j] # "absent"
      BY <2>19 DEF CaptureBegin
    <3> QED BY <1>0, <3>1, <3>2
  <2>20. CASE CaptureOn(j)
    <3>1. /\ UNCHANGED <<tran, tainted>> /\ excuse \subseteq excuse'
          /\ \A k \in Caller : k # j => pc'[k] = pc[k]
      BY <2>20 DEF CaptureOn
    <3>2. pc[j] \notin {"absent", "beginning", "inside"} /\ pc'[j] # "absent"
      BY <2>20 DEF CaptureOn
    <3> QED BY <1>0, <3>1, <3>2
  <2>21. CASE CaptureSelect(j)
    BY <2>21 DEF CaptureSelect
  <2>22. CASE CaptureOff(j)
    BY <2>22 DEF CaptureOff
  <2>23. CASE CaptureRollback(j)
    BY <2>23 DEF CaptureRollback
  <2>24. CASE CaptureEnd(j)
    BY <2>24 DEF CaptureEnd
  <2>25. CASE Abort(j)
    BY <2>25 DEF Abort
  <2> QED BY <1>1, <2>1, <2>2, <2>3, <2>4, <2>5, <2>6, <2>7, <2>8, <2>9, <2>10, <2>11, <2>12, <2>13, <2>14, <2>15, <2>16, <2>17, <2>18, <2>19, <2>20, <2>21, <2>22, <2>23, <2>24, <2>25 DEF Resume, Invoke
<1>2. CASE Reconnect
  BY <1>2 DEF Reconnect
<1>3. CASE UNCHANGED vars
  BY <1>3 DEF vars
<1> QED BY <1>1, <1>2, <1>3 DEF Next

THEOREM Invariance == Spec => []IInv
<1>1. IInv /\ [Next]_vars => IInv'
  BY Typing, HoldingStep, GuardStep, RestoringStep, PlanningStep, TracedStep, UntaintedStep DEF IInv
<1> QED BY <1>1, InitInv, PTL DEF Spec

\* Typing of the pool, the callers and the histories.
THEOREM TypeCorrect == Spec => []TypeOK
<1>1. IInv => TypeOK
  BY DEF IInv
<1> QED BY <1>1, Invariance, PTL

\* Whatever fails during a capture and whoever else uses the pool, no session
\* that can be handed out has STATISTICS XML on, but for a lost ON and until
\* the capture with the failed OFF has closed the pool.
THEOREM SessionsRestored == Spec => []CaptureRestores
<1>1. ASSUME IInv PROVE CaptureRestores
  <2> SUFFICES ASSUME open, NEW c \in free, "xml" \in settings[c], "onLost" \notin excuse
               PROVE  exclusive # NoOne /\ cleanup[exclusive]
    BY DEF CaptureRestores
  <2>1. c \in Conn
    BY <1>1 DEF IInv, TypeOK
  <2>2. PICK j \in Caller :
          /\ exclusive = j
          /\ \/ holds[j] = c /\ pc[j] \in {"select", "xmlOff"}
             \/ cleanup[j] /\ pc[j] \in {"rollback", "ended"}
    BY <1>1, <2>1 DEF IInv, Restoring, Excused
  <2>3. holds[j] # c
    BY <1>1 DEF IInv, Holding
  <2> QED BY <2>2, <2>3, CallersAssumption
<1> QED BY <1>1, Invariance, PTL

\* A plan retrieval pinned by its transaction never executes its statement.
THEOREM PinnedPlansOnly == Spec => []PlannedOnly
<1>1. IInv => PlannedOnly
  BY DEF IInv, Planning
<1> QED BY <1>1, Invariance, PTL

\* A capture and a transaction exclude each other.
THEOREM Exclusion == Spec => []NeverBlocked
<1>1. IInv => NeverBlocked
  BY DEF IInv, Guard
<1> QED BY <1>1, Invariance, PTL

\* Nor has one SHOWPLAN_ALL on, but for a failed OFF, a lost ON or an explain
\* whose batches ran on different connections (explainSqlSub).
THEOREM PlansRestored == Spec => []PlanRestores
<1>1. ASSUME IInv PROVE PlanRestores
  <2> SUFFICES ASSUME open, NEW c \in free, "showplan" \in settings[c], excuse = {}
               PROVE  \E j \in Explain : pc[j] \notin {"idle", "absent"}
    BY DEF PlanRestores
  <2>1. c \in Conn
    BY <1>1 DEF IInv, TypeOK
  <2>2. Switcher(c, "showplan")
    BY <1>1, <2>1 DEF IInv, Traced
  <2>3. PICK j \in Caller :
          \/ holds[j] = c
          \/ before[j] = c /\ pc[j] \in {"plan", "off"}
    BY <2>2 DEF Switcher
  <2>4. holds[j] # c
    BY <1>1 DEF IInv, Holding
  <2> QED BY <1>1, <2>3, <2>4 DEF IInv, Traced
<1> QED BY <1>1, Invariance, PTL

\* Where nobody uses explain, a statement of the user runs under a foreign
\* setting only after an OFF failed or an ON was lost (requestSqlSub).
THEOREM NeverMixed == Spec => []Unmixed
<1>1. IInv => Unmixed
  BY DEF IInv, Untainted
<1> QED BY <1>1, Invariance, PTL
=============================================================================
