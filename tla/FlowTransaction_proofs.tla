----------------------- MODULE FlowTransaction_proofs -----------------------
(***************************************************************************)
(* Proofs about FlowTransaction for any number of writes, any set of       *)
(* dialects and any set of callers of kill(): typing, atomicity and        *)
(* rollback on error of a transaction nobody killed, that the reply tells  *)
(* what became of it (Reported), that what a kill rolled back stays lost   *)
(* (KilledIsLost), and that every step is one of TransactionOutcome.       *)
(***************************************************************************)
EXTENDS FlowTransaction, TLAPS

\* Where the call is, and what the callback did by then.
Progress ==
  /\ pc \in {"connect", "begin", "body"} => ended = "no" /\ reply = "none"
  /\ pc \in {"connect", "begin"} => wrote = 0 /\ tx = "none"
  /\ pc = "control" => ended = "returned"
  /\ pc = "catch" => outcome = "error"
  /\ pc \in {"disconnect", "settle"} /\ outcome = "ok" => ended = "returned"
  /\ ended = "no" /\ pc # "body" => wrote = 0
  /\ pc # "done" => reply = "none"
  /\ pc \notin {"settle", "done"} => file = 0

\* What is stored or staged was written, killed or not.
Counted ==
  /\ staged + stored <= wrote
  /\ dialect # "SQLServer" => ~Killed
  /\ file \in {0, stored}

\* Unless it was killed, an open transaction holds every write of the
\* callback; otherwise none is held, and what is stored was allowed to be.
Transaction ==
  Killed \/
    /\ pc \in {"connect", "begin", "body"} => stored = 0
    /\ dialect = "SQLServer" /\ pc = "body" => tran
    /\ tx = "open" => staged = wrote /\ stored = 0
    /\ tx = "none" => staged = 0
    /\ tx # "none" => stored = 0
    /\ stored \in {0, wrote}
    /\ stored # 0 => \/ control = "alwaysCommit" /\ ended # "no"
                     \/ control = "rollbackOnError" /\ ended = "returned"

\* A call that has begun and not ended its transaction.
Running == pc \in {"body", "control"} \/ (pc = "catch" /\ ended = "threw")

\* The promise will say, or says, that it committed.
WillSay == \/ outcome = "ok" /\ control # "alwaysRollback"
           \/ outcome = "error" /\ control = "alwaysCommit" /\ ended = "threw"

\* What commit() finds, and what a call that reports a commit has left.
Committing ==
  /\ Running /\ ~Killed => (link => tx # "none") /\ (dialect = "SQLServer" => tran)
  /\ tx = "aborted" => dialect = "Postgres" /\ "swallowed" \in excuse
  /\ pc \in {"disconnect", "settle", "done"} /\ WillSay =>
       stored = wrote \/ Killed \/ (dialect = "Postgres" /\ "swallowed" \in excuse)
  /\ pc \in {"settle", "done"} /\ dialect = "SQLite" =>
       file = stored \/ "notWritten" \in excuse
  /\ pc = "done" => reply = outcome

Base == TypeOK /\ Progress /\ Counted /\ Transaction
IInv == Base /\ Committing

LEMMA InitBase == Init => Base
<1> SUFFICES ASSUME Init PROVE Base
  OBVIOUS
<1>1. TypeOK
  <2>1. 0 \in 0..MaxWrites
    BY DialectsAssumption
  <2>2. dialect \in Dialects /\ control \in ControlType /\ pc \in Label
    BY DEF Init, Label
  <2>3. /\ tran \in BOOLEAN /\ link \in BOOLEAN /\ tx \in {"none", "open", "aborted"}
        /\ excuse \subseteq {"swallowed", "notWritten", "killed"}
    BY DEF Init
  <2> QED BY <2>1, <2>2, <2>3 DEF Init, TypeOK
<1>2. Progress
  BY DEF Init, Progress
<1>3. Transaction
  BY DEF Init, Transaction
<1>4. Counted
  BY DEF Init, Counted, Killed
<1> QED BY <1>1, <1>2, <1>3, <1>4 DEF Base

\* commit() and rollback(): whether they resolve or not, the transaction is as
\* it was or has ended; who was not killed has then stored all or nothing.
LEMMA CommitStep ==
  ASSUME Base, NEW r \in BOOLEAN, Commit(r)
  PROVE  /\ tran' = FALSE /\ link' \in BOOLEAN /\ tx' \in {"none", "open", "aborted"}
         /\ staged' \in 0..MaxWrites /\ stored' \in 0..MaxWrites
         /\ staged' + stored' <= wrote
         /\ \/ UNCHANGED <<tx, staged, stored>>
            \/ /\ tx' = "none" /\ staged' = 0 /\ tx # "none"
               /\ Killed \/ stored' \in {0, wrote}
<1> USE DEF Base, TypeOK, Counted, Transaction
<1>1. tran' = FALSE
  BY DEF Commit
<1>2. CASE NoTran(r) \/ NothingToEnd(r) \/ LinkIsDown(r) \/ Refused(r)
  BY <1>1, <1>2, DialectsAssumption DEF NoTran, NothingToEnd, LinkIsDown, Refused
<1>3. CASE Committed(r)
  <2>1. /\ tx' = "none" /\ staged' = 0 /\ tx # "none" /\ link' = r
        /\ stored' = stored + staged \/ stored' = stored
    BY <1>3 DEF Committed
  <2>2. stored' \in 0..MaxWrites /\ staged' + stored' <= wrote
    BY <2>1, DialectsAssumption
  <2>3. Killed \/ stored' \in {0, wrote}
    BY <1>3 DEF Committed
  <2>4. staged' \in 0..MaxWrites
    BY <2>1, DialectsAssumption
  <2>5. link' \in BOOLEAN /\ tx' \in {"none", "open", "aborted"}
    BY <2>1
  <2> HIDE DEF Base, TypeOK, Counted, Transaction
  <2> QED BY <1>1, <2>1, <2>2, <2>3, <2>4, <2>5
<1> QED BY <1>2, <1>3 DEF Commit

LEMMA RollbackStep ==
  ASSUME Base, NEW r \in BOOLEAN, Rollback(r)
  PROVE  /\ tran' = FALSE /\ link' \in BOOLEAN /\ tx' \in {"none", "open", "aborted"}
         /\ staged' \in 0..MaxWrites /\ stored' \in 0..MaxWrites
         /\ staged' + stored' <= wrote
         /\ \/ UNCHANGED <<tx, staged, stored>>
            \/ /\ tx' = "none" /\ staged' = 0 /\ tx # "none"
               /\ Killed \/ stored' = 0
<1> USE DEF Base, TypeOK, Counted, Transaction
<1>1. tran' = FALSE
  BY DEF Rollback
<1>2. CASE NoTran(r) \/ NothingToEnd(r) \/ LinkIsDown(r) \/ Refused(r)
  BY <1>1, <1>2, DialectsAssumption DEF NoTran, NothingToEnd, LinkIsDown, Refused
<1>3. CASE RolledBack(r)
  BY <1>1, <1>3, DialectsAssumption DEF RolledBack
<1> QED BY <1>2, <1>3 DEF Rollback

\* Dropping what is staged keeps the count.
LEMMA Dropped ==
  ASSUME Base, staged' \in {0, staged}, UNCHANGED <<stored, wrote>>
  PROVE  staged' + stored' <= wrote'
<1>1. staged \in Nat /\ stored \in Nat /\ wrote \in Nat /\ staged + stored <= wrote
  BY DialectsAssumption DEF Base, TypeOK, Counted
<1>2. stored' = stored /\ wrote' = wrote
  OBVIOUS
<1>3. CASE staged' = 0
  BY <1>1, <1>2, <1>3
<1>4. CASE staged' = staged
  BY <1>1, <1>2, <1>4
<1> QED BY <1>3, <1>4

LEMMA StepBase ==
  ASSUME Base, [Next]_vars
  PROVE  Base'
<1> USE DEF Base, TypeOK, Label, ControlType, Progress, Counted, Transaction, Killed
<1>1. CASE Connect
  BY <1>1 DEF Connect
<1>2. CASE Begin
  <2>1. tran' \in BOOLEAN /\ (dialect = "SQLServer" => tran')
    BY <1>2, Zenon DEF Begin
  <2>2. TypeOK'
    BY <1>2, <2>1 DEF Begin
  <2>3. Progress'
    BY <1>2, <2>1 DEF Begin
  <2>4. Counted' /\ Transaction'
    BY <1>2, <2>1 DEF Begin
  <2> QED BY <2>2, <2>3, <2>4
<1>3. CASE BeginFails
  <2>1. tran' \in BOOLEAN
    BY <1>3, Zenon DEF BeginFails
  <2>2. TypeOK'
    BY <1>3, <2>1 DEF BeginFails
  <2>3. Progress'
    BY <1>3 DEF BeginFails
  <2>4. Counted' /\ Transaction'
    BY <1>3 DEF BeginFails
  <2> QED BY <2>2, <2>3, <2>4
<1>4. CASE WriteInside
  BY <1>4, DialectsAssumption DEF WriteInside
<1>5. CASE WriteOutside
  BY <1>5, DialectsAssumption DEF WriteOutside
<1>6. CASE StatementFails
  BY <1>6 DEF StatementFails
<1>7. CASE BodyReturns
  BY <1>7 DEF BodyReturns
<1>8. CASE BodyThrows
  BY <1>8 DEF BodyThrows
<1>9. CASE Control
  <2>1. PICK r \in BOOLEAN : /\ AfterBody(r)
                             /\ pc' = IF r THEN "disconnect" ELSE "catch"
                             /\ outcome' = IF r THEN outcome ELSE "error"
    BY <1>9 DEF Control
  <2>2. CASE control = "alwaysRollback"
    BY <1>9, <2>1, <2>2, RollbackStep DEF Control, AfterBody
  <2>3. CASE control # "alwaysRollback"
    BY <1>9, <2>1, <2>3, CommitStep DEF Control, AfterBody
  <2> QED BY <2>2, <2>3
<1>10. CASE Catch
  <2>1. PICK r \in BOOLEAN : /\ InCatch(r)
                             /\ outcome' = IF r THEN outcome ELSE "rejected"
    BY <1>10 DEF Catch
  <2>2. CASE control = "alwaysCommit"
    BY <1>10, <2>1, <2>2, CommitStep DEF Catch, InCatch
  <2>3. CASE control # "alwaysCommit"
    BY <1>10, <2>1, <2>3, RollbackStep DEF Catch, InCatch
  <2> QED BY <2>2, <2>3
<1>11. CASE Disconnect
  <2>1. TypeOK'
    BY <1>11, DialectsAssumption DEF Disconnect
  <2>2. Progress'
    BY <1>11 DEF Disconnect
  <2>3. Counted'
    BY <1>11, DialectsAssumption DEF Disconnect
  <2>4. Transaction'
    BY <1>11 DEF Disconnect
  <2> QED BY <2>1, <2>2, <2>3, <2>4
<1>12. CASE Settle
  BY <1>12 DEF Settle
<1>13. CASE LinkLost
  <2>1. /\ link' = FALSE /\ tx' = "none" /\ staged' = 0
        /\ UNCHANGED <<dialect, control, pc, tran, stored, file, wrote, ended,
                       excuse, outcome, reply>>
    BY <1>13 DEF LinkLost
  <2>3. TypeOK'
    <3>1. 0 \in 0..MaxWrites
      BY DialectsAssumption
    <3> QED BY <2>1, <3>1
  <2>4. Counted'
    <3>1. staged' + stored' <= wrote'
      BY <2>1, Dropped
    <3>2. file' \in {0, stored'} /\ (dialect' # "SQLServer" => ~Killed')
      BY <2>1
    <3> QED BY <3>1, <3>2
  <2>2. Progress' /\ Transaction'
    BY <1>13 DEF LinkLost
  <2> QED BY <2>2, <2>3, <2>4
<1>14. CASE UNCHANGED vars
  BY <1>14 DEF vars
<1>15. ASSUME NEW k \in Killers, Kill(k) PROVE Base'
  <2>1. /\ dialect = "SQLServer" /\ pc = "body" /\ tran' = FALSE
        /\ tx' \in {"none", tx} /\ staged' \in {0, staged}
        /\ excuse' = excuse \union {"killed"}
        /\ UNCHANGED <<dialect, control, pc, link, stored, file, wrote, ended,
                       outcome, reply>>
    BY <1>15 DEF Kill
  <2>2. TypeOK'
    BY <2>1, DialectsAssumption
  <2>3. Progress'
    BY <2>1
  <2>4. Counted'
    <3>1. staged' + stored' <= wrote'
      BY <2>1, Dropped
    <3>2. file' \in {0, stored'} /\ dialect' = "SQLServer"
      BY <2>1
    <3> QED BY <3>1, <3>2
  <2>5. Transaction'
    BY <2>1
  <2> QED BY <2>2, <2>3, <2>4, <2>5
<1> QED BY <1>1, <1>2, <1>3, <1>4, <1>5, <1>6, <1>7, <1>8, <1>9, <1>10, <1>11,
           <1>12, <1>13, <1>14, <1>15 DEF Next

\* A COMMIT or ROLLBACK that resolves, by what it found.
LEMMA CommitResolved ==
  ASSUME IInv, Commit(TRUE), Running
  PROVE  stored' = wrote \/ Killed \/ (dialect = "Postgres" /\ "swallowed" \in excuse)
<1> USE DEF IInv, Base, TypeOK, Counted, Transaction, Committing
<1>1. CASE NoTran(TRUE)
  BY <1>1 DEF NoTran
<1>2. CASE NothingToEnd(TRUE)
  BY <1>2 DEF NothingToEnd
<1>3. CASE LinkIsDown(TRUE) \/ Refused(TRUE)
  BY <1>3 DEF LinkIsDown, Refused
<1>4. CASE Committed(TRUE)
  <2>1. CASE tx = "open"
    BY <1>4, <2>1, DialectsAssumption DEF Committed
  <2>2. CASE tx # "open"
    BY <1>4, <2>2 DEF Committed
  <2> QED BY <2>1, <2>2
<1> QED BY <1>1, <1>2, <1>3, <1>4 DEF Commit

LEMMA EndedTx ==
  ASSUME NEW r \in BOOLEAN, Commit(r) \/ Rollback(r) PROVE tx' \in {tx, "none"}
BY DEF Commit, Rollback, NoTran, NothingToEnd, LinkIsDown, Refused, Committed, RolledBack

LEMMA CommittingStep == IInv /\ [Next]_vars => Committing'
<1> SUFFICES ASSUME IInv, [Next]_vars PROVE Committing'
  OBVIOUS
<1> USE DEF Committing, Running, WillSay, Killed
<1>0. TypeOK /\ Progress /\ Counted /\ Transaction /\ Committing
  BY DEF IInv, Base
<1>1. CASE Connect
  BY <1>0, <1>1 DEF Connect, Transaction, Counted, Progress, TypeOK
<1>2. CASE Begin
  <2>1. dialect = "SQLServer" => tran'
    BY <1>2, Zenon DEF Begin
  <2> QED BY <1>2, <2>1 DEF Begin
<1>3. CASE BeginFails
  BY <1>0, <1>3 DEF BeginFails, Progress
<1>4. CASE WriteInside
  BY <1>0, <1>4 DEF WriteInside
<1>5. CASE WriteOutside
  BY <1>0, <1>5 DEF WriteOutside
<1>6. CASE StatementFails
  BY <1>0, <1>6 DEF StatementFails
<1>7. CASE BodyReturns
  BY <1>0, <1>7 DEF BodyReturns
<1>8. CASE BodyThrows
  BY <1>0, <1>8 DEF BodyThrows
<1>9. CASE Control
  <2>1. PICK r \in BOOLEAN : /\ AfterBody(r)
                             /\ pc' = IF r THEN "disconnect" ELSE "catch"
                             /\ outcome' = IF r THEN outcome ELSE "error"
    BY <1>9 DEF Control
  <2>2. tx' \in {tx, "none"}
    BY <2>1, EndedTx DEF AfterBody
  <2>3. /\ pc = "control" /\ ended = "returned"
        /\ UNCHANGED <<dialect, control, file, wrote, ended, excuse, reply>>
    BY <1>0, <1>9 DEF Control, Progress
  <2>4. CASE r /\ control # "alwaysRollback"
    <3>1. stored' = wrote \/ Killed \/ (dialect = "Postgres" /\ "swallowed" \in excuse)
      BY <2>1, <2>3, <2>4, CommitResolved DEF AfterBody
    <3> QED BY <1>0, <2>1, <2>2, <2>3, <2>4, <3>1
  <2>5. CASE ~r \/ control = "alwaysRollback"
    BY <1>0, <2>1, <2>2, <2>3, <2>5
  <2> QED BY <2>4, <2>5
<1>10. CASE Catch
  <2>1. PICK r \in BOOLEAN : /\ InCatch(r)
                             /\ outcome' = IF r THEN outcome ELSE "rejected"
    BY <1>10 DEF Catch
  <2>2. tx' \in {tx, "none"}
    BY <2>1, EndedTx DEF InCatch
  <2>3. /\ pc = "catch" /\ pc' = "disconnect" /\ outcome = "error"
        /\ UNCHANGED <<dialect, control, file, wrote, ended, excuse, reply>>
    BY <1>0, <1>10 DEF Catch, Progress
  <2>4. CASE r /\ control = "alwaysCommit" /\ ended = "threw"
    <3>1. stored' = wrote \/ Killed \/ (dialect = "Postgres" /\ "swallowed" \in excuse)
      BY <2>1, <2>3, <2>4, CommitResolved DEF InCatch
    <3> QED BY <1>0, <2>1, <2>2, <2>3, <2>4, <3>1
  <2>5. CASE ~(r /\ control = "alwaysCommit" /\ ended = "threw")
    BY <1>0, <2>1, <2>2, <2>3, <2>5
  <2> QED BY <2>4, <2>5
<1>11. CASE Disconnect
  BY <1>0, <1>11 DEF Disconnect
<1>12. CASE Settle
  BY <1>0, <1>12 DEF Settle
<1>13. CASE LinkLost
  BY <1>0, <1>13 DEF LinkLost
<1>14. CASE UNCHANGED vars
  BY <1>0, <1>14 DEF vars
<1>15. ASSUME NEW k \in Killers, Kill(k) PROVE Committing'
  BY <1>0, <1>15 DEF Kill
<1> QED BY <1>1, <1>2, <1>3, <1>4, <1>5, <1>6, <1>7, <1>8, <1>9, <1>10, <1>11,
           <1>12, <1>13, <1>14, <1>15 DEF Next

THEOREM Invariance == Spec => []IInv
<1>1. Init => IInv
  BY InitBase DEF IInv, Committing, Running, Init, Killed, WillSay
<1>2. IInv /\ [Next]_vars => IInv'
  BY StepBase, CommittingStep DEF IInv
<1> QED BY <1>1, <1>2, PTL DEF Spec

\* Typing.
THEOREM TypeCorrect == Spec => []TypeOK
<1>1. IInv => TypeOK
  BY DEF IInv, Base
<1> QED BY <1>1, Invariance, PTL

\* The writes of a callback nobody killed survive all together or not at all.
THEOREM Atomicity == Spec => []AllOrNothing
<1>1. IInv => AllOrNothing
  BY DEF IInv, Base, TypeOK, Counted, Transaction, AllOrNothing, Durable, Killed
<1> QED BY <1>1, Invariance, PTL

\* With rollbackOnError nothing a throwing callback wrote survives, unless it
\* was killed.
THEOREM ErrorRollsBack == Spec => []RollbackUnlessKilled
<1>1. IInv => RollbackUnlessKilled
  BY DEF IInv, Base, TypeOK, Counted, Transaction, RollbackUnlessKilled, RollbackOnError,
         Durable, Killed
<1> QED BY <1>1, Invariance, PTL

\* A promise that says it committed tells the truth, but for a statement error
\* swallowed on Postgres, a file SQLite could not write and a killed
\* transaction of SQL Server (flowTransaction, disconnectSub).
THEOREM ReportsTrue == Spec => []Reported
<1>1. ASSUME IInv PROVE Reported
  <2> SUFFICES ASSUME SaysCommitted PROVE
        \/ Durable = wrote
        \/ dialect = "Postgres" /\ "swallowed" \in excuse
        \/ dialect = "SQLite" /\ "notWritten" \in excuse
        \/ dialect = "SQLServer" /\ Killed
    BY DEF Reported
  <2>1. pc = "done" /\ WillSay
    BY <1>1 DEF SaysCommitted, WillSay, IInv, Base, Progress, Committing
  <2>2. stored = wrote \/ Killed \/ (dialect = "Postgres" /\ "swallowed" \in excuse)
    BY <1>1, <2>1 DEF IInv, Committing
  <2>3. Killed => dialect = "SQLServer"
    BY <1>1 DEF IInv, Base, Counted
  <2>4. dialect = "SQLite" => file = stored \/ "notWritten" \in excuse
    BY <1>1, <2>1 DEF IInv, Committing
  <2> QED BY <2>2, <2>3, <2>4 DEF Durable
<1> QED BY <1>1, Invariance, PTL

\* Once kill() cleared this.tran, a commit() stores nothing of the transaction:
\* the database gains what commits by itself and no more (SQLServerDriver).
THEOREM KilledStaysLost == Spec => KilledIsLost
<1>1. ASSUME IInv, [Next]_vars, dialect = "SQLServer", ~tran
      PROVE  stored' - stored = wrote' - wrote
  <2>1. stored \in Nat /\ wrote \in Nat
    BY <1>1, DialectsAssumption DEF IInv, Base, TypeOK
  <2>2. CASE WriteOutside
    BY <2>1, <2>2 DEF WriteOutside
  <2>3. CASE UNCHANGED <<stored, wrote>>
    BY <2>1, <2>3
  <2>4. CASE Control \/ Catch
    <3>1. PICK r \in BOOLEAN : Commit(r) \/ Rollback(r)
      BY <2>4 DEF Control, Catch, AfterBody, InCatch
    <3>2. UNCHANGED <<stored, wrote>>
      BY <1>1, <2>4, <3>1 DEF Control, Catch, Commit, Rollback, NoTran
    <3> QED BY <2>3, <3>2
  <2>5. CASE Connect \/ Begin \/ BeginFails \/ StatementFails \/ BodyReturns
             \/ BodyThrows \/ Disconnect \/ Settle \/ LinkLost
    BY <2>3, <2>5 DEF Connect, Begin, BeginFails, StatementFails, BodyReturns,
                      BodyThrows, Disconnect, Settle, LinkLost
  <2>6. ASSUME NEW k \in Killers, Kill(k) PROVE UNCHANGED <<stored, wrote>>
    BY <2>6 DEF Kill
  <2>7. ~WriteInside
    BY <1>1 DEF WriteInside
  <2>8. CASE UNCHANGED vars
    BY <2>3, <2>8 DEF vars
  <2> QED BY <1>1, <2>2, <2>3, <2>4, <2>5, <2>6, <2>7, <2>8 DEF Next
<1>2. IInv /\ [Next]_vars =>
        [dialect = "SQLServer" /\ ~tran => stored' - stored = wrote' - wrote]_vars
  BY <1>1
<1> QED BY <1>2, Invariance, PTL DEF Spec, KilledIsLost

\* flowTransaction over any of the five databases keeps the contract, also
\* when somebody kills it.
THEOREM Refinement == Spec => Implements
<1>1. Init => Contract!AInit
  BY DEF Init, Contract!AInit, ControlType, Contract!ControlType, Durable, Killed
<1>2. ASSUME IInv, [Next]_vars
      PROVE  [Contract!ANext]_(Contract!avars)
  <2> USE <1>2 DEF IInv, Base, TypeOK, Label, ControlType, Progress, Counted,
               Transaction, Killed, Durable, Contract!avars
  <2>1. CASE WriteInside
    <3>1. Contract!Write
      BY <2>1 DEF WriteInside, Contract!Write
    <3> QED BY <3>1 DEF Contract!ANext
  <2>2. CASE BodyReturns
    <3>1. Contract!End
      BY <2>2 DEF BodyReturns, Contract!End
    <3> QED BY <3>1 DEF Contract!ANext
  <2>3. CASE BodyThrows
    <3>1. Contract!End
      BY <2>3 DEF BodyThrows, Contract!End
    <3> QED BY <3>1 DEF Contract!ANext
  <2>4. CASE Control
    <3>1. CASE control = "alwaysRollback"
      BY <2>4, <3>1, RollbackStep DEF Control, AfterBody
    <3>2. CASE control # "alwaysRollback"
      BY <2>4, <3>2, CommitStep DEF Control, AfterBody, Contract!ANext,
                                    Contract!Effect, Contract!Allowed
    <3> QED BY <3>1, <3>2
  <2>5. CASE Catch
    <3>1. CASE control = "alwaysCommit"
      BY <2>5, <3>1, CommitStep DEF Catch, InCatch, Contract!ANext,
                                    Contract!Effect, Contract!Allowed
    <3>2. CASE control # "alwaysCommit"
      BY <2>5, <3>2, RollbackStep DEF Catch, InCatch
    <3> QED BY <3>1, <3>2
  <2>6. CASE Disconnect
    BY <2>6 DEF Disconnect, Contract!ANext, Contract!Effect, Contract!Allowed
  <2>7. CASE Settle
    BY <2>7 DEF Settle, Contract!ANext, Contract!Reply
  <2>8. CASE Connect \/ Begin \/ BeginFails \/ StatementFails
             \/ LinkLost \/ UNCHANGED vars
    BY <2>8 DEF Connect, Begin, BeginFails, StatementFails, LinkLost, vars
  <2>9. CASE WriteOutside
    <3>1. Contract!Write
      BY <2>9 DEF WriteOutside, Contract!Write
    <3> QED BY <3>1 DEF Contract!ANext
  <2>10. ASSUME NEW k \in Killers, Kill(k) PROVE [Contract!ANext]_(Contract!avars)
    BY <2>10 DEF Kill
  <2> QED BY <2>1, <2>2, <2>3, <2>4, <2>5, <2>6, <2>7, <2>8, <2>9, <2>10 DEF Next
<1> QED BY <1>1, <1>2, Invariance, PTL DEF Spec, Implements, Contract!ASpec
=============================================================================
