-------------------------- MODULE FlowTransaction --------------------------
(***************************************************************************)
(* RDSBaseDriver.flowTransaction over the begin, commit and rollback of    *)
(* the five SQL drivers.  The callback f and the database are external:    *)
(* f makes writes, may swallow the error of a failed statement, and        *)
(* returns or throws; the database may refuse any call, and the link to it *)
(* may break before or after a call took effect.                           *)
(*                                                                         *)
(* The drivers differ in what they keep (this.tran of SQL Server) and in   *)
(* what the database does with a COMMIT or ROLLBACK outside a transaction  *)
(* or after a failed statement.                                            *)
(***************************************************************************)
EXTENDS Naturals

CONSTANTS Dialects,      \* the databases checked
          Killers,       \* who else may call kill() on the driver meanwhile
          MaxWrites      \* bound: how many writes the callback makes

ASSUME DialectsAssumption ==
  /\ Dialects \subseteq {"MySQL", "Postgres", "SQLServer", "Oracle", "SQLite"}
  /\ MaxWrites \in Nat

VARIABLES dialect, control,
          pc,
          tran,     \* this.tran is set (SQL Server)
          link,     \* the connection that carries the transaction works
          tx,       \* at the database: "none", "open" or "aborted"
          staged,   \* writes inside the open transaction
          stored,   \* writes the database has committed
          file,     \* SQLite: writes in the file behind the database
          wrote, ended,
          excuse,   \* history: a failed statement was swallowed, the file
                    \* was not written, or the transaction was killed
          outcome,  \* what the promise will settle with
          reply

vars == <<dialect, control, pc, tran, link, tx, staged, stored, file,
          wrote, ended, excuse, outcome, reply>>

ControlType == {"alwaysCommit", "alwaysRollback", "rollbackOnError"}

Label == {"connect", "begin", "body", "control", "catch", "disconnect",
          "settle", "done"}

TypeOK ==
  /\ dialect \in Dialects
  /\ control \in ControlType
  /\ pc \in Label
  /\ tran \in BOOLEAN
  /\ link \in BOOLEAN
  /\ tx \in {"none", "open", "aborted"}
  /\ staged \in 0..MaxWrites
  /\ stored \in 0..MaxWrites
  /\ file \in 0..MaxWrites
  /\ wrote \in 0..MaxWrites
  /\ ended \in {"no", "returned", "threw"}
  /\ excuse \subseteq {"swallowed", "notWritten", "killed"}
  /\ outcome \in {"ok", "error", "rejected"}
  /\ reply \in {"none", "ok", "error", "rejected"}

Init ==
  /\ dialect \in Dialects
  /\ control \in ControlType
  /\ pc = "connect"
  /\ tran = FALSE /\ link = FALSE /\ tx = "none"
  /\ staged = 0 /\ stored = 0 /\ file = 0
  /\ wrote = 0 /\ ended = "no" /\ excuse = {}
  /\ outcome = "ok" /\ reply = "none"

-----------------------------------------------------------------------------
\* connect() succeeded, or returned a message: then neither begin nor
\* disconnect is called.
Connect ==
  /\ pc = "connect"
  /\ \/ /\ pc' = "begin" /\ link' = TRUE
        /\ UNCHANGED outcome
     \/ /\ pc' = "settle" /\ outcome' = "error"
        /\ UNCHANGED link
  /\ UNCHANGED <<dialect, control, tran, tx, staged, stored, file, wrote,
                 ended, excuse, reply>>

\* The link breaks: the database rolls back what it has not committed.
LinkLost ==
  /\ link /\ dialect # "SQLite"
  /\ pc \in {"begin", "body", "control", "catch"}
  /\ link' = FALSE /\ tx' = "none" /\ staged' = 0
  /\ UNCHANGED <<dialect, control, pc, tran, stored, file, wrote, ended,
                 excuse, outcome, reply>>

Begin ==
  /\ pc = "begin" /\ link
  /\ pc' = "body" /\ tx' = "open"
  /\ tran' = (dialect = "SQLServer")
  /\ UNCHANGED <<dialect, control, link, staged, stored, file, wrote, ended,
                 excuse, outcome, reply>>

\* begin() rejects: SQL Server has assigned this.tran already, and may have
\* opened the transaction when the lock timeout after it fails.
BeginFails ==
  /\ pc = "begin"
  /\ pc' = "catch" /\ outcome' = "error"
  /\ tran' = (dialect = "SQLServer")
  /\ \/ UNCHANGED tx
     \/ dialect = "SQLServer" /\ link /\ tx' = "open"
  /\ UNCHANGED <<dialect, control, link, staged, stored, file, wrote, ended,
                 excuse, reply>>

\* A statement of the callback.  SQL Server sends it inside this.tran when it
\* is set, else on the pool, where it commits by itself.

\* Mutant: the await of begin() is missing, so the first statement runs, and
\* commits, before the transaction is open.
WriteInside_BeforeBegin ==
  /\ pc = "body" /\ wrote < MaxWrites
  /\ dialect = "SQLServer" => tran
  /\ link /\ tx = "open"
  /\ wrote' = wrote + 1
  /\ IF wrote = 0 THEN stored' = 1 /\ UNCHANGED staged
                  ELSE staged' = staged + 1 /\ UNCHANGED stored
  /\ UNCHANGED <<dialect, control, pc, tran, link, tx, file, ended,
                 excuse, outcome, reply>>

WriteInside ==
  /\ pc = "body" /\ wrote < MaxWrites
  /\ dialect = "SQLServer" => tran
  /\ link /\ tx = "open"
  /\ wrote' = wrote + 1 /\ staged' = staged + 1
  /\ UNCHANGED <<dialect, control, pc, tran, link, tx, stored, file, ended,
                 excuse, outcome, reply>>

WriteOutside ==
  /\ pc = "body" /\ wrote < MaxWrites
  /\ dialect = "SQLServer" /\ ~tran
  /\ wrote' = wrote + 1 /\ stored' = stored + 1
  /\ UNCHANGED <<dialect, control, pc, tran, link, tx, staged, file, ended,
                 excuse, outcome, reply>>

\* A statement fails and the callback goes on.  Postgres refuses every further
\* statement of the transaction.
StatementFails ==
  /\ pc = "body"
  /\ excuse' = excuse \union {"swallowed"}
  /\ tx' = IF dialect = "Postgres" /\ tx = "open" THEN "aborted" ELSE tx
  /\ UNCHANGED <<dialect, control, pc, tran, link, staged, stored, file,
                 wrote, ended, outcome, reply>>

\* Another caller of SQLServerDriver.kill(): it cancels the request and then
\* rolls the driver's transaction back, which fails while the request is being
\* cancelled; this.tran is cleared either way.
Kill(k) ==
  /\ dialect = "SQLServer" /\ tran
  /\ pc = "body"
  /\ tran' = FALSE
  /\ \/ tx' = "none" /\ staged' = 0
     \/ UNCHANGED <<tx, staged>>
  /\ excuse' = excuse \union {"killed"}
  /\ UNCHANGED <<dialect, control, pc, link, stored, file, wrote, ended,
                 outcome, reply>>

BodyReturns ==
  /\ pc = "body"
  /\ pc' = "control" /\ ended' = "returned"
  /\ UNCHANGED <<dialect, control, tran, link, tx, staged, stored, file,
                 wrote, excuse, outcome, reply>>

BodyThrows ==
  /\ pc = "body"
  /\ pc' = "catch" /\ ended' = "threw" /\ outcome' = "error"
  /\ UNCHANGED <<dialect, control, tran, link, tx, staged, stored, file,
                 wrote, excuse, reply>>
-----------------------------------------------------------------------------
(***************************************************************************)
(* commit() and rollback() of the drivers; r says whether they resolve.    *)
(* SQL Server does nothing without this.tran and clears it either way;     *)
(* outside a transaction it rejects, as SQLite does, and the others        *)
(* resolve.                                                                *)
(***************************************************************************)
NothingToEnd(r) ==
  /\ link /\ tx = "none"
  /\ r = (dialect \notin {"SQLServer", "SQLite"})
  /\ UNCHANGED <<link, tx, staged, stored>>

\* Mutant: a statement on a dead link is never answered.
LinkIsDown_Hangs(r) == FALSE /\ UNCHANGED <<link, tx, staged, stored>>

LinkIsDown(r) ==
  /\ ~link /\ r = FALSE
  /\ UNCHANGED <<link, tx, staged, stored>>

Refused(r) ==
  /\ link /\ tx # "none" /\ r = FALSE
  /\ UNCHANGED <<link, tx, staged, stored>>

\* Mutant: without this.tran the transaction is ended all the same.
NoTran_CommitsAnyway(r) ==
  /\ dialect = "SQLServer" /\ ~tran /\ r = TRUE
  /\ tx' = "none" /\ staged' = 0 /\ stored' = stored + staged
  /\ UNCHANGED link

NoTran(r) ==
  /\ dialect = "SQLServer" /\ ~tran /\ r = TRUE
  /\ UNCHANGED <<link, tx, staged, stored>>

\* The transaction commits; its acknowledgement may be lost with the link.
\* Postgres resolves a COMMIT of an aborted transaction, and rolls it back.
Committed(r) ==
  /\ link /\ tx # "none"
  /\ tx' = "none" /\ staged' = 0
  /\ stored' = IF tx = "open" THEN stored + staged ELSE stored
  /\ link' = r
  /\ dialect = "SQLite" => r

RolledBack(r) ==
  /\ link /\ tx # "none" /\ r = TRUE
  /\ tx' = "none" /\ staged' = 0
  /\ UNCHANGED <<link, stored>>

Commit(r) ==
  /\ tran' = FALSE
  /\ \/ NoTran(r)
     \/ /\ dialect = "SQLServer" => tran
        /\ NothingToEnd(r) \/ LinkIsDown(r) \/ Refused(r) \/ Committed(r)

Rollback(r) ==
  /\ tran' = FALSE
  /\ \/ NoTran(r)
     \/ /\ dialect = "SQLServer" => tran
        /\ NothingToEnd(r) \/ LinkIsDown(r) \/ Refused(r) \/ RolledBack(r)

\* Mutant: rollbackOnError commits in the catch block.
InCatch_Commits(r) == IF control = "alwaysRollback" THEN Rollback(r) ELSE Commit(r)

\* Mutant: only alwaysCommit commits.
AfterBody_OnlyAlways(r) == IF control = "alwaysCommit" THEN Commit(r) ELSE Rollback(r)

AfterBody(r) == IF control = "alwaysRollback" THEN Rollback(r) ELSE Commit(r)
InCatch(r)   == IF control = "alwaysCommit" THEN Commit(r) ELSE Rollback(r)

\* The call after the callback returned; when it rejects, the catch block
\* makes its own.
Control ==
  /\ pc = "control"
  /\ \/ AfterBody(TRUE) /\ pc' = "disconnect" /\ UNCHANGED outcome
     \/ AfterBody(FALSE) /\ pc' = "catch" /\ outcome' = "error"
  /\ UNCHANGED <<dialect, control, file, wrote, ended, excuse, reply>>

\* What the catch block throws makes flowTransaction reject, after the finally
\* block.
Catch ==
  /\ pc = "catch"
  /\ pc' = "disconnect"
  /\ \/ InCatch(TRUE) /\ UNCHANGED outcome
     \/ InCatch(FALSE) /\ outcome' = "rejected"
  /\ UNCHANGED <<dialect, control, file, wrote, ended, excuse, reply>>

\* disconnect(): the database rolls back what is open.  SQLite writes its
\* file; an error is in the result of disconnect(), which nobody reads.
Disconnect ==
  /\ pc = "disconnect"
  /\ pc' = "settle"
  /\ tran' = FALSE /\ link' = FALSE /\ tx' = "none" /\ staged' = 0
  /\ IF dialect = "SQLite"
     THEN \/ file' = stored /\ UNCHANGED excuse
          \/ excuse' = excuse \union {"notWritten"} /\ UNCHANGED file
     ELSE UNCHANGED <<file, excuse>>
  /\ UNCHANGED <<dialect, control, stored, wrote, ended, outcome, reply>>

Settle ==
  /\ pc = "settle"
  /\ pc' = "done" /\ reply' = outcome
  /\ UNCHANGED <<dialect, control, tran, link, tx, staged, stored, file,
                 wrote, ended, excuse, outcome>>

Next ==
  \/ Connect \/ Begin \/ BeginFails
  \/ WriteInside \/ WriteOutside \/ StatementFails
  \/ BodyReturns \/ BodyThrows
  \/ Control \/ Catch \/ Disconnect \/ Settle
  \/ LinkLost
  \/ \E k \in Killers : Kill(k)

Spec == Init /\ [][Next]_vars

\* The database answers each call and the callback ends; it need not write.
Fairness ==
  /\ WF_vars(Connect) /\ WF_vars(Begin \/ BeginFails)
  /\ WF_vars(BodyReturns \/ BodyThrows)
  /\ WF_vars(Control) /\ WF_vars(Catch)
  /\ WF_vars(Disconnect) /\ WF_vars(Settle)

FairSpec == Spec /\ Fairness
-----------------------------------------------------------------------------
(***************************************************************************)
(* Properties                                                              *)
(***************************************************************************)

\* What survives: the database, for SQLite the file it is loaded from.
Durable == IF dialect = "SQLite" THEN file ELSE stored

Killed == "killed" \in excuse

\* AllOrNothing: the writes of the callback survive together or not at all,
\* wherever begin, a statement, commit, rollback or the link failed, unless
\* somebody killed the transaction.
AllOrNothing == Killed \/ Durable \in {0, wrote}

\* RollbackOnError: with rollbackOnError nothing that a throwing callback
\* wrote survives, also when the rollback fails or its answer is lost.
RollbackOnError ==
  control = "rollbackOnError" /\ ended = "threw" => Durable = 0

\* RollbackUnlessKilled: the same of a transaction nobody killed.
RollbackUnlessKilled == Killed \/ RollbackOnError

\* Reported: when the promise reports that it committed, the writes survive,
\* but for a swallowed statement error on Postgres, an unwritten file on
\* SQLite and a killed transaction on SQL Server.
SaysCommitted ==
  \/ reply = "ok" /\ control # "alwaysRollback"
  \/ reply = "error" /\ control = "alwaysCommit" /\ ended = "threw"

Reported ==
  SaysCommitted =>
    \/ Durable = wrote
    \/ dialect = "Postgres" /\ "swallowed" \in excuse
    \/ dialect = "SQLite" /\ "notWritten" \in excuse
    \/ dialect = "SQLServer" /\ Killed

\* KilledIsLost: once kill() cleared this.tran, what the killed transaction
\* wrote is never committed, whatever commit() reports: the database only
\* gains the statements that commit by themselves.
KilledIsLost ==
  [][dialect = "SQLServer" /\ ~tran => stored' - stored = wrote' - wrote]_vars

\* Settles: flowTransaction settles, whatever fails.
Settles == <>(reply # "none")

\* Implements: every step is one of the abstract contract, or changes nothing
\* of it; a killed transaction is left with no effect the contract knows of.
Contract == INSTANCE TransactionOutcome WITH
              effect <- IF Killed THEN 0 ELSE Durable
Implements == Contract!ASpec
=============================================================================
