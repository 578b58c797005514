--------------------------- MODULE DriverRegistry ---------------------------
(***************************************************************************)
(* The driver registry (DBDriverResolver) and the connection lifecycle     *)
(* every driver inherits (BaseDriver), with the connection handling of     *)
(* MySQLDriver as the concrete connectSub/closeSub.                        *)
(*                                                                         *)
(* JavaScript runs one callback at a time, so an action is the code        *)
(* between two awaits and the interleaving is that of the promises of      *)
(* several callers.  A caller is one asynchronous call of the API:         *)
(*   Workflow     resolver.workflow(setting, f)                            *)
(*   Transaction  resolver.flowTransaction(setting, f), whose commit or    *)
(*                rollback may reject inside the catch block               *)
(*   Reuser       getDriverById(id).flow(f): a driver it did not create    *)
(*   Session      createDriver, then connect/disconnect by hand            *)
(*   Closer       resolver.closeAll()                                      *)
(***************************************************************************)
EXTENDS Naturals, FiniteSets

CONSTANTS Workflow, Transaction, Reuser, Session, Closer,
          MaxDriver,    \* bound: how many drivers are created
          MaxConnect,   \* bound: connection attempts on a driver before its
                        \* session stops reconnecting it
          Casts         \* bound: which callers make their call together

ASSUME BoundsAssumption == MaxDriver \in Nat /\ MaxConnect \in Nat

\* A caller has one role.
ASSUME RolesAssumption ==
  /\ (Workflow \union Transaction \union Session) \intersect (Reuser \union Closer) = {}
  /\ Reuser \intersect Closer = {}

Flow   == Workflow \union Transaction \union Reuser
Caller == Flow \union Session \union Closer
Driver == 1..MaxDriver
NoDriver == 0
NoCon    == 0            \* this.con === undefined

\* Where a caller's promise is suspended.
Label == {"idle",        \* not called yet
          "entry",       \* flow: about to look at isConnected
          "reconnect",   \* flow: disconnected, about to call connect()
          "connecting",  \* awaiting createConnection()
          "testing",     \* awaiting test() and the session settings
          "body",        \* awaiting the callback f
          "open",        \* Session: connected, nothing in flight
          "closed",      \* Session: disconnected, nothing in flight
          "ending",      \* awaiting con.end()
          "settled",     \* flow resolved, the resolver has not resumed
          "rejecting",   \* flow about to reject
          "next",        \* closeAll: about to ask the map for its next entry
          "done", "rejected"}

\* Where a caller goes on once the connection is ended.
After == {"reconnect", "closed", "settled", "rejecting", "next", "done"}

VARIABLES driverMap,     \* ids of the registered drivers
          created,       \* how many drivers were created: ids are 1..created
          isConnected, con,
          live,          \* connections the database server holds, per driver
          attempts,      \* numbers the connections of a driver
          pc, drv, target, after,
          lossy,         \* history: what happened to a driver that can lose
                         \* a connection (see Explained)
          due            \* history: the connections open when a closeAll began

vars == <<driverMap, created, isConnected, con, live, attempts,
          pc, drv, target, after, lossy, due>>

Connection == Driver \X (Nat \ {NoCon})

TypeOK ==
  /\ driverMap \subseteq Driver
  /\ created \in 0..MaxDriver
  /\ isConnected \in [Driver -> BOOLEAN]
  /\ con \in [Driver -> Nat]
  /\ live \in [Driver -> SUBSET (Nat \ {NoCon})]
  /\ attempts \in [Driver -> Nat]
  /\ pc \in [Caller -> Label]
  /\ drv \in [Caller -> Driver \union {NoDriver}]
  /\ target \in [Caller -> Nat]
  /\ after \in [Caller -> After]
  /\ lossy \in [Driver -> SUBSET {"overlap", "connectedTwice", "setupFailed",
                                  "testFailed", "endFailed"}]
  /\ due \in [Caller -> SUBSET Connection]

Init ==
  /\ driverMap = {}
  /\ created = 0
  /\ isConnected = [d \in Driver |-> FALSE]
  /\ con = [d \in Driver |-> NoCon]
  /\ live = [d \in Driver |-> {}]
  /\ attempts = [d \in Driver |-> 0]
  /\ \E cast \in Casts :
       pc = [j \in Caller |-> IF j \in cast THEN "idle" ELSE "done"]
  /\ drv = [j \in Caller |-> NoDriver]
  /\ target = [j \in Caller |-> NoCon]
  /\ after = [j \in Caller |-> "done"]
  /\ lossy = [d \in Driver |-> {}]
  /\ due = [j \in Caller |-> {}]

-----------------------------------------------------------------------------
(***************************************************************************)
(* BaseDriver.connect and disconnect, up to their first await.             *)
(***************************************************************************)
Goto(j, l) == pc' = [pc EXCEPT ![j] = l]
Forget(j)  == target' = [target EXCEPT ![j] = NoCon]

InFlight(d) == {j \in Caller : drv[j] = d
                               /\ pc[j] \in {"connecting", "testing", "ending"}}

\* What calling connect() now can do to the connections the driver has: the
\* call overlaps another one, or the driver is connected already.
ConnectHazard(d) ==
  (IF InFlight(d) # {} THEN {"overlap"} ELSE {})
  \union (IF isConnected[d] THEN {"connectedTwice"} ELSE {})

CallConnect(j, d) ==
  /\ lossy' = [lossy EXCEPT ![d] = @ \union ConnectHazard(d)]
  /\ isConnected' = [isConnected EXCEPT ![d] = FALSE]
  /\ attempts' = [attempts EXCEPT ![d] = @ + 1]
  /\ target' = [target EXCEPT ![j] = attempts[d] + 1]
  /\ Goto(j, "connecting")

\* closeSub is only called on a connected driver, and awaits only when there
\* is a connection to end.
CallDisconnect(j, d, next) ==
  IF isConnected[d] /\ con[d] # NoCon
    THEN /\ target' = [target EXCEPT ![j] = con[d]]
         /\ after' = [after EXCEPT ![j] = next]
         /\ Goto(j, "ending")
         /\ UNCHANGED isConnected
    ELSE /\ isConnected' = [isConnected EXCEPT ![d] = FALSE]
         /\ Goto(j, next)
         /\ UNCHANGED <<target, after>>

\* DBDriverResolver.createDriver: a fresh id, registered before anything else.
CreateDriver(j) ==
  /\ created < MaxDriver
  /\ created' = created + 1
  /\ driverMap' = driverMap \union {created + 1}
  /\ drv' = [drv EXCEPT ![j] = created + 1]

\* A flow that does not return an error message reaches the callback, a
\* session is left open.
Connected(j)  == IF j \in Session THEN "open" ELSE "body"
Unconnected(j) == IF j \in Session THEN "closed" ELSE "settled"

-----------------------------------------------------------------------------
(***************************************************************************)
(* The calls                                                               *)
(***************************************************************************)
StartFlow(j) ==
  /\ j \in Workflow \union Transaction
  /\ pc[j] = "idle"
  /\ CreateDriver(j)
  /\ Goto(j, "entry")
  /\ UNCHANGED <<isConnected, con, live, attempts, target, after, lossy, due>>

StartReuse(j) ==
  /\ j \in Reuser
  /\ pc[j] = "idle"
  /\ \E d \in driverMap : drv' = [drv EXCEPT ![j] = d]
  /\ Goto(j, "entry")
  /\ UNCHANGED <<driverMap, created, isConnected, con, live, attempts,
                 target, after, lossy, due>>

\* flow: disconnect a connected driver first, then connect.
EnterConnected(j) ==
  /\ pc[j] = "entry"
  /\ isConnected[drv[j]]
  /\ CallDisconnect(j, drv[j], "reconnect")
  /\ UNCHANGED <<driverMap, created, con, live, attempts, drv, lossy, due>>

EnterUnconnected(j) ==
  /\ \/ pc[j] = "entry" /\ ~isConnected[drv[j]]
     \/ pc[j] = "reconnect"
  /\ CallConnect(j, drv[j])
  /\ UNCHANGED <<driverMap, created, con, live, drv, after, due>>

\* createConnection() resolves and this.con is assigned, whatever it held.
Opened(j) ==
  /\ pc[j] = "connecting"
  /\ con' = [con EXCEPT ![drv[j]] = target[j]]
  /\ live' = [live EXCEPT ![drv[j]] = @ \union {target[j]}]
  /\ Goto(j, "testing")
  /\ UNCHANGED <<driverMap, created, isConnected, attempts, drv, target,
                 after, lossy, due>>

\* createConnection() rejects: connect() returns the error.
OpenFailed(j) ==
  /\ pc[j] = "connecting"
  /\ isConnected' = [isConnected EXCEPT ![drv[j]] = FALSE]
  /\ Goto(j, Unconnected(j))
  /\ Forget(j)
  /\ UNCHANGED <<driverMap, created, con, live, attempts, drv, after, lossy, due>>

\* createConnection() rejects after the server accepted the connection: the
\* read-only setting of the session failed, and nothing refers to it.
SetupFailed(j) ==
  /\ pc[j] = "connecting"
  /\ live' = [live EXCEPT ![drv[j]] = @ \union {target[j]}]
  /\ isConnected' = [isConnected EXCEPT ![drv[j]] = FALSE]
  /\ lossy' = [lossy EXCEPT ![drv[j]] = @ \union {"setupFailed"}]
  /\ Goto(j, Unconnected(j))
  /\ Forget(j)
  /\ UNCHANGED <<driverMap, created, con, attempts, drv, after, due>>

TestPassed(j) ==
  /\ pc[j] = "testing"
  /\ isConnected' = [isConnected EXCEPT ![drv[j]] = TRUE]
  /\ Goto(j, Connected(j))
  /\ Forget(j)
  /\ UNCHANGED <<driverMap, created, con, live, attempts, drv, after, lossy, due>>

\* The test query or a session setting fails: connect() returns the error,
\* and this.con keeps the connection it opened.
TestFailed(j) ==
  /\ pc[j] = "testing"
  /\ isConnected' = [isConnected EXCEPT ![drv[j]] = FALSE]
  /\ lossy' = [lossy EXCEPT ![drv[j]] = @ \union {"testFailed"}]
  /\ Goto(j, Unconnected(j))
  /\ Forget(j)
  /\ UNCHANGED <<driverMap, created, con, live, attempts, drv, after, due>>

\* Mutant: the disconnect is not in a finally block.
BodyEnd_NoFinally(j) ==
  /\ pc[j] = "body"
  /\ Goto(j, "settled")
  /\ UNCHANGED <<driverMap, created, isConnected, con, live, attempts, drv,
                 target, after, lossy, due>>

\* The callback (or the transaction control after it) resolves or throws; the
\* finally block disconnects either way.
BodyEnd(j) ==
  /\ pc[j] = "body"
  /\ CallDisconnect(j, drv[j], "settled")
  /\ UNCHANGED <<driverMap, created, con, live, attempts, drv, lossy, due>>

\* flowTransaction: the commit or rollback in the catch block throws.
BodyReject(j) ==
  /\ j \in Transaction
  /\ pc[j] = "body"
  /\ CallDisconnect(j, drv[j], "rejecting")
  /\ UNCHANGED <<driverMap, created, con, live, attempts, drv, lossy, due>>

\* Mutant: closeSub drops the connection without ending it.
Ended_NotSent(j) ==
  /\ pc[j] = "ending"
  /\ con' = [con EXCEPT ![drv[j]] = NoCon]
  /\ isConnected' = [isConnected EXCEPT ![drv[j]] = FALSE]
  /\ Goto(j, after[j])
  /\ UNCHANGED <<driverMap, created, live, attempts, drv, target, after,
                 lossy, due>>

\* Mutant: disconnect does not call initBaseStatus.
Ended_StaysConnected(j) ==
  /\ pc[j] = "ending"
  /\ live' = [live EXCEPT ![drv[j]] = @ \ {target[j]}]
  /\ con' = [con EXCEPT ![drv[j]] = NoCon]
  /\ Goto(j, after[j])
  /\ UNCHANGED <<driverMap, created, isConnected, attempts, drv, target,
                 after, lossy, due>>

\* con.end() resolves; the continuation clears this.con, whatever it holds now.
Ended(j) ==
  /\ pc[j] = "ending"
  /\ live' = [live EXCEPT ![drv[j]] = @ \ {target[j]}]
  /\ con' = [con EXCEPT ![drv[j]] = NoCon]
  /\ isConnected' = [isConnected EXCEPT ![drv[j]] = FALSE]
  /\ Goto(j, after[j])
  /\ Forget(j)
  /\ after' = [after EXCEPT ![j] = "done"]
  /\ UNCHANGED <<driverMap, created, attempts, drv, lossy, due>>

\* con.end() rejects: closeSub returns the message, this.con stays, and the
\* driver counts as disconnected all the same.
EndFailed(j) ==
  /\ pc[j] = "ending"
  /\ isConnected' = [isConnected EXCEPT ![drv[j]] = FALSE]
  /\ lossy' = [lossy EXCEPT ![drv[j]] =
                 IF target[j] \in live[drv[j]] THEN @ \union {"endFailed"} ELSE @]
  /\ Goto(j, after[j])
  /\ Forget(j)
  /\ after' = [after EXCEPT ![j] = "done"]
  /\ UNCHANGED <<driverMap, created, con, live, attempts, drv, due>>

\* Mutant: the resolver forgets to remove the driver.
Return_Kept(j) ==
  /\ j \in Flow
  /\ pc[j] = "settled"
  /\ Goto(j, "done")
  /\ UNCHANGED <<driverMap, created, isConnected, con, live, attempts, drv,
                 target, after, lossy, due>>

\* The resolver resumes after a resolved flow and removes the driver; after a
\* rejected one it does not resume.  A Reuser is not the resolver.
Return(j) ==
  /\ j \in Flow
  /\ pc[j] = "settled"
  /\ driverMap' = IF j \in Reuser THEN driverMap ELSE driverMap \ {drv[j]}
  /\ Goto(j, "done")
  /\ UNCHANGED <<created, isConnected, con, live, attempts, drv, target,
                 after, lossy, due>>

Reject(j) ==
  /\ pc[j] = "rejecting"
  /\ Goto(j, "rejected")
  /\ UNCHANGED <<driverMap, created, isConnected, con, live, attempts, drv,
                 target, after, lossy, due>>

SessionCreate(j) ==
  /\ j \in Session
  /\ pc[j] = "idle"
  /\ CreateDriver(j)
  /\ Goto(j, "closed")
  /\ UNCHANGED <<isConnected, con, live, attempts, target, after, lossy, due>>

\* connect() may be called on an open driver too: it does not check.
SessionConnect(j) ==
  /\ pc[j] \in {"closed", "open"}
  /\ attempts[drv[j]] < MaxConnect
  /\ CallConnect(j, drv[j])
  /\ UNCHANGED <<driverMap, created, con, live, drv, after, due>>

SessionDisconnect(j) ==
  /\ pc[j] = "open"
  /\ CallDisconnect(j, drv[j], "closed")
  /\ UNCHANGED <<driverMap, created, con, live, attempts, drv, lossy, due>>

\* removeDriver of a driver its session has disconnected.
SessionRemove(j) ==
  /\ j \in Session
  /\ pc[j] = "closed"
  /\ driverMap' = driverMap \ {drv[j]}
  /\ Goto(j, "done")
  /\ UNCHANGED <<created, isConnected, con, live, attempts, drv, target,
                 after, lossy, due>>

CloseAll(j) ==
  /\ j \in Closer
  /\ pc[j] = "idle"
  /\ due' = [due EXCEPT ![j] =
       {<<d, con[d]>> : d \in {e \in driverMap : isConnected[e] /\ con[e] # NoCon}}]
  /\ Goto(j, "next")
  /\ UNCHANGED <<driverMap, created, isConnected, con, live, attempts, drv,
                 target, after, lossy>>

\* The iterator of a Map visits the entries present when it is asked, in
\* insertion order: ids grow with it.
Unvisited(j) == {d \in driverMap : d > drv[j]}

\* Mutant: the iteration skips to the last entry.
NextEntry_Last(j) == {d \in Unvisited(j) : \A e \in Unvisited(j) : d >= e}

NextEntry(j) == {d \in Unvisited(j) : \A e \in Unvisited(j) : d <= e}

\* Mutant: every await is followed by a new iteration of the map.
CloseNext_Restart(j) ==
  /\ pc[j] = "next"
  /\ driverMap # {}
  /\ \E d \in driverMap :
       /\ drv' = [drv EXCEPT ![j] = NoDriver]
       /\ CallDisconnect(j, d, "next")
  /\ UNCHANGED <<driverMap, created, con, live, attempts, lossy, due>>

CloseNext(j) ==
  /\ pc[j] = "next"
  /\ \E d \in NextEntry(j) :
       /\ drv' = [drv EXCEPT ![j] = d]
       /\ CallDisconnect(j, d, "next")
  /\ UNCHANGED <<driverMap, created, con, live, attempts, lossy, due>>

CloseClear(j) ==
  /\ pc[j] = "next"
  /\ Unvisited(j) = {}
  /\ driverMap' = {}
  /\ Goto(j, "done")
  /\ due' = [k \in Caller |-> IF pc[k] = "done" THEN due[k]
                             ELSE {c \in due[k] : c[1] \notin Unvisited(k)}]
  /\ UNCHANGED <<created, isConnected, con, live, attempts, drv, target,
                 after, lossy>>

\* What the runtime runs without being asked: a suspended promise resumes.
Resume(j) ==
  \/ EnterConnected(j) \/ EnterUnconnected(j)
  \/ Opened(j) \/ OpenFailed(j) \/ SetupFailed(j)
  \/ TestPassed(j) \/ TestFailed(j)
  \/ BodyEnd(j) \/ BodyReject(j)
  \/ Ended(j) \/ EndFailed(j)
  \/ Return(j) \/ Reject(j)
  \/ CloseNext(j) \/ CloseClear(j)

\* What a user of the library may or may not call.
Invoke(j) ==
  \/ StartFlow(j) \/ StartReuse(j) \/ CloseAll(j)
  \/ SessionCreate(j) \/ SessionConnect(j)
  \/ SessionDisconnect(j) \/ SessionRemove(j)

Next == \E j \in Caller : Resume(j) \/ Invoke(j)

\* Fairness: the event loop runs every continuation, the server answers and
\* callbacks return.  No caller is obliged to call.
Fairness == \A j \in Caller : WF_vars(Resume(j))

Spec == Init /\ [][Next]_vars
FairSpec == Spec /\ Fairness
-----------------------------------------------------------------------------
(***************************************************************************)
(* Properties                                                              *)
(***************************************************************************)

\* Explained: a connection the server holds and the driver no longer refers to
\* (nobody can end it) has one of five causes, and no other sequence of calls
\* by any number of callers loses one: connect() while another connect or
\* end() is in flight, connect() on a connected driver, a failed read-only
\* setting, a failed test, or a failed end().
Explained ==
  \A d \in Driver : lossy[d] = {} => live[d] \subseteq {con[d]}

\* Usable: outside those cases a driver that says isConnected has a connection
\* the server still holds, so a request made now does not meet a closed one.
Usable ==
  \A d \in Driver : lossy[d] = {} /\ isConnected[d] => con[d] \in live[d]

\* Held: a connected driver always has a caller that is using it or closing it,
\* in the registry or not: no flow leaves a driver connected behind it, also
\* when closeAll dropped it from the map meanwhile.
Held ==
  \A d \in Driver : isConnected[d] =>
    \E j \in Caller : drv[j] = d /\ pc[j] \in {"body", "open", "ending"}

\* RegistryExplained: a registered driver has a live caller, or its
\* flowTransaction rejected: removeDriver is not in a finally block, so only
\* that path leaves an entry behind.
RegistryExplained ==
  \A d \in driverMap : \E j \in Caller \ (Reuser \union Closer) :
    drv[j] = d /\ pc[j] # "done"

\* NothingLeftBehind: no connected driver and no entry without a caller.
NothingLeftBehind == Held /\ RegistryExplained

\* CloseAllCloses: when closeAll returns, every connection that a registered
\* driver had when it was called is gone, whatever callers did meanwhile, but
\* for the cases Explained lists, for a driver a Reuser shares (its owner may
\* take it out of the map before the iteration reaches it) and for what another
\* closeAll took from it: the first to finish clears the map of both, and due
\* loses the connections of the drivers the other had yet to visit.
CloseAllCloses ==
  \A j \in Closer : pc[j] = "done" =>
    \A c \in due[j] :
      \/ c[2] \notin live[c[1]]
      \/ lossy[c[1]] # {}
      \/ \E r \in Reuser : drv[r] = c[1]

\* FlowsSettle: a flow, transaction or closeAll once called comes to an end
\* whatever the others do.
FlowsSettle ==
  \A j \in Flow \union Closer :
    pc[j] # "idle" ~> pc[j] \in {"done", "rejected"}

\* FlowsClose: a connection opened on a driver that no session keeps open is
\* ended at last, but for the cases above.
FlowsClose ==
  \A d \in Driver :
    (live[d] # {} /\ \A j \in Session : drv[j] # d)
      ~> (live[d] = {} \/ lossy[d] # {})

\* FlowsEnd: both.
FlowsEnd == FlowsSettle /\ FlowsClose
=============================================================================
