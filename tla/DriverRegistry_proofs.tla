----------------------- MODULE DriverRegistry_proofs -----------------------
(***************************************************************************)
(* Proofs about the connections.  Of DriverRegistry, for any number of     *)
(* callers and drivers: typing, that a connection is lost only in the ways *)
(* lossy records (Explained), that a driver that says it is connected has  *)
(* a live connection otherwise (Usable), that a flow which is over has     *)
(* left nothing behind (NothingLeftBehind) and that closeAll ends every    *)
(* connection there was when it was called (CloseAllCloses).  Then, of     *)
(* AwsSession and IdentityProvider, for any services, panels and callers:  *)
(* that what their drivers keep is what the last connect made              *)
(* (SessionsExplained).                                                    *)
(***************************************************************************)
EXTENDS MC_Connections, Sequences, TLAPS

\* No caller is suspended inside connect() or closeSub on d other than j.
Alone(j, d) == \A k \in Caller : k # j /\ drv[k] = d =>
                 pc[k] \notin {"connecting", "testing", "ending"}

\* A caller that has begun works on a driver, and the connection it waits for
\* has a number.
Targets ==
  \A j \in Caller :
    /\ pc[j] \notin {"idle", "next", "done"} => drv[j] \in Driver
    /\ pc[j] \in {"connecting", "testing", "ending"} => target[j] # NoCon

Busy == {"connecting", "testing", "ending"}

\* What is true of a driver none of whose connections can be lost: it has at
\* most the one it refers to, has it when it says so, and has none when it
\* neither is connected nor being tested.  A caller inside connect() is alone
\* with it; who awaits end() awaits that of this.con, or there is none left.
Sound(d) ==
  lossy[d] = {} =>
    /\ live[d] \subseteq {con[d]}
    /\ isConnected[d] => con[d] \in live[d]
    /\ ~isConnected[d] /\ (\A j \in Caller : drv[j] = d => pc[j] # "testing")
         => live[d] = {}
    /\ \A j \in Caller : drv[j] = d =>
         /\ pc[j] \in {"connecting", "testing"} => Alone(j, d) /\ ~isConnected[d]
         /\ pc[j] = "connecting" => live[d] = {}
         /\ pc[j] = "testing" => con[d] = target[j] /\ con[d] \in live[d]
         /\ pc[j] = "ending" => target[j] = con[d] \/ live[d] = {}

IInv == TypeOK /\ Targets /\ \A d \in Driver : Sound(d)

(***************************************************************************)
(* What the registry adds to the drivers.                                  *)
(***************************************************************************)
\* The callers that create their driver.
Owner == Workflow \union Transaction \union Session

\* Who is where: only a closeAll iterates, a caller has a driver once it was
\* called, a driver has one owner, and only drivers that exist are connected.
Roles ==
  /\ \A j \in Closer : /\ pc[j] \in {"idle", "next", "ending", "done"}
                       /\ pc[j] = "ending" => after[j] = "next"
  /\ \A j \in Caller \ Closer : pc[j] # "next" /\ (pc[j] = "ending" => after[j] \notin {"next", "done"})
  /\ \A j \in Caller : drv[j] <= created /\ (pc[j] = "idle" => drv[j] = NoDriver)
  /\ \A j, k \in Owner : drv[j] = drv[k] => j = k \/ drv[j] = NoDriver
  /\ \A d \in Driver : created < d => ~isConnected[d] /\ d \notin driverMap

Shared(d) == \E r \in Reuser : drv[r] = d

\* The owner that is done with a driver nobody shares left it disconnected.
Quiet == {"closed", "settled", "rejecting", "rejected", "done"}

Left == \A j \in Owner : \A d \in Driver :
  drv[j] = d /\ pc[j] \in Quiet /\ ~Shared(d) => ~isConnected[d]

\* The connections of a driver are numbered, and one that was open when a
\* closeAll began is not the one connect() is about to open.
Opening(d, n) == \E k \in Caller :
  drv[k] = d /\ pc[k] \in {"connecting", "testing"} /\ target[k] = n

Numbered ==
  /\ \A d \in Driver : con[d] <= attempts[d]
  /\ \A j \in Caller : pc[j] \in Busy => target[j] <= attempts[drv[j]]

Dues ==
  /\ \A j \in Closer : \A c \in due[j] :
       c[2] <= attempts[c[1]] /\ (lossy[c[1]] = {} => ~Opening(c[1], c[2]))
  /\ \A j \in Caller : j \notin Closer \/ pc[j] = "idle" => due[j] = {}

\* What became of a connection that was open when closeAll j began.
Gone(d, n) ==
  n \notin live[d] \/ lossy[d] # {} \/ Shared(d)

\* Until it is gone, closeAll has yet to come to its driver, or is ending it.
Pending(j, d, n) ==
  \/ pc[j] \in {"next", "ending"} /\ d \in driverMap /\ drv[j] < d
  \/ pc[j] = "ending" /\ drv[j] = d /\ target[j] = n

Closing == \A j \in Closer : \A c \in due[j] :
             Gone(c[1], c[2]) \/ Pending(j, c[1], c[2])

RInv == IInv /\ Roles /\ Left /\ NothingLeftBehind /\ Numbered /\ Dues /\ Closing

-----------------------------------------------------------------------------
\* TypeOK is inductive on its own.
LEMMA Typing == Init => TypeOK
BY BoundsAssumption DEF Init, TypeOK, Label, After, NoDriver, NoCon, Driver

LEMMA Created ==
  ASSUME TypeOK, NEW j \in Caller, CreateDriver(j)
  PROVE  /\ created + 1 \in Driver
         /\ driverMap' \subseteq Driver
         /\ created' \in 0..MaxDriver
         /\ drv' \in [Caller -> Driver \union {NoDriver}]
<1>1. created + 1 \in Driver /\ created' \in 0..MaxDriver
  BY BoundsAssumption DEF TypeOK, CreateDriver, Driver
<1>2. driverMap' = driverMap \union {created + 1}
  BY DEF CreateDriver
<1>3. drv' = [drv EXCEPT ![j] = created + 1]
  BY DEF CreateDriver
<1> QED BY <1>1, <1>2, <1>3 DEF TypeOK

LEMMA Disconnecting ==
  ASSUME TypeOK, NEW j \in Caller, NEW d \in Driver, NEW next \in After,
         CallDisconnect(j, d, next)
  PROVE  /\ isConnected' \in [Driver -> BOOLEAN]
         /\ pc' \in [Caller -> Label]
         /\ target' \in [Caller -> Nat]
         /\ after' \in [Caller -> After]
<1>1. CASE isConnected[d] /\ con[d] # NoCon
  BY <1>1 DEF TypeOK, CallDisconnect, Goto, Label, After
<1>2. CASE ~(isConnected[d] /\ con[d] # NoCon)
  BY <1>2 DEF TypeOK, CallDisconnect, Goto, Label, After
<1> QED BY <1>1, <1>2

LEMMA TypingStep == TypeOK /\ Targets /\ [Next]_vars => TypeOK'
<1> SUFFICES ASSUME TypeOK, Targets, [Next]_vars PROVE TypeOK'
  OBVIOUS
<1> USE DEF TypeOK, Label, After, NoCon, NoDriver, Goto, Forget, Connection
<1>1. ASSUME NEW j \in Caller, Invoke(j) PROVE TypeOK'
  <2>1. CASE StartFlow(j)
    BY <2>1, Created DEF StartFlow
  <2>2. CASE StartReuse(j)
    BY <2>2 DEF StartReuse
  <2>3. CASE CloseAll(j)
    BY <2>3 DEF CloseAll
  <2>4. CASE SessionCreate(j)
    BY <2>4, Created DEF SessionCreate
  <2>5. CASE SessionConnect(j)
    BY <2>5 DEF SessionConnect, CallConnect, ConnectHazard, Targets
  <2>6. CASE SessionDisconnect(j)
    <3>1. drv[j] \in Driver /\ CallDisconnect(j, drv[j], "closed")
      BY <2>6 DEF SessionDisconnect, Targets
    <3> QED BY <2>6, <3>1, Disconnecting DEF SessionDisconnect
  <2>7. CASE SessionRemove(j)
    BY <2>7 DEF SessionRemove
  <2> QED BY <1>1, <2>1, <2>2, <2>3, <2>4, <2>5, <2>6, <2>7 DEF Invoke
<1>2. ASSUME NEW j \in Caller, Resume(j) PROVE TypeOK'
  <2>1. CASE EnterConnected(j)
    <3>1. drv[j] \in Driver /\ CallDisconnect(j, drv[j], "reconnect")
      BY <2>1 DEF EnterConnected, Targets
    <3> QED BY <2>1, <3>1, Disconnecting DEF EnterConnected
  <2>2. CASE EnterUnconnected(j)
    BY <2>2 DEF EnterUnconnected, CallConnect, ConnectHazard, Targets
  <2>3. CASE Opened(j)
    <3>1. drv[j] \in Driver /\ target[j] \in Nat \ {NoCon}
      BY <2>3 DEF Opened, Targets
    <3>2. live[drv[j]] \union {target[j]} \in SUBSET (Nat \ {NoCon})
      BY <3>1
    <3>3. live' \in [Driver -> SUBSET (Nat \ {NoCon})]
      BY <2>3, <3>1, <3>2 DEF Opened
    <3> QED BY <2>3, <3>1, <3>3 DEF Opened
  <2>4. CASE OpenFailed(j)
    BY <2>4 DEF OpenFailed, Unconnected
  <2>5. CASE SetupFailed(j)
    <3>1. drv[j] \in Driver /\ target[j] \in Nat \ {NoCon}
      BY <2>5 DEF SetupFailed, Targets
    <3>2. live[drv[j]] \union {target[j]} \in SUBSET (Nat \ {NoCon})
      BY <3>1
    <3>3. live' \in [Driver -> SUBSET (Nat \ {NoCon})]
      BY <2>5, <3>1, <3>2 DEF SetupFailed
    <3> QED BY <2>5, <3>1, <3>3 DEF SetupFailed, Unconnected
  <2>6. CASE TestPassed(j)
    BY <2>6 DEF TestPassed, Connected
  <2>7. CASE TestFailed(j)
    BY <2>7 DEF TestFailed, Unconnected
  <2>8. CASE BodyEnd(j)
    <3>1. drv[j] \in Driver /\ CallDisconnect(j, drv[j], "settled")
      BY <2>8 DEF BodyEnd, Targets
    <3> QED BY <2>8, <3>1, Disconnecting DEF BodyEnd
  <2>9. CASE BodyReject(j)
    <3>1. drv[j] \in Driver /\ CallDisconnect(j, drv[j], "rejecting")
      BY <2>9 DEF BodyReject, Targets
    <3> QED BY <2>9, <3>1, Disconnecting DEF BodyReject
  <2>10. CASE Ended(j)
    BY <2>10 DEF Ended
  <2>11. CASE EndFailed(j)
    BY <2>11 DEF EndFailed
  <2>12. CASE Return(j)
    BY <2>12 DEF Return
  <2>13. CASE Reject(j)
    BY <2>13 DEF Reject
  <2>14. CASE CloseNext(j)
    <3>1. NextEntry(j) \subseteq Driver
      BY DEF NextEntry, Unvisited
    <3>2. PICK d \in Driver : /\ drv' = [drv EXCEPT ![j] = d]
                             /\ CallDisconnect(j, d, "next")
      BY <2>14, <3>1 DEF CloseNext
    <3> QED BY <2>14, <3>2, Disconnecting DEF CloseNext
  <2>15. CASE CloseClear(j)
    BY <2>15 DEF CloseClear
  <2> QED BY <1>2, <2>1, <2>2, <2>3, <2>4, <2>5, <2>6, <2>7, <2>8, <2>9,
             <2>10, <2>11, <2>12, <2>13, <2>14, <2>15 DEF Resume
<1>3. CASE UNCHANGED vars
  BY <1>3 DEF vars
<1> QED BY <1>1, <1>2, <1>3 DEF Next
-----------------------------------------------------------------------------
LEMMA TargetsStep == TypeOK /\ Targets /\ [Next]_vars => Targets'
<1> SUFFICES ASSUME TypeOK, Targets, [Next]_vars PROVE Targets'
  OBVIOUS
<1> USE DEF TypeOK, Targets, Label, After, NoCon, NoDriver, Goto, Forget
<1>1. ASSUME NEW j \in Caller, Invoke(j) PROVE Targets'
  <2>1. CASE StartFlow(j)
    BY <2>1, Created DEF StartFlow, CreateDriver
  <2>2. CASE StartReuse(j)
    BY <2>2 DEF StartReuse
  <2>3. CASE CloseAll(j)
    BY <2>3 DEF CloseAll
  <2>4. CASE SessionCreate(j)
    BY <2>4, Created DEF SessionCreate, CreateDriver
  <2>5. CASE SessionConnect(j)
    BY <2>5 DEF SessionConnect, CallConnect
  <2>6. CASE SessionDisconnect(j)
    BY <2>6 DEF SessionDisconnect, CallDisconnect
  <2>7. CASE SessionRemove(j)
    BY <2>7 DEF SessionRemove
  <2> QED BY <1>1, <2>1, <2>2, <2>3, <2>4, <2>5, <2>6, <2>7 DEF Invoke
<1>2. ASSUME NEW j \in Caller, Resume(j) PROVE Targets'
  <2>1. CASE EnterConnected(j)
    BY <2>1 DEF EnterConnected, CallDisconnect
  <2>2. CASE EnterUnconnected(j)
    BY <2>2 DEF EnterUnconnected, CallConnect
  <2>3. CASE Opened(j)
    BY <2>3 DEF Opened
  <2>4. CASE OpenFailed(j)
    BY <2>4 DEF OpenFailed, Unconnected
  <2>5. CASE SetupFailed(j)
    BY <2>5 DEF SetupFailed, Unconnected
  <2>6. CASE TestPassed(j)
    BY <2>6 DEF TestPassed, Connected
  <2>7. CASE TestFailed(j)
    BY <2>7 DEF TestFailed, Unconnected
  <2>8. CASE BodyEnd(j)
    BY <2>8 DEF BodyEnd, CallDisconnect
  <2>9. CASE BodyReject(j)
    BY <2>9 DEF BodyReject, CallDisconnect
  <2>10. CASE Ended(j)
    BY <2>10 DEF Ended
  <2>11. CASE EndFailed(j)
    BY <2>11 DEF EndFailed
  <2>12. CASE Return(j)
    BY <2>12 DEF Return
  <2>13. CASE Reject(j)
    BY <2>13 DEF Reject
  <2>14. CASE CloseNext(j)
    BY <2>14 DEF CloseNext, NextEntry, Unvisited, CallDisconnect
  <2>15. CASE CloseClear(j)
    BY <2>15 DEF CloseClear
  <2> QED BY <1>2, <2>1, <2>2, <2>3, <2>4, <2>5, <2>6, <2>7, <2>8, <2>9,
             <2>10, <2>11, <2>12, <2>13, <2>14, <2>15 DEF Resume
<1>3. CASE UNCHANGED vars
  BY <1>3 DEF vars
<1> QED BY <1>1, <1>2, <1>3 DEF Next

\* A step that leaves a driver, and the callers suspended on it, alone.
LEMMA Frame ==
  ASSUME NEW d \in Driver, Sound(d),
         isConnected'[d] = isConnected[d], con'[d] = con[d],
         live'[d] = live[d], lossy'[d] = lossy[d],
         \A k \in Caller :
           \/ drv'[k] = drv[k] /\ pc'[k] = pc[k] /\ target'[k] = target[k]
           \/ /\ drv[k] = d => pc[k] \notin Busy
              /\ drv'[k] = d => pc'[k] \notin Busy
  PROVE  Sound(d)'
BY DEF Sound, Alone, Busy

\* Calling connect() keeps a driver sound: alone on a driver that is not
\* connected, or the call is recorded in lossy.
LEMMA ConnectSound ==
  ASSUME TypeOK, NEW j \in Caller, drv[j] \in Driver, pc[j] \notin Busy,
         CallConnect(j, drv[j]), UNCHANGED <<con, live, drv>>,
         NEW d \in Driver, Sound(d)
  PROVE  Sound(d)'
<1> USE DEF TypeOK, CallConnect, Goto
<1>1. CASE d # drv[j]
  BY <1>1, Frame
<1>2. CASE d = drv[j]
  <2> SUFFICES ASSUME lossy'[d] = {} PROVE Sound(d)'
    BY DEF Sound
  <2>1. lossy[d] = {} /\ InFlight(d) = {} /\ ~isConnected[d]
    BY <1>2 DEF ConnectHazard
  <2>2. \A k \in Caller : drv[k] = d => pc[k] \notin Busy
    BY <2>1 DEF InFlight, Busy
  <2>3. live[d] = {}
    BY <2>1, <2>2 DEF Sound, Busy
  <2>4. \A k \in Caller : k # j => pc'[k] = pc[k]
    OBVIOUS
  <2>5. pc'[j] = "connecting" /\ ~isConnected'[d] /\ live'[d] = {}
    BY <1>2, <2>3
  <2>6. \A k \in Caller : drv[k] = d /\ k # j => pc'[k] \notin Busy
    BY <2>2, <2>4
  <2> QED BY <2>5, <2>6 DEF Sound, Alone, Busy
<1> QED BY <1>1, <1>2

\* Calling disconnect() keeps a driver sound: it ends this.con, or finds that
\* the driver was not connected.  The caller may come from another driver.
LEMMA DisconnectSound ==
  ASSUME TypeOK, NEW j \in Caller, NEW e \in Driver, pc[j] \notin Busy,
         drv'[j] = e, \A k \in Caller : k # j => drv'[k] = drv[k],
         NEW next \in After, CallDisconnect(j, e, next),
         UNCHANGED <<con, live, lossy>>,
         NEW d \in Driver, Sound(d)
  PROVE  Sound(d)'
<1> USE DEF TypeOK, CallDisconnect, Goto, After
<1>1. CASE d # e
  BY <1>1, Frame DEF Busy
<1>2. CASE d = e /\ isConnected[d] /\ con[d] # NoCon
  <2>1. pc'[j] = "ending" /\ target'[j] = con[d]
    BY <1>2
  <2>2. \A k \in Caller : k # j => pc'[k] = pc[k] /\ target'[k] = target[k]
    BY <1>2
  <2>3. isConnected'[d] = isConnected[d]
    BY <1>2
  <2> QED BY <1>2, <2>1, <2>2, <2>3 DEF Sound, Alone, Busy
<1>3. CASE d = e /\ ~(isConnected[d] /\ con[d] # NoCon)
  <2> SUFFICES ASSUME lossy[d] = {} PROVE Sound(d)'
    BY DEF Sound
  <2>1. ~isConnected[d]
    BY <1>3 DEF Sound
  <2>2. isConnected'[d] = isConnected[d]
    <3>1. isConnected'[d] = FALSE
      BY <1>3
    <3>2. isConnected[d] = FALSE
      BY <2>1
    <3> QED BY <3>1, <3>2
  <2>3. pc'[j] \notin Busy
    BY <1>3 DEF Busy
  <2>4. \A k \in Caller : k # j => pc'[k] = pc[k] /\ target'[k] = target[k]
    BY <1>3
  <2> QED BY <2>2, <2>3, <2>4, Frame
<1> QED BY <1>1, <1>2, <1>3

-----------------------------------------------------------------------------
LEMMA SoundStep ==
  ASSUME IInv, [Next]_vars, NEW d \in Driver
  PROVE  Sound(d)'
<1>a. TypeOK /\ Targets /\ Sound(d)
  BY DEF IInv
<1> USE DEF TypeOK, Targets, Label, After, NoCon, NoDriver, Goto, Forget
<1>1. ASSUME NEW j \in Caller, Invoke(j) PROVE Sound(d)'
  <2>1. CASE StartFlow(j)
    BY <1>a, <2>1, Frame DEF StartFlow, CreateDriver, Busy
  <2>2. CASE StartReuse(j)
    BY <1>a, <2>2, Frame DEF StartReuse, Busy
  <2>3. CASE CloseAll(j)
    BY <1>a, <2>3, Frame DEF CloseAll, Busy
  <2>4. CASE SessionCreate(j)
    BY <1>a, <2>4, Frame DEF SessionCreate, CreateDriver, Busy
  <2>5. CASE SessionConnect(j)
    BY <1>a, <2>5, ConnectSound DEF SessionConnect, Busy
  <2>6. CASE SessionDisconnect(j)
    BY <1>a, <2>6, DisconnectSound DEF SessionDisconnect, Busy
  <2>7. CASE SessionRemove(j)
    BY <1>a, <2>7, Frame DEF SessionRemove, Busy
  <2> QED BY <1>1, <2>1, <2>2, <2>3, <2>4, <2>5, <2>6, <2>7 DEF Invoke
<1>2. ASSUME NEW j \in Caller, Resume(j) PROVE Sound(d)'
  <2>1. CASE EnterConnected(j)
    BY <1>a, <2>1, DisconnectSound DEF EnterConnected, Busy
  <2>2. CASE EnterUnconnected(j)
    BY <1>a, <2>2, ConnectSound DEF EnterUnconnected, Busy
  <2>3. CASE Opened(j)
    BY <1>a, <2>3, Frame DEF Opened, Sound, Alone, Busy
  <2>4. CASE OpenFailed(j)
    BY <1>a, <2>4, Frame DEF OpenFailed, Unconnected, Sound, Alone, Busy
  <2>5. CASE SetupFailed(j)
    <3>1. CASE d # drv[j]
      BY <1>a, <2>5, <3>1, Frame DEF SetupFailed, Unconnected, Busy
    <3>2. CASE d = drv[j]
      <4>1. "setupFailed" \in lossy'[d]
        BY <2>5, <3>2, <1>a DEF SetupFailed
      <4> QED BY <4>1 DEF Sound
    <3> QED BY <3>1, <3>2
  <2>6. CASE TestPassed(j)
    BY <1>a, <2>6, Frame DEF TestPassed, Connected, Sound, Alone, Busy
  <2>7. CASE TestFailed(j)
    <3>1. CASE d # drv[j]
      BY <1>a, <2>7, <3>1, Frame DEF TestFailed, Unconnected, Busy
    <3>2. CASE d = drv[j]
      <4>1. "testFailed" \in lossy'[d]
        BY <2>7, <3>2, <1>a DEF TestFailed
      <4> QED BY <4>1 DEF Sound
    <3> QED BY <3>1, <3>2
  <2>8. CASE BodyEnd(j)
    BY <1>a, <2>8, DisconnectSound DEF BodyEnd, Busy
  <2>9. CASE BodyReject(j)
    BY <1>a, <2>9, DisconnectSound DEF BodyReject, Busy
  <2>10. CASE Ended(j)
    BY <1>a, <2>10, Frame DEF Ended, Sound, Alone, Busy
  <2>11. CASE EndFailed(j)
    <3>1. CASE d # drv[j]
      BY <1>a, <2>11, <3>1, Frame DEF EndFailed, Busy
    <3>2. CASE d = drv[j] /\ target[j] \in live[d]
      <4>1. "endFailed" \in lossy'[d]
        BY <2>11, <3>2, <1>a DEF EndFailed
      <4> QED BY <4>1 DEF Sound
    <3>3. CASE d = drv[j] /\ target[j] \notin live[d]
      <4> SUFFICES ASSUME lossy[d] = {} PROVE Sound(d)'
        BY <1>a, <2>11, <3>3 DEF Sound, EndFailed
      <4>1. live[d] = {}
        BY <1>a, <2>11, <3>3 DEF EndFailed, Sound
      <4>2. \A k \in Caller : drv[k] = d => pc[k] \notin {"connecting", "testing"}
        BY <1>a, <2>11, <3>3 DEF EndFailed, Sound, Alone
      <4>3. /\ pc'[j] \notin Busy
            /\ \A k \in Caller : k # j => pc'[k] = pc[k]
        BY <1>a, <2>11 DEF EndFailed, Busy
      <4>4. ~isConnected'[d] /\ live'[d] = {} /\ drv' = drv
        BY <1>a, <2>11, <3>3, <4>1 DEF EndFailed
      <4> QED BY <4>2, <4>3, <4>4 DEF Sound, Alone, Busy
    <3> QED BY <3>1, <3>2, <3>3
  <2>12. CASE Return(j)
    BY <1>a, <2>12, Frame DEF Return, Busy
  <2>13. CASE Reject(j)
    BY <1>a, <2>13, Frame DEF Reject, Busy
  <2>14. CASE CloseNext(j)
    <3>1. PICK e \in Driver : /\ drv' = [drv EXCEPT ![j] = e]
                             /\ CallDisconnect(j, e, "next")
      BY <1>a, <2>14 DEF CloseNext, NextEntry, Unvisited
    <3> QED BY <1>a, <2>14, <3>1, DisconnectSound DEF CloseNext, Busy
  <2>15. CASE CloseClear(j)
    BY <1>a, <2>15, Frame DEF CloseClear, Busy
  <2> QED BY <1>2, <2>1, <2>2, <2>3, <2>4, <2>5, <2>6, <2>7, <2>8, <2>9,
             <2>10, <2>11, <2>12, <2>13, <2>14, <2>15 DEF Resume
<1>3. CASE UNCHANGED vars
  BY <1>a, <1>3, Frame DEF vars
<1> QED BY <1>1, <1>2, <1>3 DEF Next

THEOREM Inductive == Spec => []IInv
<1>1. Init => IInv
  BY Typing DEF Init, IInv, Targets, Sound, NoDriver, Driver, Alone
<1>2. IInv /\ [Next]_vars => IInv'
  BY TypingStep, TargetsStep, SoundStep DEF IInv
<1> QED BY <1>1, <1>2, PTL DEF Spec

\* Typing of the registry, for any callers and any number of drivers.
THEOREM TypeCorrect == Spec => []TypeOK
<1>1. IInv => TypeOK
  BY DEF IInv
<1> QED BY <1>1, Inductive, PTL

\* However many callers use however many drivers, shared or not, the server
\* holds a connection no driver refers to only after one of the five causes.
THEOREM LossExplained == Spec => []Explained
<1>1. IInv => Explained
  BY DEF IInv, Sound, Explained
<1> QED BY <1>1, Inductive, PTL

\* Outside those causes, isConnected means that the connection is live.
THEOREM ConnectedUsable == Spec => []Usable
<1>1. IInv => Usable
  BY DEF IInv, Sound, Usable
<1> QED BY <1>1, Inductive, PTL
-----------------------------------------------------------------------------
(***************************************************************************)
(* The registry: what closeAll and the flows leave of it.                  *)
(***************************************************************************)
\* The drivers of the registry are drivers that were created.
LEMMA RolesInit == Init => Roles
BY BoundsAssumption DEF Init, Roles, NoDriver, NoCon, Driver, Caller, Owner, Flow

LEMMA RolesStep == RInv /\ [Next]_vars => Roles'
<1> SUFFICES ASSUME RInv, [Next]_vars PROVE Roles'
  OBVIOUS
<1> USE RolesAssumption DEF TypeOK, Targets, Roles, Goto, Forget, Label, After, NoDriver, NoCon, Caller, Flow, Owner
<1>0. TypeOK /\ Targets /\ Roles /\ created \in Nat /\ (\A d \in Driver : d \in Nat /\ d # NoDriver)
  BY BoundsAssumption, SMTT(30) DEF RInv, IInv, TypeOK, Driver, NoDriver
<1>r. Owner \subseteq Caller /\ Closer \subseteq Caller /\ Owner \intersect Closer = {}
  BY DEF Owner, Caller, Flow
<1>1. ASSUME NEW j \in Caller, Invoke(j) PROVE Roles'
  <2>1. CASE StartFlow(j)
    BY <1>0, <2>1 DEF StartFlow, CreateDriver
  <2>2. CASE StartReuse(j)
    BY <1>0, <2>2 DEF StartReuse
  <2>3. CASE CloseAll(j)
    BY <1>0, <2>3 DEF CloseAll
  <2>4. CASE SessionCreate(j)
    BY <1>0, <2>4 DEF SessionCreate, CreateDriver
  <2>5. CASE SessionConnect(j)
    BY <1>0, <2>5 DEF SessionConnect, CallConnect
  <2>6. CASE SessionDisconnect(j)
    BY <1>0, <2>6 DEF SessionDisconnect, CallDisconnect
  <2>7. CASE SessionRemove(j)
    BY <1>0, <2>7 DEF SessionRemove
  <2> QED BY <1>1, <2>1, <2>2, <2>3, <2>4, <2>5, <2>6, <2>7 DEF Invoke
<1>2. ASSUME NEW j \in Caller, Resume(j) PROVE Roles'
  <2>1. CASE EnterConnected(j)
    BY <1>0, <2>1 DEF EnterConnected, CallDisconnect
  <2>2. CASE EnterUnconnected(j)
    BY <1>0, <2>2 DEF EnterUnconnected, CallConnect
  <2>3. CASE Opened(j)
    BY <1>0, <2>3 DEF Opened
  <2>4. CASE OpenFailed(j)
    BY <1>0, <2>4 DEF OpenFailed, Unconnected
  <2>5. CASE SetupFailed(j)
    BY <1>0, <2>5 DEF SetupFailed, Unconnected
  <2>6. CASE TestPassed(j)
    BY <1>0, <2>6 DEF TestPassed, Connected
  <2>7. CASE TestFailed(j)
    BY <1>0, <2>7 DEF TestFailed, Unconnected
  <2>8. CASE BodyEnd(j)
    BY <1>0, <2>8 DEF BodyEnd, CallDisconnect
  <2>9. CASE BodyReject(j)
    BY <1>0, <2>9 DEF BodyReject, CallDisconnect
  <2>10. CASE Ended(j)
    BY <1>0, <2>10 DEF Ended
  <2>11. CASE EndFailed(j)
    BY <1>0, <2>11 DEF EndFailed
  <2>12. CASE Return(j)
    BY <1>0, <2>12 DEF Return
  <2>13. CASE Reject(j)
    BY <1>0, <2>13 DEF Reject
  <2>14. CASE CloseNext(j)
    <3>1. PICK d \in driverMap : drv' = [drv EXCEPT ![j] = d] /\ CallDisconnect(j, d, "next")
      BY <2>14 DEF CloseNext, NextEntry, Unvisited
    <3> QED BY <1>0, <1>r, <2>14, <3>1 DEF CloseNext, CallDisconnect
  <2>15. CASE CloseClear(j)
    BY <1>0, <2>15 DEF CloseClear
  <2> QED BY <1>2, <2>1, <2>2, <2>3, <2>4, <2>5, <2>6, <2>7, <2>8, <2>9, <2>10, <2>11, <2>12, <2>13, <2>14, <2>15 DEF Resume
<1>3. CASE UNCHANGED vars
  BY <1>0, <1>3 DEF vars
<1> QED BY <1>1, <1>2, <1>3 DEF Next
LEMMA LeftInit == Init => Left
BY DEF Init, Left

LEMMA LeftStep == RInv /\ [Next]_vars => Left'
<1> SUFFICES ASSUME RInv, [Next]_vars PROVE Left'
  OBVIOUS
<1> USE RolesAssumption DEF TypeOK, Targets, Roles, Left, Shared, Quiet, Goto, Forget, Label, After, NoDriver
<1>0. TypeOK /\ Targets /\ Roles /\ Left /\ NothingLeftBehind /\ created \in Nat /\ (\A d \in Driver : d \in Nat /\ d # NoDriver)
  BY BoundsAssumption DEF RInv, IInv, TypeOK, Driver, NoDriver
<1>r. Owner \subseteq Caller /\ Closer \subseteq Caller /\ Owner \intersect Closer = {}
  BY DEF Owner, Caller, Flow
<1>1. ASSUME NEW j \in Caller, Invoke(j) PROVE Left'
  <2>1. CASE StartFlow(j)
    BY <1>0, <1>r, <2>1 DEF StartFlow, CreateDriver
  <2>2. CASE StartReuse(j)
    BY <1>0, <1>r, <2>2 DEF StartReuse
  <2>3. CASE CloseAll(j)
    BY <1>0, <1>r, <2>3 DEF CloseAll
  <2>4. CASE SessionCreate(j)
    BY <1>0, <1>r, <2>4 DEF SessionCreate, CreateDriver
  <2>5. CASE SessionConnect(j)
    BY <1>0, <1>r, <2>5 DEF SessionConnect, CallConnect
  <2>6. CASE SessionDisconnect(j)
    BY <1>0, <1>r, <2>6 DEF SessionDisconnect, CallDisconnect
  <2>7. CASE SessionRemove(j)
    BY <1>0, <1>r, <2>7 DEF SessionRemove
  <2> QED BY <1>1, <2>1, <2>2, <2>3, <2>4, <2>5, <2>6, <2>7 DEF Invoke
<1>2. ASSUME NEW j \in Caller, Resume(j) PROVE Left'
  <2>1. CASE EnterConnected(j)
    BY <1>0, <1>r, <2>1 DEF EnterConnected, CallDisconnect
  <2>2. CASE EnterUnconnected(j)
    BY <1>0, <1>r, <2>2 DEF EnterUnconnected, CallConnect
  <2>3. CASE Opened(j)
    BY <1>0, <1>r, <2>3 DEF Opened
  <2>4. CASE OpenFailed(j)
    BY <1>0, <1>r, <2>4 DEF OpenFailed, Unconnected
  <2>5. CASE SetupFailed(j)
    BY <1>0, <1>r, <2>5 DEF SetupFailed, Unconnected
  <2>6. CASE TestPassed(j)
    <3> SUFFICES ASSUME NEW i \in Owner, NEW d \in Driver, drv'[i] = d, pc'[i] \in Quiet,
                        ~Shared(d)'
                 PROVE  ~isConnected'[d]
      BY DEF Left
    <3>1. drv' = drv /\ i # j /\ pc'[i] = pc[i] /\ ~Shared(d)
      BY <1>0, <1>r, <2>6 DEF TestPassed, Connected
    <3>2. drv[j] # d
      <4>1. j \notin Closer /\ (j \notin Reuser \/ drv[j] # d)
        BY <1>0, <2>6, <3>1 DEF TestPassed
      <4>2. j \in Owner => drv[j] # d
        BY <1>0, <3>1
      <4> QED BY <4>1, <4>2 DEF Caller, Flow, Owner
    <3>3. isConnected'[d] = isConnected[d]
      BY <1>0, <2>6, <3>2 DEF TestPassed
    <3> QED BY <1>0, <3>1, <3>3
  <2>7. CASE TestFailed(j)
    BY <1>0, <1>r, <2>7 DEF TestFailed, Unconnected
  <2>8. CASE BodyEnd(j)
    BY <1>0, <1>r, <2>8 DEF BodyEnd, CallDisconnect
  <2>9. CASE BodyReject(j)
    BY <1>0, <1>r, <2>9 DEF BodyReject, CallDisconnect
  <2>10. CASE Ended(j)
    BY <1>0, <1>r, <2>10 DEF Ended
  <2>11. CASE EndFailed(j)
    BY <1>0, <1>r, <2>11 DEF EndFailed
  <2>12. CASE Return(j)
    BY <1>0, <1>r, <2>12 DEF Return
  <2>13. CASE Reject(j)
    BY <1>0, <1>r, <2>13 DEF Reject
  <2>14. CASE CloseNext(j)
    <3>1. PICK d \in driverMap : drv' = [drv EXCEPT ![j] = d] /\ CallDisconnect(j, d, "next")
      BY <2>14 DEF CloseNext, NextEntry, Unvisited
    <3>2. j \in Closer
      BY <1>0, <2>14 DEF CloseNext
    <3>3. \A k \in Caller : k # j => drv'[k] = drv[k] /\ pc'[k] = pc[k]
      BY <1>0, <3>1 DEF CallDisconnect
    <3>4. \A e \in Driver : isConnected'[e] => isConnected[e]
      BY <1>0, <3>1 DEF CallDisconnect
    <3>5. \A e \in Driver : Shared(e) => Shared(e)'
      BY <3>2, <3>3 DEF Caller, Flow
    <3>6. \A i \in Owner : drv'[i] = drv[i] /\ pc'[i] = pc[i]
      BY <1>r, <3>2, <3>3
    <3> QED BY <1>0, <3>4, <3>5, <3>6
  <2>15. CASE CloseClear(j)
    BY <1>0, <1>r, <2>15 DEF CloseClear
  <2> QED BY <1>2, <2>1, <2>2, <2>3, <2>4, <2>5, <2>6, <2>7, <2>8, <2>9, <2>10, <2>11, <2>12, <2>13, <2>14, <2>15 DEF Resume
<1>3. CASE UNCHANGED vars
  BY <1>0, <1>r, <1>3 DEF vars
<1> QED BY <1>1, <1>2, <1>3 DEF Next

LEMMA LeftBehindInit == Init => NothingLeftBehind
BY DEF Init, NothingLeftBehind, Held, RegistryExplained

LEMMA HeldStep == RInv /\ [Next]_vars => Held'
<1> SUFFICES ASSUME RInv, [Next]_vars PROVE Held'
  OBVIOUS
<1> USE RolesAssumption DEF TypeOK, Targets, Roles, Held, Goto, Forget, Label, After, NoDriver, NothingLeftBehind
<1>0. TypeOK /\ Targets /\ Roles /\ Left /\ NothingLeftBehind /\ created \in Nat /\ (\A d \in Driver : d \in Nat /\ d # NoDriver)
  BY BoundsAssumption DEF RInv, IInv, TypeOK, Driver, NoDriver
<1>r. Owner \subseteq Caller /\ Closer \subseteq Caller /\ Owner \intersect Closer = {}
  BY DEF Owner, Caller, Flow
<1>1. ASSUME NEW j \in Caller, Invoke(j) PROVE Held'
  <2>1. CASE StartFlow(j)
    BY <1>0, <2>1 DEF StartFlow, CreateDriver
  <2>2. CASE StartReuse(j)
    BY <1>0, <2>2 DEF StartReuse
  <2>3. CASE CloseAll(j)
    BY <1>0, <2>3 DEF CloseAll
  <2>4. CASE SessionCreate(j)
    BY <1>0, <2>4 DEF SessionCreate, CreateDriver
  <2>5. CASE SessionConnect(j)
    BY <1>0, <2>5 DEF SessionConnect, CallConnect
  <2>6. CASE SessionDisconnect(j)
    BY <1>0, <2>6 DEF SessionDisconnect, CallDisconnect
  <2>7. CASE SessionRemove(j)
    BY <1>0, <2>7 DEF SessionRemove
  <2> QED BY <1>1, <2>1, <2>2, <2>3, <2>4, <2>5, <2>6, <2>7 DEF Invoke
<1>2. ASSUME NEW j \in Caller, Resume(j) PROVE Held'
  <2>1. CASE EnterConnected(j)
    BY <1>0, <2>1 DEF EnterConnected, CallDisconnect
  <2>2. CASE EnterUnconnected(j)
    BY <1>0, <2>2 DEF EnterUnconnected, CallConnect
  <2>3. CASE Opened(j)
    BY <1>0, <2>3 DEF Opened
  <2>4. CASE OpenFailed(j)
    BY <1>0, <2>4 DEF OpenFailed, Unconnected
  <2>5. CASE SetupFailed(j)
    BY <1>0, <2>5 DEF SetupFailed, Unconnected
  <2>6. CASE TestPassed(j)
    BY <1>0, <2>6 DEF TestPassed, Connected
  <2>7. CASE TestFailed(j)
    BY <1>0, <2>7 DEF TestFailed, Unconnected
  <2>8. CASE BodyEnd(j)
    BY <1>0, <2>8 DEF BodyEnd, CallDisconnect
  <2>9. CASE BodyReject(j)
    BY <1>0, <2>9 DEF BodyReject, CallDisconnect
  <2>10. CASE Ended(j)
    BY <1>0, <2>10 DEF Ended
  <2>11. CASE EndFailed(j)
    BY <1>0, <2>11 DEF EndFailed
  <2>12. CASE Return(j)
    BY <1>0, <2>12 DEF Return
  <2>13. CASE Reject(j)
    BY <1>0, <2>13 DEF Reject
  <2>14. CASE CloseNext(j)
    <3>1. PICK d \in driverMap : drv' = [drv EXCEPT ![j] = d] /\ CallDisconnect(j, d, "next")
      BY <2>14 DEF CloseNext, NextEntry, Unvisited
    <3>2. pc[j] = "next"
      BY <2>14 DEF CloseNext
    <3>3. \A k \in Caller : k # j => drv'[k] = drv[k] /\ pc'[k] = pc[k]
      BY <1>0, <3>1 DEF CallDisconnect
    <3>4. \A e \in Driver : isConnected'[e] => isConnected[e]
      BY <1>0, <3>1 DEF CallDisconnect
    <3> QED BY <1>0, <3>2, <3>3, <3>4
  <2>15. CASE CloseClear(j)
    BY <1>0, <2>15 DEF CloseClear
  <2> QED BY <1>2, <2>1, <2>2, <2>3, <2>4, <2>5, <2>6, <2>7, <2>8, <2>9, <2>10, <2>11, <2>12, <2>13, <2>14, <2>15 DEF Resume
<1>3. CASE UNCHANGED vars
  BY <1>0, <1>3 DEF vars
<1> QED BY <1>1, <1>2, <1>3 DEF Next

LEMMA RegistryStep == RInv /\ [Next]_vars => RegistryExplained'
<1> SUFFICES ASSUME RInv, [Next]_vars PROVE RegistryExplained'
  OBVIOUS
<1> USE RolesAssumption DEF TypeOK, Targets, Roles, RegistryExplained, Goto, Forget, Label, After, NoDriver, NothingLeftBehind
<1>0. TypeOK /\ Targets /\ Roles /\ Left /\ NothingLeftBehind /\ created \in Nat /\ (\A d \in Driver : d \in Nat /\ d # NoDriver)
  BY BoundsAssumption DEF RInv, IInv, TypeOK, Driver, NoDriver
<1>r. Owner \subseteq Caller /\ Closer \subseteq Caller /\ Owner \intersect Closer = {}
  BY DEF Owner, Caller, Flow
<1>1. ASSUME NEW j \in Caller, Invoke(j) PROVE RegistryExplained'
  <2>1. CASE StartFlow(j)
    BY <1>0, <1>r, <2>1 DEF StartFlow, CreateDriver
  <2>2. CASE StartReuse(j)
    BY <1>0, <1>r, <2>2 DEF StartReuse
  <2>3. CASE CloseAll(j)
    BY <1>0, <1>r, <2>3 DEF CloseAll
  <2>4. CASE SessionCreate(j)
    BY <1>0, <1>r, <2>4 DEF SessionCreate, CreateDriver
  <2>5. CASE SessionConnect(j)
    BY <1>0, <1>r, <2>5 DEF SessionConnect, CallConnect
  <2>6. CASE SessionDisconnect(j)
    BY <1>0, <1>r, <2>6 DEF SessionDisconnect, CallDisconnect
  <2>7. CASE SessionRemove(j)
    BY <1>0, <1>r, <2>7 DEF SessionRemove
  <2> QED BY <1>1, <2>1, <2>2, <2>3, <2>4, <2>5, <2>6, <2>7 DEF Invoke
<1>2. ASSUME NEW j \in Caller, Resume(j) PROVE RegistryExplained'
  <2>1. CASE EnterConnected(j)
    BY <1>0, <1>r, <2>1 DEF EnterConnected, CallDisconnect
  <2>2. CASE EnterUnconnected(j)
    BY <1>0, <1>r, <2>2 DEF EnterUnconnected, CallConnect
  <2>3. CASE Opened(j)
    BY <1>0, <1>r, <2>3 DEF Opened
  <2>4. CASE OpenFailed(j)
    BY <1>0, <1>r, <2>4 DEF OpenFailed, Unconnected
  <2>5. CASE SetupFailed(j)
    BY <1>0, <1>r, <2>5 DEF SetupFailed, Unconnected
  <2>6. CASE TestPassed(j)
    BY <1>0, <1>r, <2>6 DEF TestPassed, Connected
  <2>7. CASE TestFailed(j)
    BY <1>0, <1>r, <2>7 DEF TestFailed, Unconnected
  <2>8. CASE BodyEnd(j)
    BY <1>0, <1>r, <2>8 DEF BodyEnd, CallDisconnect
  <2>9. CASE BodyReject(j)
    BY <1>0, <1>r, <2>9 DEF BodyReject, CallDisconnect
  <2>10. CASE Ended(j)
    BY <1>0, <1>r, <2>10 DEF Ended
  <2>11. CASE EndFailed(j)
    BY <1>0, <1>r, <2>11 DEF EndFailed
  <2>12. CASE Return(j)
    BY <1>0, <1>r, <2>12 DEF Return
  <2>13. CASE Reject(j)
    BY <1>0, <1>r, <2>13 DEF Reject
  <2>14. CASE CloseNext(j)
    <3>1. PICK d \in driverMap : drv' = [drv EXCEPT ![j] = d] /\ CallDisconnect(j, d, "next")
      BY <2>14 DEF CloseNext, NextEntry, Unvisited
    <3>2. j \in Closer /\ driverMap' = driverMap
      BY <1>0, <2>14 DEF CloseNext
    <3>3. \A k \in Caller : k # j => drv'[k] = drv[k] /\ pc'[k] = pc[k]
      BY <1>0, <3>1 DEF CallDisconnect
    <3> QED BY <1>0, <3>2, <3>3
  <2>15. CASE CloseClear(j)
    BY <1>0, <1>r, <2>15 DEF CloseClear
  <2> QED BY <1>2, <2>1, <2>2, <2>3, <2>4, <2>5, <2>6, <2>7, <2>8, <2>9, <2>10, <2>11, <2>12, <2>13, <2>14, <2>15 DEF Resume
<1>3. CASE UNCHANGED vars
  BY <1>0, <1>r, <1>3 DEF vars
<1> QED BY <1>1, <1>2, <1>3 DEF Next
LEMMA NumberedInit == Init => Numbered /\ Dues /\ Closing
<1> SUFFICES ASSUME Init PROVE Numbered /\ Dues /\ Closing
  OBVIOUS
<1>1. Numbered
  BY DEF Init, Numbered, NoCon, Busy
<1>2. \A j \in Caller : due[j] = {}
  BY DEF Init
<1> QED BY <1>1, <1>2 DEF Dues, Closing, Caller

LEMMA NumberedStep == RInv /\ [Next]_vars => Numbered'
<1> SUFFICES ASSUME RInv, [Next]_vars PROVE Numbered'
  OBVIOUS
<1> USE RolesAssumption DEF TypeOK, Targets, Goto, Forget, Label, After, NoDriver, NoCon, Busy, Numbered
<1>0. /\ TypeOK /\ Targets /\ Roles /\ Numbered /\ Dues /\ \A d \in Driver : Sound(d)
      /\ created \in Nat /\ (\A d \in Driver : d \in Nat /\ d # NoDriver)
  BY BoundsAssumption DEF RInv, IInv, TypeOK, Driver, NoDriver
<1>1. ASSUME NEW j \in Caller, Invoke(j) PROVE Numbered'
  <2>1. CASE StartFlow(j)
    BY <1>0, <2>1 DEF StartFlow, CreateDriver
  <2>2. CASE StartReuse(j)
    BY <1>0, <2>2 DEF StartReuse
  <2>3. CASE CloseAll(j)
    BY <1>0, <2>3 DEF CloseAll
  <2>4. CASE SessionCreate(j)
    BY <1>0, <2>4 DEF SessionCreate, CreateDriver
  <2>5. CASE SessionConnect(j)
    BY <1>0, <2>5 DEF SessionConnect, CallConnect
  <2>6. CASE SessionDisconnect(j)
    BY <1>0, <2>6 DEF SessionDisconnect, CallDisconnect
  <2>7. CASE SessionRemove(j)
    BY <1>0, <2>7 DEF SessionRemove
  <2> QED BY <1>1, <2>1, <2>2, <2>3, <2>4, <2>5, <2>6, <2>7 DEF Invoke
<1>2. ASSUME NEW j \in Caller, Resume(j) PROVE Numbered'
  <2>1. CASE EnterConnected(j)
    BY <1>0, <2>1 DEF EnterConnected, CallDisconnect
  <2>2. CASE EnterUnconnected(j)
    BY <1>0, <2>2 DEF EnterUnconnected, CallConnect
  <2>3. CASE Opened(j)
    BY <1>0, <2>3 DEF Opened
  <2>4. CASE OpenFailed(j)
    BY <1>0, <2>4 DEF OpenFailed, Unconnected
  <2>5. CASE SetupFailed(j)
    BY <1>0, <2>5 DEF SetupFailed, Unconnected
  <2>6. CASE TestPassed(j)
    BY <1>0, <2>6 DEF TestPassed, Connected
  <2>7. CASE TestFailed(j)
    BY <1>0, <2>7 DEF TestFailed, Unconnected
  <2>8. CASE BodyEnd(j)
    BY <1>0, <2>8 DEF BodyEnd, CallDisconnect
  <2>9. CASE BodyReject(j)
    BY <1>0, <2>9 DEF BodyReject, CallDisconnect
  <2>10. CASE Ended(j)
    BY <1>0, <2>10 DEF Ended
  <2>11. CASE EndFailed(j)
    BY <1>0, <2>11 DEF EndFailed
  <2>12. CASE Return(j)
    BY <1>0, <2>12 DEF Return
  <2>13. CASE Reject(j)
    BY <1>0, <2>13 DEF Reject
  <2>14. CASE CloseNext(j)
    <3>1. PICK d \in driverMap : drv' = [drv EXCEPT ![j] = d] /\ CallDisconnect(j, d, "next")
      BY <2>14 DEF CloseNext, NextEntry, Unvisited
    <3> QED BY <1>0, <2>14, <3>1 DEF CloseNext, CallDisconnect
  <2>15. CASE CloseClear(j)
    BY <1>0, <2>15 DEF CloseClear
  <2> QED BY <1>2, <2>1, <2>2, <2>3, <2>4, <2>5, <2>6, <2>7, <2>8, <2>9, <2>10, <2>11, <2>12, <2>13, <2>14, <2>15 DEF Resume
<1>3. CASE UNCHANGED vars
  BY <1>0, <1>3 DEF vars
<1> QED BY <1>1, <1>2, <1>3 DEF Next

\* Nobody's connection number is about to be opened again by these steps.
LEMMA FrameDues ==
  ASSUME TypeOK, Dues, attempts' = attempts,
         \A j \in Caller : due'[j] \subseteq due[j],
         \A d \in Driver : lossy[d] \subseteq lossy'[d],
         \A k \in Caller : pc'[k] \in {"connecting", "testing"} =>
           pc[k] \in {"connecting", "testing"} /\ drv'[k] = drv[k] /\ target'[k] = target[k],
         \A k \in Caller : pc'[k] = "idle" => pc[k] = "idle"
  PROVE  Dues'
<1>1. ASSUME NEW d \in Driver, NEW n \in Nat, Opening(d, n)' PROVE Opening(d, n)
  BY <1>1 DEF Opening
<1>2. ASSUME NEW j \in Closer, NEW c \in due'[j]
      PROVE  c[2] <= attempts'[c[1]] /\ (lossy'[c[1]] = {} => ~Opening(c[1], c[2])')
  <2>1. c \in due[j] /\ c[1] \in Driver /\ c[2] \in Nat
    BY DEF TypeOK, Connection, Caller
  <2>2. lossy'[c[1]] = {} => lossy[c[1]] = {}
    BY <2>1
  <2> QED BY <1>1, <2>1, <2>2 DEF Dues
<1>3. \A j \in Caller : j \notin Closer \/ pc'[j] = "idle" => due'[j] = {}
  BY DEF Dues
<1> QED BY <1>2, <1>3 DEF Dues

\* connect() opens a connection with a new number.
LEMMA CallDues ==
  ASSUME TypeOK, Dues, NEW j \in Caller, drv[j] \in Driver, CallConnect(j, drv[j]),
         drv' = drv, due' = due
  PROVE  Dues'
<1>0. /\ \A d \in Driver : attempts[d] \in Nat /\ attempts[d] <= attempts'[d]
      /\ target'[j] = attempts[drv[j]] + 1 /\ pc'[j] = "connecting"
      /\ \A k \in Caller \ {j} : pc'[k] = pc[k] /\ target'[k] = target[k]
      /\ \A d \in Driver : lossy[d] \subseteq lossy'[d]
  BY DEF CallConnect, Goto, TypeOK
<1>1. ASSUME NEW i \in Closer, NEW c \in due[i]
      PROVE  c[2] <= attempts'[c[1]] /\ (lossy'[c[1]] = {} => ~Opening(c[1], c[2])')
  <2>1. c[1] \in Driver /\ c[2] \in Nat /\ c[2] <= attempts[c[1]]
    BY DEF TypeOK, Connection, Caller, Dues
  <2>2. lossy'[c[1]] = {} => lossy[c[1]] = {}
    BY <1>0, <2>1
  <2>3. ASSUME NEW k \in Caller, drv[k] = c[1], pc'[k] \in {"connecting", "testing"},
               target'[k] = c[2], ~Opening(c[1], c[2])
        PROVE  FALSE
    <3>1. CASE k = j
      BY <1>0, <2>1, <2>3, <3>1
    <3>2. CASE k # j
      BY <1>0, <2>3, <3>2 DEF Opening
    <3> QED BY <3>1, <3>2
  <2>4. c[2] <= attempts'[c[1]]
    <3>1. attempts'[c[1]] \in Nat /\ attempts[c[1]] \in Nat
      BY <1>0, <2>1 DEF CallConnect, TypeOK
    <3> QED BY <1>0, <2>1, <3>1
  <2> QED BY <2>2, <2>3, <2>4 DEF Dues, Opening
<1>2. \A i \in Caller : i \notin Closer \/ pc'[i] = "idle" => due'[i] = {}
  BY <1>0 DEF Dues
<1> QED BY <1>1, <1>2 DEF Dues

LEMMA DuesStep == RInv /\ [Next]_vars => Dues'
<1> SUFFICES ASSUME RInv, [Next]_vars PROVE Dues'
  OBVIOUS
<1> USE RolesAssumption DEF TypeOK, Targets, Goto, Forget, Label, After, NoDriver, NoCon, Busy
<1>0. /\ TypeOK /\ Targets /\ Roles /\ Numbered /\ Dues /\ \A d \in Driver : Sound(d)
      /\ created \in Nat /\ (\A d \in Driver : d \in Nat /\ d # NoDriver)
  BY BoundsAssumption DEF RInv, IInv, TypeOK, Driver, NoDriver
<1>1. ASSUME NEW j \in Caller, Invoke(j) PROVE Dues'
  <2>1. CASE StartFlow(j)
    BY <1>0, <2>1, FrameDues DEF StartFlow, CreateDriver
  <2>2. CASE StartReuse(j)
    BY <1>0, <2>2, FrameDues DEF StartReuse
  <2>3. CASE CloseAll(j)
    <3> DEFINE owed == {<<d, con[d]>> : d \in {e \in driverMap : isConnected[e] /\ con[e] # NoCon}}
    <3>1. /\ j \in Closer /\ due' = [due EXCEPT ![j] = owed]
          /\ pc' = [pc EXCEPT ![j] = "next"]
          /\ UNCHANGED <<con, attempts, drv, target, lossy>>
      BY <2>3 DEF CloseAll
    <3>2. \A d \in Driver, n \in Nat : Opening(d, n)' => Opening(d, n)
      BY <1>0, <3>1 DEF Opening
    <3>3. ASSUME NEW i \in Closer, NEW c \in due'[i]
          PROVE  c[2] <= attempts[c[1]] /\ (lossy[c[1]] = {} => ~Opening(c[1], c[2])')
      <4>1. CASE i # j
        <5>1. c \in due[i] /\ c[1] \in Driver /\ c[2] \in Nat
          BY <1>0, <3>1, <3>3, <4>1 DEF Connection, Caller
        <5> QED BY <1>0, <3>2, <5>1 DEF Dues
      <4>2. CASE i = j
        <5>1. c \in owed
          BY <1>0, <3>1, <3>3, <4>2
        <5>2. c[1] \in Driver /\ c[2] = con[c[1]] /\ isConnected[c[1]]
          BY <1>0, <5>1
        <5>3. lossy[c[1]] = {} => ~Opening(c[1], c[2])
          BY <1>0, <5>2 DEF Sound, Opening
        <5> QED BY <1>0, <3>2, <5>2, <5>3 DEF Numbered
      <4> QED BY <4>1, <4>2
    <3>4. \A i \in Caller : i \notin Closer \/ pc'[i] = "idle" => due'[i] = {}
      BY <1>0, <3>1 DEF Dues
    <3> QED BY <3>1, <3>3, <3>4 DEF Dues
  <2>4. CASE SessionCreate(j)
    BY <1>0, <2>4, FrameDues DEF SessionCreate, CreateDriver
  <2>5. CASE SessionConnect(j)
    <3>1. /\ drv[j] \in Driver /\ drv' = drv /\ due' = due
          /\ CallConnect(j, drv[j])
      BY <1>0, <2>5 DEF SessionConnect
    <3> QED BY <1>0, <2>5, <3>1, CallDues DEF SessionConnect
  <2>6. CASE SessionDisconnect(j)
    BY <1>0, <2>6, FrameDues DEF SessionDisconnect, CallDisconnect
  <2>7. CASE SessionRemove(j)
    BY <1>0, <2>7, FrameDues DEF SessionRemove
  <2> QED BY <1>1, <2>1, <2>2, <2>3, <2>4, <2>5, <2>6, <2>7 DEF Invoke
<1>2. ASSUME NEW j \in Caller, Resume(j) PROVE Dues'
  <2>1. CASE EnterConnected(j)
    BY <1>0, <2>1, FrameDues DEF EnterConnected, CallDisconnect
  <2>2. CASE EnterUnconnected(j)
    <3>1. /\ drv[j] \in Driver /\ drv' = drv /\ due' = due
          /\ CallConnect(j, drv[j])
      BY <1>0, <2>2 DEF EnterUnconnected
    <3> QED BY <1>0, <2>2, <3>1, CallDues DEF EnterUnconnected
  <2>3. CASE Opened(j)
    BY <1>0, <2>3, FrameDues DEF Opened
  <2>4. CASE OpenFailed(j)
    BY <1>0, <2>4, FrameDues DEF OpenFailed, Unconnected
  <2>5. CASE SetupFailed(j)
    BY <1>0, <2>5, FrameDues DEF SetupFailed, Unconnected
  <2>6. CASE TestPassed(j)
    BY <1>0, <2>6, FrameDues DEF TestPassed, Connected
  <2>7. CASE TestFailed(j)
    BY <1>0, <2>7, FrameDues DEF TestFailed, Unconnected
  <2>8. CASE BodyEnd(j)
    BY <1>0, <2>8, FrameDues DEF BodyEnd, CallDisconnect
  <2>9. CASE BodyReject(j)
    BY <1>0, <2>9, FrameDues DEF BodyReject, CallDisconnect
  <2>10. CASE Ended(j)
    BY <1>0, <2>10, FrameDues DEF Ended
  <2>11. CASE EndFailed(j)
    BY <1>0, <2>11, FrameDues DEF EndFailed
  <2>12. CASE Return(j)
    BY <1>0, <2>12, FrameDues DEF Return
  <2>13. CASE Reject(j)
    BY <1>0, <2>13, FrameDues DEF Reject
  <2>14. CASE CloseNext(j)
    <3>1. PICK d \in driverMap : drv' = [drv EXCEPT ![j] = d] /\ CallDisconnect(j, d, "next")
      BY <2>14 DEF CloseNext, NextEntry, Unvisited
    <3> QED BY <1>0, <2>14, <3>1, FrameDues DEF CloseNext, CallDisconnect
  <2>15. CASE CloseClear(j)
    BY <1>0, <2>15, FrameDues DEF CloseClear
  <2> QED BY <1>2, <2>1, <2>2, <2>3, <2>4, <2>5, <2>6, <2>7, <2>8, <2>9, <2>10, <2>11, <2>12, <2>13, <2>14, <2>15 DEF Resume
<1>3. CASE UNCHANGED vars
  BY <1>0, <1>3, FrameDues DEF vars
<1> QED BY <1>1, <1>2, <1>3 DEF Next
\* What no step takes back: a cause, a sharer, and a lost connection.
Lasts ==
  \A d \in Driver : /\ lossy[d] \subseteq lossy'[d]
                    /\ Shared(d) => Shared(d)'
                    /\ \A n \in live'[d] : n \in live[d] \/ lossy'[d] # {} \/ Opening(d, n)

LEMMA LastingStep == RInv /\ [Next]_vars => Lasts
<1> SUFFICES ASSUME RInv, [Next]_vars PROVE Lasts
  OBVIOUS
<1> USE RolesAssumption DEF TypeOK, Targets, Goto, Forget, Label, After, NoDriver, NoCon, Busy, Roles, Lasts, Shared, Opening
<1>0. /\ TypeOK /\ Targets /\ Roles /\ Numbered /\ Dues /\ Left /\ Closing /\ \A d \in Driver : Sound(d)
      /\ created \in Nat /\ (\A d \in Driver : d \in Nat /\ d # NoDriver)
  BY BoundsAssumption DEF RInv, IInv, TypeOK, Driver, NoDriver
<1>r. Owner \subseteq Caller /\ Closer \subseteq Caller /\ Owner \intersect Closer = {} /\ Reuser \subseteq Caller
  BY DEF Owner, Caller, Flow
<1>1. ASSUME NEW j \in Caller, Invoke(j) PROVE Lasts
  <2>1. CASE StartFlow(j)
    BY <1>0, <1>r, <2>1 DEF StartFlow, CreateDriver
  <2>2. CASE StartReuse(j)
    BY <1>0, <1>r, <2>2 DEF StartReuse
  <2>3. CASE CloseAll(j)
    BY <1>0, <1>r, <2>3 DEF CloseAll
  <2>4. CASE SessionCreate(j)
    BY <1>0, <1>r, <2>4 DEF SessionCreate, CreateDriver
  <2>5. CASE SessionConnect(j)
    BY <1>0, <1>r, <2>5 DEF SessionConnect, CallConnect
  <2>6. CASE SessionDisconnect(j)
    BY <1>0, <1>r, <2>6 DEF SessionDisconnect, CallDisconnect
  <2>7. CASE SessionRemove(j)
    BY <1>0, <1>r, <2>7 DEF SessionRemove
  <2> QED BY <1>1, <2>1, <2>2, <2>3, <2>4, <2>5, <2>6, <2>7 DEF Invoke
<1>2. ASSUME NEW j \in Caller, Resume(j) PROVE Lasts
  <2>1. CASE EnterConnected(j)
    BY <1>0, <1>r, <2>1 DEF EnterConnected, CallDisconnect
  <2>2. CASE EnterUnconnected(j)
    BY <1>0, <1>r, <2>2 DEF EnterUnconnected, CallConnect
  <2>3. CASE Opened(j)
    BY <1>0, <1>r, <2>3 DEF Opened
  <2>4. CASE OpenFailed(j)
    BY <1>0, <1>r, <2>4 DEF OpenFailed, Unconnected
  <2>5. CASE SetupFailed(j)
    BY <1>0, <1>r, <2>5 DEF SetupFailed, Unconnected
  <2>6. CASE TestPassed(j)
    BY <1>0, <1>r, <2>6 DEF TestPassed, Connected
  <2>7. CASE TestFailed(j)
    BY <1>0, <1>r, <2>7 DEF TestFailed, Unconnected
  <2>8. CASE BodyEnd(j)
    BY <1>0, <1>r, <2>8 DEF BodyEnd, CallDisconnect
  <2>9. CASE BodyReject(j)
    BY <1>0, <1>r, <2>9 DEF BodyReject, CallDisconnect
  <2>10. CASE Ended(j)
    BY <1>0, <1>r, <2>10 DEF Ended
  <2>11. CASE EndFailed(j)
    BY <1>0, <1>r, <2>11 DEF EndFailed
  <2>12. CASE Return(j)
    BY <1>0, <1>r, <2>12 DEF Return
  <2>13. CASE Reject(j)
    BY <1>0, <1>r, <2>13 DEF Reject
  <2>14. CASE CloseNext(j)
    <3>1. PICK d \in driverMap : drv' = [drv EXCEPT ![j] = d] /\ CallDisconnect(j, d, "next")
      BY <2>14 DEF CloseNext, NextEntry, Unvisited
    <3>2. j \in Closer /\ j \notin Reuser /\ pc[j] = "next" /\ UNCHANGED <<lossy, live>>
      BY <1>0, <2>14 DEF CloseNext
    <3>3. \A k \in Caller : k # j => drv'[k] = drv[k] /\ pc'[k] = pc[k]
      BY <1>0, <3>1 DEF CallDisconnect
    <3>4. \A e \in Driver : Shared(e) => Shared(e)'
      BY <3>2, <3>3 DEF Caller, Flow
    <3> QED BY <1>0, <1>r, <3>2, <3>3, <3>4
  <2>15. CASE CloseClear(j)
    BY <1>0, <1>r, <2>15 DEF CloseClear
  <2> QED BY <1>2, <2>1, <2>2, <2>3, <2>4, <2>5, <2>6, <2>7, <2>8, <2>9, <2>10, <2>11, <2>12, <2>13, <2>14, <2>15 DEF Resume
<1>3. CASE UNCHANGED vars
  BY <1>0, <1>r, <1>3 DEF vars
<1> QED BY <1>1, <1>2, <1>3 DEF Next
LEMMA ClosingStep == RInv /\ [Next]_vars => Closing'
<1> SUFFICES ASSUME RInv, [Next]_vars PROVE Closing'
  OBVIOUS
<1> USE RolesAssumption DEF TypeOK, Targets, Goto, Forget, Label, After, NoDriver, NoCon, Busy, Roles
<1>0. /\ TypeOK /\ Targets /\ Roles /\ Numbered /\ Dues /\ Left /\ Closing /\ \A d \in Driver : Sound(d)
      /\ created \in Nat /\ (\A d \in Driver : d \in Nat /\ d # NoDriver)
  BY BoundsAssumption DEF RInv, IInv, TypeOK, Driver, NoDriver
<1>r. Owner \subseteq Caller /\ Closer \subseteq Caller /\ Owner \intersect Closer = {} /\ Reuser \subseteq Caller
  BY DEF Owner, Caller, Flow
<1>m. ASSUME NEW i \in Closer, NEW c \in due[i], ~Gone(c[1], c[2])'
      PROVE  /\ Pending(i, c[1], c[2]) /\ c[1] \in Driver /\ c[2] \in live[c[1]]
             /\ lossy[c[1]] = {} /\ lossy'[c[1]] = {} /\ ~Shared(c[1])
  <2>1. c[1] \in Driver /\ c[2] \in Nat
    BY <1>0, <1>r DEF Connection
  <2>2. Lasts
    BY LastingStep
  <2>3. c[2] \in live'[c[1]] /\ lossy'[c[1]] = {} /\ ~Shared(c[1])'
    BY <1>m DEF Gone
  <2>4. lossy[c[1]] = {} /\ ~Shared(c[1])
    BY <2>1, <2>2, <2>3 DEF Lasts
  <2>5. c[2] \in live[c[1]]
    BY <1>0, <2>1, <2>2, <2>3, <2>4 DEF Lasts, Dues
  <2>6. ~Gone(c[1], c[2])
    BY <2>2, <2>3, <2>4, <2>5 DEF Gone, Lasts
  <2> QED BY <1>0, <2>1, <2>3, <2>4, <2>5, <2>6 DEF Closing
<1>1. ASSUME NEW j \in Caller, Invoke(j) PROVE Closing'
  <2>1. CASE StartFlow(j)
    BY <1>0, <1>r, <1>m, <2>1 DEF Closing, Pending, StartFlow, CreateDriver
  <2>2. CASE StartReuse(j)
    BY <1>0, <1>r, <1>m, <2>2 DEF Closing, Pending, StartReuse
  <2>3. CASE CloseAll(j)
    <3> SUFFICES ASSUME NEW i \in Closer, NEW c \in due'[i], ~Gone(c[1], c[2])'
                 PROVE  Pending(i, c[1], c[2])'
      BY DEF Closing
    <3>1. /\ pc[j] = "idle" /\ pc' = [pc EXCEPT ![j] = "next"]
          /\ UNCHANGED <<driverMap, drv, target>>
          /\ due' = [due EXCEPT ![j] =
                {<<d, con[d]>> : d \in {e \in driverMap : isConnected[e] /\ con[e] # NoCon}}]
      BY <2>3 DEF CloseAll
    <3>2. CASE i # j
      <4>1. c \in due[i] /\ pc'[i] = pc[i]
        BY <1>0, <1>r, <3>1, <3>2
      <4>2. Pending(i, c[1], c[2])
        BY <1>m, <4>1
      <4> QED BY <3>1, <4>1, <4>2 DEF Pending
    <3>3. CASE i = j
      <4>1. c[1] \in driverMap
        BY <1>0, <1>r, <3>1, <3>3
      <4>2. drv[j] = NoDriver /\ pc'[j] = "next" /\ c[1] \in Driver
        BY <1>0, <3>1, <4>1 DEF Roles
      <4>3. drv[j] < c[1]
        BY <1>0, <4>2 DEF Driver
      <4> QED BY <3>1, <3>3, <4>1, <4>2, <4>3 DEF Pending
    <3> QED BY <3>2, <3>3
  <2>4. CASE SessionCreate(j)
    BY <1>0, <1>r, <1>m, <2>4 DEF Closing, Pending, SessionCreate, CreateDriver
  <2>5. CASE SessionConnect(j)
    BY <1>0, <1>r, <1>m, <2>5 DEF Closing, Pending, SessionConnect, CallConnect
  <2>6. CASE SessionDisconnect(j)
    BY <1>0, <1>r, <1>m, <2>6 DEF Closing, Pending, SessionDisconnect, CallDisconnect
  <2>7. CASE SessionRemove(j)
    <3> SUFFICES ASSUME NEW i \in Closer, NEW c \in due[i], ~Gone(c[1], c[2])'
                 PROVE  Pending(i, c[1], c[2])'
      BY <2>7 DEF SessionRemove, Closing
    <3>1. /\ Pending(i, c[1], c[2]) /\ c[1] \in Driver /\ c[2] \in live[c[1]]
          /\ lossy[c[1]] = {} /\ ~Shared(c[1])
      BY <1>m
    <3>2. i # j /\ pc'[i] = pc[i] /\ drv' = drv /\ target' = target
      BY <1>0, <1>r, <2>7 DEF SessionRemove
    <3>3. CASE drv[j] # c[1] \/ driverMap' = driverMap
      BY <1>0, <2>7, <3>1, <3>2, <3>3 DEF SessionRemove, Pending
    <3>4. CASE drv[j] = c[1] /\ j \in Owner
      <4>1. ~isConnected[c[1]]
        BY <1>0, <2>7, <3>1, <3>4 DEF SessionRemove, Left, Quiet
      <4>2. \A k \in Caller : drv[k] = c[1] => pc[k] # "testing"
        <5> SUFFICES ASSUME NEW k \in Caller, drv[k] = c[1], pc[k] = "testing" PROVE FALSE
          OBVIOUS
        <5>1. k \notin Closer /\ k \notin Reuser
          BY <1>0, <3>1 DEF Roles, Shared
        <5>2. k = j
          BY <1>0, <3>1, <3>4, <5>1 DEF Roles, Caller, Flow, Owner
        <5> QED BY <2>7, <5>2 DEF SessionRemove
      <4> QED BY <1>0, <3>1, <4>1, <4>2 DEF Sound
    <3> QED BY <2>7, <3>3, <3>4 DEF SessionRemove, Flow, Owner
  <2> QED BY <1>1, <2>1, <2>2, <2>3, <2>4, <2>5, <2>6, <2>7 DEF Invoke
<1>2. ASSUME NEW j \in Caller, Resume(j) PROVE Closing'
  <2>1. CASE EnterConnected(j)
    BY <1>0, <1>r, <1>m, <2>1 DEF Closing, Pending, EnterConnected, CallDisconnect
  <2>2. CASE EnterUnconnected(j)
    BY <1>0, <1>r, <1>m, <2>2 DEF Closing, Pending, EnterUnconnected, CallConnect
  <2>3. CASE Opened(j)
    BY <1>0, <1>r, <1>m, <2>3 DEF Closing, Pending, Opened
  <2>4. CASE OpenFailed(j)
    BY <1>0, <1>r, <1>m, <2>4 DEF Closing, Pending, OpenFailed, Unconnected
  <2>5. CASE SetupFailed(j)
    BY <1>0, <1>r, <1>m, <2>5 DEF Closing, Pending, SetupFailed, Unconnected
  <2>6. CASE TestPassed(j)
    BY <1>0, <1>r, <1>m, <2>6 DEF Closing, Pending, TestPassed, Connected
  <2>7. CASE TestFailed(j)
    BY <1>0, <1>r, <1>m, <2>7 DEF Closing, Pending, TestFailed, Unconnected
  <2>8. CASE BodyEnd(j)
    BY <1>0, <1>r, <1>m, <2>8 DEF Closing, Pending, BodyEnd, CallDisconnect
  <2>9. CASE BodyReject(j)
    BY <1>0, <1>r, <1>m, <2>9 DEF Closing, Pending, BodyReject, CallDisconnect
  <2>10. CASE Ended(j)
    <3> SUFFICES ASSUME NEW i \in Closer, NEW c \in due[i], ~Gone(c[1], c[2])'
                 PROVE  Pending(i, c[1], c[2])'
      BY <2>10 DEF Ended, Closing
    <3>1. /\ Pending(i, c[1], c[2]) /\ c[1] \in Driver /\ c[2] \in live[c[1]]
          /\ lossy'[c[1]] = {}
      BY <1>m
    <3>2. /\ pc[j] = "ending" /\ drv' = drv /\ driverMap' = driverMap
          /\ \A k \in Caller : k # j => pc'[k] = pc[k] /\ target'[k] = target[k]
      BY <1>0, <2>10 DEF Ended
    <3>3. CASE i # j
      BY <1>r, <3>1, <3>2, <3>3 DEF Pending
    <3>4. CASE i = j
      <4>1. pc'[j] = "next"
        BY <1>0, <2>10, <3>4 DEF Ended, Roles
      <4>2. ~(drv[j] = c[1] /\ target[j] = c[2])
        BY <1>0, <2>10, <3>1, <3>4, <1>m DEF Ended, Gone
      <4> QED BY <3>1, <3>2, <3>4, <4>1, <4>2 DEF Pending
    <3> QED BY <3>3, <3>4
  <2>11. CASE EndFailed(j)
    <3> SUFFICES ASSUME NEW i \in Closer, NEW c \in due[i], ~Gone(c[1], c[2])'
                 PROVE  Pending(i, c[1], c[2])'
      BY <2>11 DEF EndFailed, Closing
    <3>1. /\ Pending(i, c[1], c[2]) /\ c[1] \in Driver /\ c[2] \in live[c[1]]
          /\ lossy'[c[1]] = {}
      BY <1>m
    <3>2. /\ pc[j] = "ending" /\ drv' = drv /\ driverMap' = driverMap
          /\ \A k \in Caller : k # j => pc'[k] = pc[k] /\ target'[k] = target[k]
      BY <1>0, <2>11 DEF EndFailed
    <3>3. CASE i # j
      BY <1>r, <3>1, <3>2, <3>3 DEF Pending
    <3>4. CASE i = j
      <4>1. pc'[j] = "next"
        BY <1>0, <2>11, <3>4 DEF EndFailed, Roles
      <4>2. ~(drv[j] = c[1] /\ target[j] = c[2])
        BY <1>0, <2>11, <3>1, <3>4, <1>m DEF EndFailed, Gone
      <4> QED BY <3>1, <3>2, <3>4, <4>1, <4>2 DEF Pending
    <3> QED BY <3>3, <3>4
  <2>12. CASE Return(j)
    <3> SUFFICES ASSUME NEW i \in Closer, NEW c \in due[i], ~Gone(c[1], c[2])'
                 PROVE  Pending(i, c[1], c[2])'
      BY <2>12 DEF Return, Closing
    <3>1. /\ Pending(i, c[1], c[2]) /\ c[1] \in Driver /\ c[2] \in live[c[1]]
          /\ lossy[c[1]] = {} /\ ~Shared(c[1])
      BY <1>m
    <3>2. i # j /\ pc'[i] = pc[i] /\ drv' = drv /\ target' = target
      BY <1>0, <1>r, <2>12 DEF Return
    <3>3. CASE drv[j] # c[1] \/ driverMap' = driverMap
      BY <1>0, <2>12, <3>1, <3>2, <3>3 DEF Return, Pending
    <3>4. CASE drv[j] = c[1] /\ j \in Owner
      <4>1. ~isConnected[c[1]]
        BY <1>0, <2>12, <3>1, <3>4 DEF Return, Left, Quiet
      <4>2. \A k \in Caller : drv[k] = c[1] => pc[k] # "testing"
        <5> SUFFICES ASSUME NEW k \in Caller, drv[k] = c[1], pc[k] = "testing" PROVE FALSE
          OBVIOUS
        <5>1. k \notin Closer /\ k \notin Reuser
          BY <1>0, <3>1 DEF Roles, Shared
        <5>2. k = j
          BY <1>0, <3>1, <3>4, <5>1 DEF Roles, Caller, Flow, Owner
        <5> QED BY <2>12, <5>2 DEF Return
      <4> QED BY <1>0, <3>1, <4>1, <4>2 DEF Sound
    <3> QED BY <2>12, <3>3, <3>4 DEF Return, Flow, Owner
  <2>13. CASE Reject(j)
    BY <1>0, <1>r, <1>m, <2>13 DEF Closing, Pending, Reject
  <2>14. CASE CloseNext(j)
    <3>1. PICK d \in driverMap : drv' = [drv EXCEPT ![j] = d] /\ CallDisconnect(j, d, "next")
      BY <2>14 DEF CloseNext, NextEntry, Unvisited
    <3> SUFFICES ASSUME NEW i \in Closer, NEW c \in due[i], ~Gone(c[1], c[2])'
                 PROVE  Pending(i, c[1], c[2])'
      BY <2>14 DEF CloseNext, Closing
    <3>2. /\ Pending(i, c[1], c[2]) /\ c[1] \in Driver /\ c[2] \in live[c[1]]
          /\ lossy[c[1]] = {} /\ ~Shared(c[1])
      BY <1>m
    <3>3. pc[j] = "next" /\ driverMap' = driverMap
      BY <2>14 DEF CloseNext
    <3>4. CASE i # j
      BY <1>0, <1>r, <3>1, <3>2, <3>3, <3>4 DEF CallDisconnect, Pending
    <3>5. CASE i = j
      <4>1. c[1] \in driverMap /\ drv[j] < c[1]
        BY <3>2, <3>3, <3>5 DEF Pending
      <4>2. PICK e \in NextEntry(j) : drv' = [drv EXCEPT ![j] = e] /\ CallDisconnect(j, e, "next")
        BY <2>14 DEF CloseNext
      <4>3. e \in Driver /\ e <= c[1] /\ drv'[j] = e
        BY <1>0, <4>1, <4>2 DEF NextEntry, Unvisited
      <4>4. pc'[j] \in {"next", "ending"}
        BY <1>0, <4>2 DEF CallDisconnect
      <4>5. CASE e # c[1]
        BY <1>0, <3>3, <3>5, <4>1, <4>3, <4>4, <4>5 DEF Pending
      <4>6. CASE e = c[1]
        <5>1. con[e] = c[2] /\ con[e] # NoCon
          BY <1>0, <3>2, <4>3, <4>6 DEF Sound
        <5>2. \A k \in Caller : drv[k] = e => pc[k] # "testing"
          <6> SUFFICES ASSUME NEW k \in Caller, drv[k] = e, pc[k] = "testing" PROVE FALSE
            OBVIOUS
          <6>1. target[k] = c[2]
            BY <1>0, <3>2, <4>3, <4>6, <5>1 DEF Sound
          <6> QED BY <1>0, <3>2, <4>6, <6>1 DEF Dues, Opening
        <5>3. isConnected[e]
          BY <1>0, <3>2, <4>3, <4>6, <5>2 DEF Sound
        <5>4. pc'[j] = "ending" /\ target'[j] = c[2]
          BY <1>0, <4>2, <5>1, <5>3 DEF CallDisconnect
        <5> QED BY <3>5, <4>3, <4>6, <5>4 DEF Pending
      <4> QED BY <4>5, <4>6
    <3> QED BY <3>4, <3>5
  <2>15. CASE CloseClear(j)
    <3> SUFFICES ASSUME NEW i \in Closer, NEW c \in due'[i], ~Gone(c[1], c[2])'
                 PROVE  Pending(i, c[1], c[2])'
      BY DEF Closing
    <3>1. /\ pc[j] = "next" /\ pc'[j] = "done" /\ drv' = drv /\ target' = target
          /\ \A k \in Caller : k # j => pc'[k] = pc[k]
      BY <1>0, <2>15 DEF CloseClear
    <3>2. Unvisited(j) = {}
      BY <2>15 DEF CloseClear
    <3>3. c \in due[i] /\ (pc[i] # "done" => c[1] \notin Unvisited(i))
      BY <1>r, <2>15 DEF CloseClear
    <3>4. Pending(i, c[1], c[2]) /\ c[1] \in Driver
      BY <1>m, <3>3
    <3>5. pc[i] = "ending" /\ drv[i] = c[1] /\ target[i] = c[2]
      BY <1>0, <1>r, <3>3, <3>4 DEF Pending, Unvisited
    <3> QED BY <1>r, <3>1, <3>5 DEF Pending
  <2> QED BY <1>2, <2>1, <2>2, <2>3, <2>4, <2>5, <2>6, <2>7, <2>8, <2>9, <2>10, <2>11, <2>12, <2>13, <2>14, <2>15 DEF Resume
<1>3. CASE UNCHANGED vars
  BY <1>0, <1>m, <1>3 DEF Closing, Pending, vars
<1> QED BY <1>1, <1>2, <1>3 DEF Next

THEOREM RegistryInductive == Spec => []RInv
<1>1. Init => RInv
  <2>1. Init => IInv
    BY Typing DEF Init, IInv, Targets, Sound, NoDriver, Driver, Alone
  <2> QED BY <2>1, RolesInit, LeftInit, LeftBehindInit, NumberedInit DEF RInv
<1>2. RInv /\ [Next]_vars => RInv'
  <2>1. IInv /\ [Next]_vars => IInv'
    BY TypingStep, TargetsStep, SoundStep DEF IInv
  <2> QED BY <2>1, RolesStep, LeftStep, HeldStep, RegistryStep, NumberedStep, DuesStep,
             ClosingStep DEF RInv, NothingLeftBehind
<1> QED BY <1>1, <1>2, PTL DEF Spec

\* However many callers there are, no connected driver is without a caller that
\* uses or closes it, and no driver stays registered but those of the callers
\* at work and of a flowTransaction that rejected (flow, flowTransaction).
THEOREM NoneLeftBehind == Spec => []NothingLeftBehind
<1>1. RInv => NothingLeftBehind
  BY DEF RInv
<1> QED BY <1>1, RegistryInductive, PTL

\* When closeAll returns, what was connected when it was called is closed, but
\* for the cases the property names (closeAll iterates over a map that others
\* change between its awaits).
THEOREM AllClosed == Spec => []CloseAllCloses
<1>1. ASSUME RInv PROVE CloseAllCloses
  <2> SUFFICES ASSUME NEW j \in Closer, pc[j] = "done", NEW c \in due[j]
               PROVE  Gone(c[1], c[2])
    BY DEF CloseAllCloses, Gone, Shared
  <2> QED BY <1>1 DEF RInv, Closing, Pending
<1> QED BY <1>1, RegistryInductive, PTL

-----------------------------------------------------------------------------
(***************************************************************************)
(* AwsSession.  The numbers of the SDK clients tell them apart: a field    *)
(* has the number of the connect that set it, a user the one of what it is *)
(* making.  As long as nothing has made the history confused, one user at  *)
(* a time is at a connect or disconnect, so that what is open of a service *)
(* is what the users hold and, when the driver is connected, what the      *)
(* fields hold.                                                            *)
(***************************************************************************)

\* Where a user of an AWS driver waits; connects and disconnects are busy.
Waits  == {"idle", "region", "connecting", "closing", "testing"}
AtWork == {"region", "connecting", "closing"}
Making == {"region", "connecting", "testing"}

\* An SDK client is of a service, of a panel or of the region.
Keys == Selected \union Endpoints \union {"region"}

\* The types the proofs need; what has a number was made.
AwsType ==
  /\ field = [s \in Selected |-> field[s]] /\ \A s \in Selected : field[s] \in 0 .. made
  /\ panels = [e \in Endpoints |-> panels[e]] /\ \A e \in Endpoints : panels[e] \in Nat
  /\ made \in Nat /\ provider \in 0 .. made
  /\ provider # 0 => "DynamoDB" \in Selected
  /\ awaits = [u \in Users |-> awaits[u]] /\ todo = [u \in Users |-> todo[u]]
  /\ mine = [u \in Users |-> mine[u]] /\ failed = [u \in Users |-> failed[u]]
  /\ \A u \in Users :
       /\ awaits[u] \in Waits /\ mine[u] \in 0 .. made
       /\ awaits[u] \in {"connecting", "testing"} => todo[u] \subseteq Selected
       /\ awaits[u] = "testing" => todo[u] # {}
       /\ awaits[u] = "closing" => \A c \in todo[u] : \E s \in Selected, n \in Nat : c = <<s, n>>
  /\ \A c \in open : \E k \in Keys, n \in Nat : c = <<k, n>>

\* The clients of panels and of the region, whatever the services do.
AwsPanels ==
  /\ \A e \in Endpoints, n \in Nat : <<e, n>> \in open <=> n # 0 /\ n = panels[e]
  /\ <<"region", 0>> \in open <=> region = "asked"
  /\ ~confused /\ ~offline => up \/ \A e \in Endpoints : panels[e] = 0

\* One user at a time connects or disconnects, and every client that is being made has a
\* number of its own.
AwsCalls ==
  \A u \in Users :
    /\ awaits[u] \in AtWork => \A v \in Users : awaits[v] \in AtWork => v = u
    /\ ~failed[u]
    /\ awaits[u] \in {"region", "connecting"} => ~up
    /\ awaits[u] = "closing" => up
    /\ awaits[u] \in Making =>
         /\ mine[u] # 0
         /\ \A v \in Users : awaits[v] \in Making /\ mine[v] = mine[u] => v = u

NoneClosing == \A u \in Users : awaits[u] # "closing"

\* The fields have the clients that answered, which are those to close.
AwsFields ==
  /\ \A u \in Users : awaits[u] = "connecting" =>
       \A s \in Selected \ todo[u] : field[s] = mine[u] /\ <<s, mine[u]>> \in answering
  /\ up => \A s \in Selected : /\ field[s] # 0
                               /\ NoneClosing => <<s, field[s]>> \in answering
  /\ \A u \in Users : awaits[u] = "closing" =>
       \A c \in todo[u] : c \in answering /\ \E s \in Selected : c = <<s, field[s]>>
  /\ \A u \in Users : \A s \in Selected :
       awaits[u] \in {"region", "testing"} \/ (awaits[u] = "connecting" /\ s \in todo[u]) =>
         field[s] # mine[u]

\* What user u has open of service s.
Has(u, s, n) ==
  \/ awaits[u] = "testing" /\ s = Aws!First(Aws!TestOrder, todo[u]) /\ n = mine[u]
  \/ /\ awaits[u] = "connecting" /\ n = mine[u]
     /\ s \notin todo[u] \/ s = Aws!First(Aws!ConnectOrder, todo[u])
  \/ awaits[u] = "closing" /\ <<s, n>> \in todo[u]

\* The service clients that are open are those of the users, and of the fields of a driver
\* that is connected.
AwsOpen ==
  /\ \A u \in Users, s \in Selected, n \in Nat : Has(u, s, n) => <<s, n>> \in open
  /\ up /\ NoneClosing => \A s \in Selected : <<s, field[s]>> \in open
  /\ \A s \in Selected, n \in Nat : <<s, n>> \in open =>
       \/ \E u \in Users : Has(u, s, n)
       \/ up /\ NoneClosing /\ n = field[s]

\* The tuning provider has the client of the field, or one that is closed and that
\* nobody is going to make.
AwsTuned ==
  /\ provider # 0 => provider = field["DynamoDB"] \/ <<"DynamoDB", provider>> \notin open
  /\ \A u \in Users :
       awaits[u] \in {"region", "testing"} \/ (awaits[u] = "connecting" /\ "DynamoDB" \in todo[u]) =>
         provider # mine[u]

\* The inductive invariant of AwsSession.
AwsInv ==
  /\ AwsType /\ AwsPanels
  /\ ~confused => AwsCalls /\ AwsFields /\ AwsOpen /\ AwsTuned

\* One of the services comes first.
LEMMA FirstIs ==
  ASSUME NEW T, T \subseteq Selected, T # {},
         NEW order, order \in {Aws!ConnectOrder, Aws!TestOrder, Aws!CloseOrder}
  PROVE  Aws!First(order, T) \in T
<1>1. PICK I : I = {i \in DOMAIN order : order[i] \in T}
  OBVIOUS
<1>2. DOMAIN order = 1 .. 8
  BY DEF Aws!ConnectOrder, Aws!TestOrder, Aws!CloseOrder
<1>3. I \subseteq 1 .. 8 /\ \A i \in I : order[i] \in T
  BY <1>1, <1>2
<1>4. I # {}
  <2>1. PICK s \in T : TRUE
    OBVIOUS
  <2>2. s \in {"Cloudwatch", "SQS", "SES", "S3", "DynamoDB", "SSM", "SecretsManager",
               "CloudFormation"}
    BY <2>1, AwsAssumption
  <2>3. \E i \in 1 .. 8 : order[i] = s
    <3>1. /\ 1 \in 1 .. 8 /\ 2 \in 1 .. 8 /\ 3 \in 1 .. 8 /\ 4 \in 1 .. 8 /\ 5 \in 1 .. 8
          /\ 6 \in 1 .. 8 /\ 7 \in 1 .. 8 /\ 8 \in 1 .. 8
      OBVIOUS
    <3>2. s \in {order[1], order[2], order[3], order[4], order[5], order[6], order[7], order[8]}
      BY <2>2 DEF Aws!ConnectOrder, Aws!TestOrder, Aws!CloseOrder
    <3> QED BY <3>1, <3>2
  <2> QED BY <1>1, <1>2, <2>3
<1>5. \E x \in I : \A y \in I : x <= y
  <2>1. \A i \in I : i \in {1, 2, 3, 4, 5, 6, 7, 8}
    BY <1>3
  <2> QED BY <1>4, <2>1
<1>6. Aws!First(order, T) = order[CHOOSE x \in I : \A y \in I : x <= y]
  BY <1>1 DEF Aws!First, Aws!Min
<1> QED BY <1>3, <1>5, <1>6

\* So does one of the clients.
LEMMA FirstClientIs ==
  ASSUME NEW C, C # {}, \A c \in C : \E s \in Selected, n \in Nat : c = <<s, n>>
  PROVE  Aws!FirstClient(C) \in C
<1>1. PICK T : T = {d[1] : d \in C}
  OBVIOUS
<1>2. T \subseteq Selected /\ T # {}
  BY <1>1
<1>3. Aws!First(Aws!CloseOrder, T) \in T
  BY <1>2, FirstIs
<1>4. \E c \in C : c[1] = Aws!First(Aws!CloseOrder, T)
  BY <1>1, <1>3
<1>5. Aws!FirstClient(C) = CHOOSE c \in C : c[1] = Aws!First(Aws!CloseOrder, T)
  BY <1>1 DEF Aws!FirstClient
<1> QED BY <1>4, <1>5

\* The keys of the clients do not meet.
LEMMA KeysDiffer ==
  /\ "region" \notin Selected /\ "region" \notin Endpoints
  /\ \A e \in Endpoints : e \notin Selected
BY AwsAssumption

\* The invariant is what the connection promises.
LEMMA AwsHonest ==
  AwsInv => Aws!Explained /\ Aws!PanelsExplained /\ Aws!RegionOnce /\ Aws!TunedExplained
<1> SUFFICES ASSUME AwsInv
             PROVE  Aws!Explained /\ Aws!PanelsExplained /\ Aws!RegionOnce /\ Aws!TunedExplained
  OBVIOUS
<1>1. AwsType /\ AwsPanels
  BY DEF AwsInv
<1>2. ASSUME Aws!Quiet, ~confused
      PROVE  Aws!OfServices = IF up THEN {<<s, field[s]>> : s \in Selected} ELSE {}
  <2>1. /\ AwsOpen /\ NoneClosing /\ \A u \in Users : awaits[u] = "idle"
    BY <1>2 DEF AwsInv, Aws!Quiet, NoneClosing
  <2>2. \A s \in Selected, n \in Nat : <<s, n>> \in open <=> up /\ n = field[s]
    BY <1>1, <2>1 DEF AwsOpen, Has, AwsType
  <2>3. \A c \in Aws!OfServices : \E s \in Selected, n \in Nat : c = <<s, n>>
    BY <1>1 DEF Aws!OfServices, AwsType
  <2>4. \A c \in Aws!OfServices : c \in open
    BY DEF Aws!OfServices
  <2>5. \A s \in Selected, n \in Nat : <<s, n>> \in open => <<s, n>> \in Aws!OfServices
    BY DEF Aws!OfServices
  <2>6. \A s \in Selected : field[s] \in Nat
    BY <1>1 DEF AwsType
  <2>7. PICK O : O = Aws!OfServices
    OBVIOUS
  <2> QED BY <2>2, <2>3, <2>4, <2>5, <2>6, <2>7
<1>3. Aws!PanelsExplained
  <2>1. Aws!Shown = {c \in open : c[1] \in Endpoints}
    <3>1. \A c \in Aws!Shown : \E e \in Endpoints : c = <<e, panels[e]>> /\ panels[e] # 0
      BY DEF Aws!Shown, Aws!None
    <3>2. \A e \in Endpoints : panels[e] # 0 => <<e, panels[e]>> \in Aws!Shown
      BY DEF Aws!Shown, Aws!None
    <3>3. PICK S : S = Aws!Shown
      OBVIOUS
    <3>4. ASSUME NEW c \in open, c[1] \in Endpoints PROVE c \in S
      <4>1. PICK n \in Nat : c = <<c[1], n>>
        BY <1>1, <3>4 DEF AwsType
      <4> QED BY <1>1, <3>2, <3>3, <3>4, <4>1 DEF AwsPanels
    <3>5. ASSUME NEW c \in S PROVE c \in open /\ c[1] \in Endpoints
      BY <1>1, <3>1, <3>3, <3>5 DEF AwsPanels, AwsType
    <3> QED BY <3>3, <3>4, <3>5
  <2>2. ASSUME ~up, ~confused, ~offline PROVE Aws!Shown = {}
    BY <1>1, <2>2 DEF AwsPanels, Aws!Shown, Aws!None
  <2> QED BY <2>1, <2>2 DEF Aws!PanelsExplained
<1>4. Aws!RegionOnce
  BY <1>1 DEF AwsPanels, Aws!RegionOnce, Aws!None
<1>5. Aws!TunedExplained
  BY DEF AwsInv, AwsTuned, Aws!TunedExplained, Aws!None
<1> QED BY <1>2, <1>3, <1>4, <1>5 DEF Aws!Explained

\* It holds before the first connect.
LEMMA AwsInit == Aws!Init => AwsInv
<1> SUFFICES ASSUME Aws!Init PROVE AwsInv
  OBVIOUS
<1>1. /\ up = FALSE /\ field = [s \in Selected |-> 0] /\ answering = {}
      /\ region = "unasked" /\ panels = [e \in Endpoints |-> 0] /\ provider = 0
      /\ open = {} /\ made = 0
      /\ awaits = [u \in Users |-> "idle"] /\ todo = [u \in Users |-> {}]
      /\ mine = [u \in Users |-> 0] /\ failed = [u \in Users |-> FALSE]
  BY DEF Aws!Init, Aws!None
<1>2. AwsType
  BY <1>1 DEF AwsType, Waits
<1>3. AwsPanels
  BY <1>1 DEF AwsPanels
<1>4. AwsCalls /\ AwsFields /\ AwsTuned
  BY <1>1 DEF AwsCalls, AwsFields, AwsTuned, AtWork, Making
<1>5. AwsOpen
  BY <1>1 DEF AwsOpen, Has
<1> QED BY <1>2, <1>3, <1>4, <1>5 DEF AwsInv

\* A user begins to connect.
LEMMA AwsConnect == ASSUME AwsInv, NEW u \in Users, Aws!Connect(u) PROVE AwsInv'
<1>1. AwsType /\ AwsPanels
  BY DEF AwsInv
<1>2. /\ awaits[u] = "idle" /\ ~up' /\ made' = made + 1
      /\ mine' = [mine EXCEPT ![u] = made + 1] /\ awaits' = [awaits EXCEPT ![u] = "region"]
      /\ UNCHANGED <<field, answering, panels, provider, todo, failed, offline>>
  BY DEF Aws!Connect
<1>3. /\ \/ region' = "asked" /\ open' = open \union {<<"region", 0>>}
         \/ UNCHANGED <<region, open>>
  BY DEF Aws!Connect, Aws!None
<1>4. ~confused' => ~confused /\ ~up /\ \A v \in Users : awaits[v] = "idle"
  BY DEF Aws!Connect, Aws!Quiet
<1>5. /\ awaits'[u] = "region" /\ mine'[u] = made + 1
      /\ \A v \in Users \ {u} : awaits'[v] = awaits[v] /\ mine'[v] = mine[v]
      /\ awaits' = [v \in Users |-> awaits'[v]] /\ mine' = [v \in Users |-> mine'[v]]
  BY <1>1, <1>2 DEF AwsType
<1>6. AwsType'
  <2>1. \A c \in open' : \E k \in Keys, n \in Nat : c = <<k, n>>
    BY <1>1, <1>3 DEF AwsType, Keys
  <2> QED BY <1>1, <1>2, <1>5, <2>1 DEF AwsType, Waits
<1>7. \A s \in Selected \union Endpoints, n \in Nat : <<s, n>> \in open' <=> <<s, n>> \in open
  BY <1>3, KeysDiffer
<1>8. AwsPanels'
  <2>1. ~confused' /\ ~offline' => \A e \in Endpoints : panels'[e] = 0
    BY <1>1, <1>2, <1>4 DEF AwsPanels
  <2> QED BY <1>1, <1>2, <1>3, <1>7, <2>1 DEF AwsPanels
<1>9. ASSUME ~confused' PROVE AwsCalls' /\ AwsFields' /\ AwsOpen' /\ AwsTuned'
  <2>1. /\ AwsCalls /\ AwsFields /\ AwsOpen /\ AwsTuned /\ ~confused /\ ~up
        /\ \A v \in Users : awaits[v] = "idle"
    BY <1>4, <1>9 DEF AwsInv
  <2>2. AwsCalls'
    <3>1. ~failed[u]
      BY <2>1 DEF AwsCalls
    <3> QED BY <1>1, <1>2, <1>5, <2>1, <3>1 DEF AwsCalls, AwsType, AtWork, Making
  <2>3. AwsFields'
    BY <1>1, <1>2, <1>5, <2>1 DEF AwsFields, AwsType
  <2>4. \A s \in Selected, n \in Nat : <<s, n>> \notin open'
    BY <1>7, <2>1 DEF AwsOpen, Has
  <2>5. AwsOpen'
    BY <1>2, <1>5, <2>1, <2>4 DEF AwsOpen, Has
  <2>6. AwsTuned'
    BY <1>1, <1>2, <1>5, <1>7, <2>1 DEF AwsTuned, AwsType
  <2> QED BY <2>2, <2>3, <2>5, <2>6
<1> QED BY <1>6, <1>8, <1>9 DEF AwsInv

\* The region is answered.
LEMMA AwsRegionAnswered == ASSUME AwsInv, NEW yes \in BOOLEAN, Aws!RegionAnswered(yes) PROVE AwsInv'
<1>1. AwsType /\ AwsPanels
  BY DEF AwsInv
<1>2. /\ region = "asked" /\ region' # "asked" /\ open' = open \ {<<"region", 0>>}
      /\ UNCHANGED <<up, field, answering, panels, provider, made, awaits, todo, mine, failed,
                     confused, offline>>
  BY DEF Aws!RegionAnswered, Aws!None
<1>3. AwsType'
  BY <1>1, <1>2 DEF AwsType, Keys
<1>4. \A s \in Selected \union Endpoints, n \in Nat : <<s, n>> \in open' <=> <<s, n>> \in open
  BY <1>2, KeysDiffer
<1>5. AwsPanels'
  BY <1>1, <1>2, <1>4 DEF AwsPanels
<1>6. ASSUME ~confused' PROVE AwsCalls' /\ AwsFields' /\ AwsOpen' /\ AwsTuned'
  <2>1. AwsCalls /\ AwsFields /\ AwsOpen /\ AwsTuned
    BY <1>2, <1>6 DEF AwsInv
  <2>2. AwsCalls'
    BY <1>2, <2>1 DEF AwsCalls
  <2>3. NoneClosing' <=> NoneClosing
    BY <1>2 DEF NoneClosing
  <2>4. AwsFields'
    BY <1>2, <2>1, <2>3 DEF AwsFields
  <2>5. \A s, n : \A v \in Users : Has(v, s, n)' <=> Has(v, s, n)
    BY <1>2 DEF Has
  <2>6. \A s \in Selected : field[s] \in Nat
    BY <1>1 DEF AwsType
  <2>7. AwsOpen'
    BY <1>2, <1>4, <2>1, <2>3, <2>5, <2>6 DEF AwsOpen
  <2>8. AwsTuned'
    BY <1>1, <1>2, <1>4, <2>1 DEF AwsTuned, AwsType
  <2> QED BY <2>2, <2>4, <2>7, <2>8
<1> QED BY <1>3, <1>5, <1>6 DEF AwsInv

\* The clients of the services are made, the first one first.
LEMMA AwsRegionAwaited == ASSUME AwsInv, NEW u \in Users, Aws!RegionAwaited(u) PROVE AwsInv'
<1>1. AwsType /\ AwsPanels
  BY DEF AwsInv
<1>2. /\ awaits[u] = "region" /\ awaits' = [awaits EXCEPT ![u] = "connecting"]
      /\ todo' = [todo EXCEPT ![u] = Selected]
      /\ open' = open \union Aws!Upcoming(u, Aws!ConnectOrder, Selected)
      /\ UNCHANGED <<up, field, answering, region, panels, provider, made, mine, failed,
                     confused, offline>>
  BY DEF Aws!RegionAwaited
<1>3. /\ awaits'[u] = "connecting" /\ todo'[u] = Selected
      /\ \A v \in Users \ {u} : awaits'[v] = awaits[v] /\ todo'[v] = todo[v]
      /\ awaits' = [v \in Users |-> awaits'[v]] /\ todo' = [v \in Users |-> todo'[v]]
  BY <1>1, <1>2 DEF AwsType
<1>4. PICK first : first = Aws!First(Aws!ConnectOrder, Selected)
  OBVIOUS
<1>5. /\ Selected # {} => first \in Selected
      /\ open' = IF Selected = {} THEN open ELSE open \union {<<first, mine[u]>>}
  BY <1>2, <1>4, FirstIs DEF Aws!Upcoming
<1>6. AwsType'
  <2>1. mine[u] \in Nat
    BY <1>1 DEF AwsType
  <2>2. \A c \in open' : \E k \in Keys, n \in Nat : c = <<k, n>>
    BY <1>1, <1>5, <2>1 DEF AwsType, Keys
  <2> QED BY <1>1, <1>2, <1>3, <2>2 DEF AwsType, Waits
<1>7. \A e, n : e \notin Selected => (<<e, n>> \in open' <=> <<e, n>> \in open)
  BY <1>5
<1>8. AwsPanels'
  BY <1>1, <1>2, <1>7, KeysDiffer DEF AwsPanels
<1>9. ASSUME ~confused' PROVE AwsCalls' /\ AwsFields' /\ AwsOpen' /\ AwsTuned'
  <2>1. AwsCalls /\ AwsFields /\ AwsOpen /\ AwsTuned
    BY <1>2, <1>9 DEF AwsInv
  <2>2. AwsCalls'
    BY <1>2, <1>3, <2>1 DEF AwsCalls, AtWork, Making
  <2>3. ~up
    BY <1>2, <2>1 DEF AwsCalls
  <2>4. AwsFields'
    <3>1. \A v \in Users : awaits'[v] = "connecting" =>
            \A s \in Selected \ todo'[v] : field'[s] = mine'[v] /\ <<s, mine'[v]>> \in answering'
      BY <1>2, <1>3, <2>1 DEF AwsFields
    <3>2. \A v \in Users : awaits'[v] = "closing" =>
            \A c \in todo'[v] : c \in answering' /\ \E s \in Selected : c = <<s, field'[s]>>
      BY <1>2, <1>3, <2>1 DEF AwsFields
    <3>3. \A v \in Users : \A s \in Selected :
            awaits'[v] \in {"region", "testing"} \/ (awaits'[v] = "connecting" /\ s \in todo'[v]) =>
              field'[s] # mine'[v]
      BY <1>2, <1>3, <2>1 DEF AwsFields
    <3> QED BY <1>2, <2>3, <3>1, <3>2, <3>3 DEF AwsFields
  <2>5. AwsOpen'
    <3>1. \A s, n : \A v \in Users \ {u} : Has(v, s, n)' <=> Has(v, s, n)
      BY <1>2, <1>3 DEF Has
    <3>2. \A n : \A s \in Selected : Has(u, s, n)' <=> n = mine[u] /\ s = first
      BY <1>2, <1>3, <1>4 DEF Has
    <3>3. \A s, n : ~Has(u, s, n)
      BY <1>2 DEF Has
    <3>4. \A s \in Selected, n \in Nat :
            <<s, n>> \in open' <=> <<s, n>> \in open \/ (s = first /\ n = mine[u])
      BY <1>5
    <3>5. \A v \in Users, s \in Selected, n \in Nat :
            Has(v, s, n)' <=> Has(v, s, n) \/ (v = u /\ s = first /\ n = mine[u])
      BY <3>1, <3>2, <3>3
    <3>6. \A s \in Selected, n \in Nat : <<s, n>> \in open <=> \E v \in Users : Has(v, s, n)
      BY <2>1, <2>3 DEF AwsOpen
    <3>7. \A s \in Selected, n \in Nat : <<s, n>> \in open' <=> \E v \in Users : Has(v, s, n)'
      <4> TAKE s \in Selected, n \in Nat
      <4>1. s = first /\ n = mine[u] => \E v \in Users : Has(v, s, n)'
        BY <3>2
      <4> QED BY <3>4, <3>5, <3>6, <4>1
    <3> QED BY <1>2, <2>3, <3>7 DEF AwsOpen
  <2>6. AwsTuned'
    <3>1. provider # mine[u]
      BY <1>2, <2>1 DEF AwsTuned
    <3>2. <<"DynamoDB", provider>> \in open' => <<"DynamoDB", provider>> \in open
      BY <1>5, <3>1
    <3> QED BY <1>2, <1>3, <2>1, <3>1, <3>2 DEF AwsTuned
  <2> QED BY <2>2, <2>4, <2>5, <2>6
<1> QED BY <1>6, <1>8, <1>9 DEF AwsInv

\* A service has answered the connect, or not.
LEMMA AwsServiceConnected ==
  ASSUME AwsInv, NEW u \in Users, NEW ok \in BOOLEAN, Aws!ServiceConnected(u, ok) PROVE AwsInv'
<1>1. AwsType /\ AwsPanels
  BY DEF AwsInv
<1>2. PICK s : s = Aws!First(Aws!ConnectOrder, todo[u])
  OBVIOUS
<1>3. PICK T : T = todo[u] \ {s}
  OBVIOUS
<1>4. /\ awaits[u] = "connecting" /\ todo[u] # {}
      /\ field' = [field EXCEPT ![s] = IF ok THEN mine[u] ELSE 0]
      /\ answering' = IF ok THEN answering \union {<<s, mine[u]>>} ELSE answering
      /\ todo' = [todo EXCEPT ![u] = T]
      /\ open' = open \union Aws!Upcoming(u, Aws!ConnectOrder, T)
      /\ failed' = [failed EXCEPT ![u] = failed[u] \/ ~ok]
      /\ UNCHANGED <<up, region, panels, provider, made, awaits, mine, offline>>
  BY <1>2, <1>3 DEF Aws!ServiceConnected, Aws!Kept, Aws!None
<1>5. todo[u] \subseteq Selected /\ s \in todo[u] /\ s \in Selected /\ T \subseteq Selected
  <2>1. todo[u] \subseteq Selected
    BY <1>1, <1>4 DEF AwsType
  <2>2. s \in todo[u]
    BY <1>2, <1>4, <2>1, FirstIs
  <2> QED BY <1>3, <2>1, <2>2
<1>6. ~confused' => ~confused /\ ok
  BY DEF Aws!ServiceConnected
<1>7. PICK first : first = Aws!First(Aws!ConnectOrder, T)
  OBVIOUS
<1>8. /\ T # {} => first \in T
      /\ open' = IF T = {} THEN open ELSE open \union {<<first, mine[u]>>}
  BY <1>4, <1>5, <1>7, FirstIs DEF Aws!Upcoming
<1>9. /\ todo'[u] = T /\ \A v \in Users \ {u} : todo'[v] = todo[v]
      /\ todo' = [v \in Users |-> todo'[v]]
      /\ field' = [x \in Selected |-> field'[x]] /\ field'[s] = (IF ok THEN mine[u] ELSE 0)
      /\ \A x \in Selected \ {s} : field'[x] = field[x]
      /\ failed' = [v \in Users |-> failed'[v]] /\ \A v \in Users \ {u} : failed'[v] = failed[v]
  BY <1>1, <1>4, <1>5 DEF AwsType
<1>10. AwsType'
  <2>1. mine[u] \in Nat
    BY <1>1 DEF AwsType
  <2>2. \A c \in open' : \E k \in Keys, n \in Nat : c = <<k, n>>
    BY <1>1, <1>5, <1>8, <2>1 DEF AwsType, Keys
  <2>3. \A x \in Selected : field'[x] \in 0 .. made'
    BY <1>1, <1>4, <1>9 DEF AwsType
  <2> QED BY <1>1, <1>4, <1>5, <1>9, <2>2, <2>3 DEF AwsType
<1>11. \A e, n : e \notin Selected => (<<e, n>> \in open' <=> <<e, n>> \in open)
  BY <1>5, <1>8
<1>12. AwsPanels'
  <2>1. ~confused' => ~confused
    BY <1>6
  <2> QED BY <1>1, <1>4, <1>11, <2>1, KeysDiffer DEF AwsPanels
<1>13. ASSUME ~confused' PROVE AwsCalls' /\ AwsFields' /\ AwsOpen' /\ AwsTuned'
  <2>1. AwsCalls /\ AwsFields /\ AwsOpen /\ AwsTuned /\ ok
    BY <1>6, <1>13 DEF AwsInv
  <2>2. ~failed'[u]
    <3>1. ~failed[u]
      BY <2>1 DEF AwsCalls
    <3>2. failed'[u] = (failed[u] \/ ~ok)
      BY <1>1, <1>4 DEF AwsType
    <3> QED BY <2>1, <3>1, <3>2
  <2>3. AwsCalls'
    BY <1>4, <1>9, <2>1, <2>2 DEF AwsCalls, AtWork, Making
  <2>4. /\ ~up /\ mine[u] # 0 /\ field'[s] = mine[u] /\ <<s, mine[u]>> \in answering'
        /\ \A v \in Users : v # u => awaits[v] \notin AtWork
        /\ \A v \in Users : v # u /\ awaits[v] \in Making => mine[v] # mine[u]
    BY <1>4, <1>9, <2>1 DEF AwsCalls, AtWork, Making
  <2>5. AwsFields'
    <3>1. ASSUME NEW x \in Selected \ T PROVE field'[x] = mine[u] /\ <<x, mine[u]>> \in answering'
      <4>1. CASE x = s
        BY <2>4, <4>1
      <4>2. CASE x # s
        <5>1. x \in Selected \ todo[u]
          BY <1>3, <3>1, <4>2
        <5> QED BY <1>4, <1>9, <2>1, <4>2, <5>1 DEF AwsFields
      <4> QED BY <4>1, <4>2
    <3>2. ASSUME NEW v \in Users, NEW x \in Selected,
                 awaits[v] \in {"region", "testing"} \/ (awaits[v] = "connecting" /\ x \in todo'[v])
          PROVE  field'[x] # mine[v]
      <4>1. CASE v = u
        <5>1. x \in T /\ x # s /\ x \in todo[u]
          BY <1>3, <1>4, <1>9, <3>2, <4>1
        <5> QED BY <1>4, <1>9, <2>1, <4>1, <5>1 DEF AwsFields
      <4>2. CASE v # u /\ x = s
        BY <2>4, <3>2, <4>2 DEF Making
      <4>3. CASE v # u /\ x # s
        BY <1>9, <2>1, <3>2, <4>3 DEF AwsFields
      <4> QED BY <4>1, <4>2, <4>3
    <3>3. \A v \in Users : v # u => awaits'[v] \notin {"connecting", "closing"}
      BY <1>4, <2>4 DEF AtWork
    <3> QED BY <1>4, <1>9, <2>4, <3>1, <3>2, <3>3 DEF AwsFields
  <2>6. AwsOpen'
    <3>1. \A x, n : \A v \in Users \ {u} : Has(v, x, n)' <=> Has(v, x, n)
      BY <1>4, <1>9 DEF Has
    <3>2. \A n : \A x \in Selected : Has(u, x, n)' <=> n = mine[u] /\ (x \notin T \/ x = first)
      BY <1>4, <1>7, <1>9 DEF Has
    <3>3. \A n : \A x \in Selected : Has(u, x, n) <=> n = mine[u] /\ x \notin T
      BY <1>2, <1>3, <1>4, <1>5 DEF Has
    <3>4. \A x \in Selected, n \in Nat :
            <<x, n>> \in open' <=> <<x, n>> \in open \/ (T # {} /\ x = first /\ n = mine[u])
      BY <1>8
    <3>5. mine[u] \in Nat
      BY <1>1 DEF AwsType
    <3> QED BY <1>4, <1>8, <2>1, <2>4, <3>1, <3>2, <3>3, <3>4, <3>5 DEF AwsOpen
  <2>7. AwsTuned'
    <3>1. "DynamoDB" \in todo[u] => provider # mine[u]
      BY <1>4, <2>1 DEF AwsTuned
    <3>2. <<"DynamoDB", provider>> \in open' => <<"DynamoDB", provider>> \in open
      BY <1>3, <1>5, <1>8, <3>1
    <3>3. ASSUME s = "DynamoDB", <<"DynamoDB", provider>> \in open PROVE FALSE
      <4>1. provider \in Nat
        BY <1>1 DEF AwsType
      <4>2. PICK v \in Users : Has(v, "DynamoDB", provider)
        BY <1>5, <2>1, <2>4, <3>3, <4>1 DEF AwsOpen
      <4>3. v # u
        BY <1>4, <1>5, <3>1, <3>3, <4>2 DEF Has
      <4> QED BY <2>1, <2>4, <4>2, <4>3 DEF Has, AwsTuned, AtWork
    <3>4. provider # 0 => provider = field'["DynamoDB"] \/ <<"DynamoDB", provider>> \notin open'
      <4>1. CASE s = "DynamoDB"
        BY <3>2, <3>3, <4>1
      <4>2. CASE s # "DynamoDB"
        <5>1. provider # 0 => field'["DynamoDB"] = field["DynamoDB"]
          BY <1>1, <1>9, <4>2 DEF AwsType
        <5> QED BY <2>1, <3>2, <5>1 DEF AwsTuned
      <4> QED BY <4>1, <4>2
    <3> QED BY <1>3, <1>4, <1>9, <2>1, <3>4 DEF AwsTuned
  <2> QED BY <2>3, <2>5, <2>6, <2>7
<1> QED BY <1>10, <1>12, <1>13 DEF AwsInv

\* All services have answered.
LEMMA AwsConnected == ASSUME AwsInv, NEW u \in Users, Aws!Connected(u) PROVE AwsInv'
<1>1. AwsType /\ AwsPanels
  BY DEF AwsInv
<1>2. /\ awaits[u] = "connecting" /\ todo[u] = {}
      /\ up' = ~failed[u]
      /\ awaits' = [awaits EXCEPT ![u] = "idle"]
      /\ mine' = [mine EXCEPT ![u] = 0] /\ failed' = [failed EXCEPT ![u] = FALSE]
      /\ UNCHANGED <<field, answering, region, panels, provider, open, made, todo, confused,
                     offline>>
  BY DEF Aws!Connected, Aws!None
<1>3. /\ awaits'[u] = "idle" /\ mine'[u] = 0 /\ ~failed'[u]
      /\ \A v \in Users \ {u} : /\ awaits'[v] = awaits[v] /\ mine'[v] = mine[v]
                                /\ failed'[v] = failed[v]
      /\ awaits' = [v \in Users |-> awaits'[v]] /\ mine' = [v \in Users |-> mine'[v]]
      /\ failed' = [v \in Users |-> failed'[v]]
  BY <1>1, <1>2 DEF AwsType
<1>4. AwsType'
  BY <1>1, <1>2, <1>3 DEF AwsType, Waits
<1>5. ~confused' => up' /\ ~confused
  BY <1>2 DEF AwsInv, AwsCalls
<1>6. AwsPanels'
  BY <1>1, <1>2, <1>5 DEF AwsPanels
<1>7. ASSUME ~confused' PROVE AwsCalls' /\ AwsFields' /\ AwsOpen' /\ AwsTuned'
  <2>1. AwsCalls /\ AwsFields /\ AwsOpen /\ AwsTuned /\ up'
    BY <1>5, <1>7 DEF AwsInv
  <2>2. /\ ~up /\ mine[u] # 0 /\ mine[u] \in Nat
        /\ \A v \in Users : v # u => awaits[v] \notin AtWork
    BY <1>1, <1>2, <2>1 DEF AwsCalls, AwsType, AtWork, Making
  <2>3. \A s \in Selected : field[s] = mine[u] /\ <<s, mine[u]>> \in answering
    BY <1>2, <2>1 DEF AwsFields
  <2>4. AwsCalls'
    BY <1>2, <1>3, <2>1, <2>2 DEF AwsCalls, AtWork, Making
  <2>5. \A v \in Users : awaits'[v] \in {"idle", "testing"}
    BY <1>1, <1>3, <2>2 DEF AwsType, Waits, AtWork
  <2>6. AwsFields'
    <3>1. \A v \in Users : \A s \in Selected :
            awaits'[v] = "testing" => field'[s] # mine'[v]
      BY <1>2, <1>3, <2>1 DEF AwsFields
    <3> QED BY <1>2, <2>2, <2>3, <2>5, <3>1 DEF AwsFields
  <2>7. AwsOpen'
    <3>1. \A s, n : \A v \in Users \ {u} : Has(v, s, n)' <=> Has(v, s, n)
      BY <1>2, <1>3 DEF Has
    <3>2. \A s, n : ~Has(u, s, n)'
      BY <1>3 DEF Has
    <3>3. \A s \in Selected, n \in Nat : Has(u, s, n) <=> n = field[s]
      BY <1>2, <2>3 DEF Has
    <3>4. NoneClosing'
      BY <2>5 DEF NoneClosing
    <3>5. \A s \in Selected, n \in Nat : <<s, n>> \in open' =>
            n = field'[s] \/ \E v \in Users : Has(v, s, n)'
      BY <1>2, <2>1, <2>2, <3>1, <3>3 DEF AwsOpen
    <3>6. \A v \in Users, s \in Selected, n \in Nat : Has(v, s, n)' => <<s, n>> \in open'
      BY <1>2, <2>1, <3>1, <3>2 DEF AwsOpen
    <3>7. \A s \in Selected : <<s, field'[s]>> \in open'
      BY <1>2, <2>1, <2>2, <2>3, <3>3 DEF AwsOpen
    <3> QED BY <2>1, <3>4, <3>5, <3>6, <3>7 DEF AwsOpen
  <2>8. AwsTuned'
    BY <1>2, <1>3, <2>1, <2>5 DEF AwsTuned
  <2> QED BY <2>4, <2>6, <2>7, <2>8
<1> QED BY <1>4, <1>6, <1>7 DEF AwsInv

\* A user begins to close what the fields have.
LEMMA AwsDisconnect == ASSUME AwsInv, NEW u \in Users, Aws!Disconnect(u) PROVE AwsInv'
<1>1. AwsType /\ AwsPanels
  BY DEF AwsInv
<1>2. PICK C : C = {<<s, field[s]>> : s \in {t \in Selected : field[t] # 0}}
  OBVIOUS
<1>3. /\ awaits[u] = "idle" /\ up
      /\ todo' = [todo EXCEPT ![u] = C]
      /\ awaits' = [awaits EXCEPT ![u] = "closing"]
      /\ UNCHANGED <<up, field, answering, region, panels, provider, open, made,
                     mine, failed, offline>>
  BY <1>2 DEF Aws!Disconnect, Aws!None
<1>4. ~confused' => ~confused /\ \A v \in Users : awaits[v] = "idle"
  BY DEF Aws!Disconnect, Aws!Quiet
<1>5. /\ awaits'[u] = "closing" /\ todo'[u] = C
      /\ \A v \in Users \ {u} : awaits'[v] = awaits[v] /\ todo'[v] = todo[v]
      /\ awaits' = [v \in Users |-> awaits'[v]] /\ todo' = [v \in Users |-> todo'[v]]
  BY <1>1, <1>3 DEF AwsType
<1>6. /\ \A c \in C : \E s \in Selected : c = <<s, field[s]>> /\ field[s] # 0
      /\ \A s \in Selected : field[s] # 0 => <<s, field[s]>> \in C
  BY <1>2
<1>7. AwsType'
  <2>1. \A c \in C : \E s \in Selected, n \in Nat : c = <<s, n>>
    BY <1>1, <1>6 DEF AwsType
  <2> QED BY <1>1, <1>3, <1>5, <2>1 DEF AwsType, Waits
<1>8. AwsPanels'
  BY <1>1, <1>3, <1>4 DEF AwsPanels
<1>9. ASSUME ~confused' PROVE AwsCalls' /\ AwsFields' /\ AwsOpen' /\ AwsTuned'
  <2>1. /\ AwsCalls /\ AwsFields /\ AwsOpen /\ AwsTuned
        /\ \A v \in Users : awaits[v] = "idle"
    BY <1>4, <1>9 DEF AwsInv
  <2>2. NoneClosing /\ ~NoneClosing'
    BY <1>5, <2>1 DEF NoneClosing
  <2>3. AwsCalls'
    BY <1>3, <1>5, <2>1 DEF AwsCalls, AtWork, Making
  <2>4. \A s \in Selected : field[s] # 0 /\ <<s, field[s]>> \in answering /\ <<s, field[s]>> \in open
    BY <1>3, <2>1, <2>2 DEF AwsFields, AwsOpen
  <2>5. \A v \in Users : v # u => awaits'[v] = "idle"
    BY <1>5, <2>1
  <2>6. AwsFields'
    <3>1. \A c \in C : c \in answering' /\ \E s \in Selected : c = <<s, field'[s]>>
      BY <1>3, <1>6, <2>4
    <3>2. \A v \in Users : awaits'[v] = "closing" => v = u
      BY <1>5, <2>5
    <3>3. \A v \in Users : awaits'[v] \notin {"connecting", "region", "testing"}
      BY <1>5, <2>5
    <3>4. \A s \in Selected : field'[s] # 0
      BY <1>3, <2>4
    <3> QED BY <1>5, <2>2, <3>1, <3>2, <3>3, <3>4 DEF AwsFields
  <2>7. AwsOpen'
    <3>1. \A s, n : \A v \in Users \ {u} : ~Has(v, s, n)'
      BY <2>5 DEF Has
    <3>2. \A s \in Selected, n \in Nat : Has(u, s, n)' <=> <<s, n>> \in C
      BY <1>5 DEF Has
    <3>3. \A s \in Selected, n \in Nat : <<s, n>> \in open <=> n = field[s]
      BY <1>3, <2>1, <2>2 DEF AwsOpen, Has
    <3>4. \A s \in Selected, n \in Nat : <<s, n>> \in C <=> n = field[s]
      BY <1>6, <2>4
    <3>5. \A v \in Users, s \in Selected, n \in Nat : Has(v, s, n)' => <<s, n>> \in open'
      BY <1>3, <3>1, <3>2, <3>3, <3>4
    <3>6. \A s \in Selected, n \in Nat : <<s, n>> \in open' => Has(u, s, n)'
      BY <1>3, <3>2, <3>3, <3>4
    <3> QED BY <2>2, <3>5, <3>6 DEF AwsOpen
  <2>8. AwsTuned'
    BY <1>3, <1>5, <2>1, <2>5 DEF AwsTuned
  <2> QED BY <2>3, <2>6, <2>7, <2>8
<1> QED BY <1>7, <1>8, <1>9 DEF AwsInv

\* A service is closed.
LEMMA AwsServiceClosed == ASSUME AwsInv, NEW u \in Users, Aws!ServiceClosed(u) PROVE AwsInv'
<1>1. AwsType /\ AwsPanels
  BY DEF AwsInv
<1>2. PICK c : c = Aws!FirstClient(todo[u])
  OBVIOUS
<1>3. PICK C : C = todo[u] \ {c}
  OBVIOUS
<1>4. /\ awaits[u] = "closing" /\ todo[u] # {}
      /\ open' = IF c \in answering THEN open \ {c} ELSE open
      /\ answering' = answering \ {c}
      /\ todo' = [todo EXCEPT ![u] = C]
      /\ UNCHANGED <<up, field, region, panels, provider, made, awaits, mine, failed,
                     confused, offline>>
  BY <1>2, <1>3 DEF Aws!ServiceClosed
<1>5. \A d \in todo[u] : \E s \in Selected, n \in Nat : d = <<s, n>>
  BY <1>1, <1>4 DEF AwsType
<1>6. c \in todo[u] /\ \E s \in Selected, n \in Nat : c = <<s, n>>
  <2>1. c \in todo[u]
    BY <1>2, <1>4, <1>5, FirstClientIs
  <2> QED BY <1>5, <2>1
<1>7. /\ todo'[u] = C /\ \A v \in Users \ {u} : todo'[v] = todo[v]
      /\ todo' = [v \in Users |-> todo'[v]]
  BY <1>1, <1>4 DEF AwsType
<1>8. AwsType'
  <2>1. \A d \in C : \E s \in Selected, n \in Nat : d = <<s, n>>
    BY <1>3, <1>5
  <2>2. \A d \in open' : \E k \in Keys, n \in Nat : d = <<k, n>>
    BY <1>1, <1>4 DEF AwsType
  <2> QED BY <1>1, <1>4, <1>7, <2>1, <2>2 DEF AwsType
<1>9. \A e, n : e \notin Selected => (<<e, n>> \in open' <=> <<e, n>> \in open)
  BY <1>4, <1>6
<1>10. AwsPanels'
  BY <1>1, <1>4, <1>9, KeysDiffer DEF AwsPanels
<1>11. ASSUME ~confused' PROVE AwsCalls' /\ AwsFields' /\ AwsOpen' /\ AwsTuned'
  <2>1. AwsCalls /\ AwsFields /\ AwsOpen /\ AwsTuned
    BY <1>4, <1>11 DEF AwsInv
  <2>2. AwsCalls'
    BY <1>4, <2>1 DEF AwsCalls
  <2>3. /\ up /\ ~NoneClosing /\ ~NoneClosing'
        /\ \A v \in Users : v # u => awaits[v] \notin AtWork
    BY <1>4, <2>1 DEF AwsCalls, AtWork, NoneClosing
  <2>4. c \in answering /\ open' = open \ {c}
    BY <1>4, <1>6, <2>1 DEF AwsFields
  <2>5. AwsFields'
    <3>1. \A d \in C : d \in answering' /\ \E s \in Selected : d = <<s, field'[s]>>
      BY <1>3, <1>4, <2>1 DEF AwsFields
    <3>2. \A v \in Users : awaits'[v] \in {"connecting", "closing"} => v = u
      BY <1>4, <2>3 DEF AtWork
    <3>3. \A v \in Users : \A s \in Selected : awaits'[v] \in {"region", "testing"} => field'[s] # mine'[v]
      BY <1>4, <2>1 DEF AwsFields
    <3>4. \A s \in Selected : field'[s] # 0
      BY <1>4, <2>1, <2>3 DEF AwsFields
    <3> QED BY <1>4, <1>7, <2>3, <3>1, <3>2, <3>3, <3>4 DEF AwsFields
  <2>6. \A d \in todo[u] : d = c \/ d \in C
    BY <1>3
  <2>7. AwsOpen'
    <3>1. \A s, n : \A v \in Users \ {u} : Has(v, s, n)' <=> Has(v, s, n)
      BY <1>4, <1>7 DEF Has
    <3>2. \A s, n : Has(u, s, n)' <=> Has(u, s, n) /\ <<s, n>> # c
      BY <1>3, <1>4, <1>7 DEF Has
    <3>3. ASSUME NEW v \in Users \ {u}, NEW s \in Selected, NEW n \in Nat, Has(v, s, n)
          PROVE  <<s, n>> # c
      <4>1. awaits[v] = "testing" /\ n = mine[v]
        BY <2>3, <3>3 DEF Has, AtWork
      <4>2. field[s] # n
        BY <2>1, <4>1 DEF AwsFields
      <4>3. \E x \in Selected : c = <<x, field[x]>>
        BY <1>4, <1>6, <2>1 DEF AwsFields
      <4> QED BY <4>2, <4>3
    <3>4. \A v \in Users, s \in Selected, n \in Nat : Has(v, s, n)' <=> Has(v, s, n) /\ <<s, n>> # c
      BY <3>1, <3>2, <3>3
    <3>5. \A s \in Selected, n \in Nat : <<s, n>> \in open <=> \E v \in Users : Has(v, s, n)
      BY <2>1, <2>3 DEF AwsOpen
    <3>6. \A s \in Selected, n \in Nat : <<s, n>> \in open' <=> <<s, n>> \in open /\ <<s, n>> # c
      BY <2>4
    <3>7. \A s \in Selected, n \in Nat : <<s, n>> \in open' <=> \E v \in Users : Has(v, s, n)'
      <4> TAKE s \in Selected, n \in Nat
      <4> QED BY <3>4, <3>5, <3>6
    <3> QED BY <2>3, <3>7 DEF AwsOpen
  <2>8. AwsTuned'
    <3>1. \A v \in Users : awaits'[v] = "connecting" => v = u
      BY <1>4, <2>3 DEF AtWork
    <3> QED BY <1>4, <2>1, <2>4, <3>1 DEF AwsTuned
  <2> QED BY <2>2, <2>5, <2>7, <2>8
<1> QED BY <1>8, <1>10, <1>11 DEF AwsInv

\* All clients are closed, and those of the panels are.
LEMMA AwsDisconnected == ASSUME AwsInv, NEW u \in Users, Aws!Disconnected(u) PROVE AwsInv'
<1>1. AwsType /\ AwsPanels
  BY DEF AwsInv
<1>2. /\ awaits[u] = "closing" /\ todo[u] = {}
      /\ panels' = [e \in Endpoints |-> 0] /\ ~up'
      /\ awaits' = [awaits EXCEPT ![u] = "idle"]
      /\ UNCHANGED <<field, answering, region, provider, made, todo, mine, failed, confused,
                     offline>>
  BY DEF Aws!Disconnected, Aws!None
<1>3. PICK S : S = {<<e, panels[e]>> : e \in {f \in Endpoints : panels[f] # 0}}
  OBVIOUS
<1>4. open' = open \ S
  BY <1>3 DEF Aws!Disconnected, Aws!Shown, Aws!None
<1>5. /\ awaits'[u] = "idle" /\ \A v \in Users \ {u} : awaits'[v] = awaits[v]
      /\ awaits' = [v \in Users |-> awaits'[v]]
  BY <1>1, <1>2 DEF AwsType
<1>6. AwsType'
  <2>1. \A c \in open' : \E k \in Keys, n \in Nat : c = <<k, n>>
    BY <1>1, <1>4 DEF AwsType
  <2> QED BY <1>1, <1>2, <1>5, <2>1 DEF AwsType, Waits
<1>7. \A k, n : k \notin Endpoints => (<<k, n>> \in open' <=> <<k, n>> \in open)
  BY <1>3, <1>4
<1>8. \A e \in Endpoints, n \in Nat : <<e, n>> \notin open'
  <2>1. ASSUME NEW e \in Endpoints, NEW n \in Nat, <<e, n>> \in open' PROVE FALSE
    <3>1. n = panels[e] /\ n # 0
      BY <1>1, <1>4, <2>1 DEF AwsPanels
    <3>2. <<e, n>> \in S
      BY <1>3, <3>1
    <3> QED BY <1>4, <2>1, <3>2
  <2> QED BY <2>1
<1>9. AwsPanels'
  <2>1. \A e \in Endpoints : panels'[e] = 0
    BY <1>2
  <2> QED BY <1>1, <1>2, <1>7, <1>8, <2>1, KeysDiffer DEF AwsPanels
<1>10. ASSUME ~confused' PROVE AwsCalls' /\ AwsFields' /\ AwsOpen' /\ AwsTuned'
  <2>1. AwsCalls /\ AwsFields /\ AwsOpen /\ AwsTuned
    BY <1>2, <1>10 DEF AwsInv
  <2>2. \A v \in Users : v # u => awaits[v] \notin AtWork
    BY <1>2, <2>1 DEF AwsCalls, AtWork
  <2>3. AwsCalls'
    BY <1>2, <1>5, <2>1, <2>2 DEF AwsCalls, AtWork, Making
  <2>4. \A v \in Users : awaits'[v] \in {"idle", "testing"}
    BY <1>1, <1>5, <2>2 DEF AwsType, Waits, AtWork
  <2>5. AwsFields'
    <3>1. \A v \in Users : \A s \in Selected : awaits'[v] = "testing" => field'[s] # mine'[v]
      BY <1>2, <1>5, <2>1 DEF AwsFields
    <3> QED BY <1>2, <2>4, <3>1 DEF AwsFields
  <2>6. ~NoneClosing
    BY <1>2 DEF NoneClosing
  <2>7. AwsOpen'
    <3>1. \A s, n : \A v \in Users \ {u} : Has(v, s, n)' <=> Has(v, s, n)
      BY <1>2, <1>5 DEF Has
    <3>2. \A s, n : ~Has(u, s, n)' /\ ~Has(u, s, n)
      BY <1>2, <1>5 DEF Has
    <3>3. \A s, n : \A v \in Users : Has(v, s, n)' <=> Has(v, s, n)
      BY <3>1, <3>2
    <3>4. \A s \in Selected, n \in Nat : <<s, n>> \in open <=> \E v \in Users : Has(v, s, n)
      BY <2>1, <2>6 DEF AwsOpen
    <3>5. \A s \in Selected, n \in Nat : <<s, n>> \in open' <=> <<s, n>> \in open
      BY <1>7, KeysDiffer
    <3>6. \A s \in Selected, n \in Nat : <<s, n>> \in open' <=> \E v \in Users : Has(v, s, n)'
      <4> TAKE s \in Selected, n \in Nat
      <4> QED BY <3>3, <3>4, <3>5
    <3> QED BY <1>2, <3>6 DEF AwsOpen
  <2>8. AwsTuned'
    BY <1>2, <1>4, <2>1, <2>4 DEF AwsTuned
  <2> QED BY <2>3, <2>5, <2>7, <2>8
<1> QED BY <1>6, <1>9, <1>10 DEF AwsInv

\* A test begins.
LEMMA AwsTest == ASSUME AwsInv, NEW u \in Users, Aws!Test(u) PROVE AwsInv'
<1>1. AwsType /\ AwsPanels
  BY DEF AwsInv
<1>2. PICK first : first = Aws!First(Aws!TestOrder, Selected)
  OBVIOUS
<1>3. /\ awaits[u] = "idle" /\ Selected # {}
      /\ made' = made + 1 /\ mine' = [mine EXCEPT ![u] = made + 1]
      /\ awaits' = [awaits EXCEPT ![u] = "testing"]
      /\ todo' = [todo EXCEPT ![u] = Selected]
      /\ open' = open \union {<<first, made + 1>>}
      /\ UNCHANGED <<up, field, answering, region, panels, provider, failed, confused, offline>>
  BY <1>2 DEF Aws!Test
<1>4. first \in Selected
  BY <1>2, <1>3, FirstIs
<1>5. /\ awaits'[u] = "testing" /\ todo'[u] = Selected /\ mine'[u] = made + 1
      /\ \A v \in Users \ {u} : awaits'[v] = awaits[v] /\ todo'[v] = todo[v] /\ mine'[v] = mine[v]
      /\ awaits' = [v \in Users |-> awaits'[v]] /\ todo' = [v \in Users |-> todo'[v]]
      /\ mine' = [v \in Users |-> mine'[v]]
  BY <1>1, <1>3 DEF AwsType
<1>6. AwsType'
  <2>1. \A c \in open' : \E k \in Keys, n \in Nat : c = <<k, n>>
    BY <1>1, <1>3, <1>4 DEF AwsType, Keys
  <2>2. /\ made' \in Nat /\ provider' \in 0 .. made'
        /\ \A s \in Selected : field'[s] \in 0 .. made'
        /\ \A v \in Users : mine'[v] \in 0 .. made'
    BY <1>1, <1>3, <1>5 DEF AwsType
  <2>3. ASSUME NEW v \in Users
        PROVE  /\ awaits'[v] \in Waits
               /\ awaits'[v] \in {"connecting", "testing"} => todo'[v] \subseteq Selected
               /\ awaits'[v] = "testing" => todo'[v] # {}
               /\ awaits'[v] = "closing" =>
                    \A c \in todo'[v] : \E s \in Selected, n \in Nat : c = <<s, n>>
    BY <1>1, <1>3, <1>5 DEF AwsType, Waits
  <2> QED BY <1>1, <1>3, <1>5, <2>1, <2>2, <2>3 DEF AwsType
<1>7. \A e, n : e \notin Selected => (<<e, n>> \in open' <=> <<e, n>> \in open)
  BY <1>3, <1>4
<1>8. AwsPanels'
  BY <1>1, <1>3, <1>7, KeysDiffer DEF AwsPanels
<1>9. ASSUME ~confused' PROVE AwsCalls' /\ AwsFields' /\ AwsOpen' /\ AwsTuned'
  <2>1. AwsCalls /\ AwsFields /\ AwsOpen /\ AwsTuned
    BY <1>3, <1>9 DEF AwsInv
  <2>2. \A v \in Users : mine[v] # made + 1
    BY <1>1 DEF AwsType
  <2>3. AwsCalls'
    <3>1. made + 1 # 0
      BY <1>1 DEF AwsType
    <3>2. \A v \in Users : awaits'[v] \in AtWork <=> awaits[v] \in AtWork
      BY <1>3, <1>5 DEF AtWork
    <3>3. ASSUME NEW v \in Users, awaits'[v] \in Making
          PROVE  /\ mine'[v] # 0
                 /\ \A w \in Users : awaits'[w] \in Making /\ mine'[w] = mine'[v] => w = v
      BY <1>5, <2>1, <2>2, <3>1, <3>3 DEF AwsCalls
    <3>4. \A v \in Users : /\ awaits'[v] \in {"region", "connecting"} => ~up
                          /\ awaits'[v] = "closing" => up
      BY <1>5, <2>1 DEF AwsCalls
    <3> QED BY <1>3, <2>1, <3>2, <3>3, <3>4 DEF AwsCalls
  <2>4. NoneClosing' <=> NoneClosing
    BY <1>3, <1>5 DEF NoneClosing
  <2>5. AwsFields'
    <3>1. \A v \in Users : awaits'[v] \in {"connecting", "closing"} =>
            /\ awaits'[v] = awaits[v] /\ todo'[v] = todo[v] /\ mine'[v] = mine[v]
      BY <1>5
    <3>2. \A v \in Users : \A s \in Selected :
            awaits'[v] \in {"region", "testing"} \/ (awaits'[v] = "connecting" /\ s \in todo'[v]) =>
              field'[s] # mine'[v]
      <4>1. \A s \in Selected : field[s] # made + 1
        BY <1>1 DEF AwsType
      <4> QED BY <1>3, <1>5, <2>1, <4>1 DEF AwsFields
    <3> QED BY <1>3, <2>1, <2>4, <3>1, <3>2 DEF AwsFields
  <2>6. AwsOpen'
    <3>1. \A s, n : \A v \in Users \ {u} : Has(v, s, n)' <=> Has(v, s, n)
      BY <1>3, <1>5 DEF Has
    <3>2. \A s, n : Has(u, s, n)' <=> s = first /\ n = made + 1
      BY <1>2, <1>5 DEF Has
    <3>3. \A s, n : ~Has(u, s, n)
      BY <1>3 DEF Has
    <3>4. \A s \in Selected, n \in Nat :
            <<s, n>> \in open' <=> <<s, n>> \in open \/ (s = first /\ n = made + 1)
      BY <1>3
    <3>5. \A v \in Users, s \in Selected, n \in Nat : Has(v, s, n)' => <<s, n>> \in open'
      BY <2>1, <3>1, <3>2, <3>4 DEF AwsOpen
    <3>6. \A s \in Selected, n \in Nat : <<s, n>> \in open =>
            \/ \E v \in Users \ {u} : Has(v, s, n)
            \/ up /\ NoneClosing /\ n = field[s]
      BY <2>1, <3>3 DEF AwsOpen
    <3>7. \A s \in Selected, n \in Nat : <<s, n>> \in open' =>
            \/ \E v \in Users : Has(v, s, n)'
            \/ up' /\ NoneClosing' /\ n = field'[s]
      BY <1>3, <2>4, <3>1, <3>2, <3>4, <3>6
    <3>8. \A s \in Selected : field[s] \in Nat
      BY <1>1 DEF AwsType
    <3>9. up' /\ NoneClosing' => \A s \in Selected : <<s, field'[s]>> \in open'
      BY <1>3, <2>1, <2>4 DEF AwsOpen
    <3> QED BY <3>5, <3>7, <3>9 DEF AwsOpen
  <2>7. AwsTuned'
    <3>1. provider # made + 1
      BY <1>1 DEF AwsType
    <3>2. <<"DynamoDB", provider>> \in open' => <<"DynamoDB", provider>> \in open
      BY <1>3, <3>1
    <3> QED BY <1>3, <1>5, <2>1, <3>1, <3>2 DEF AwsTuned
  <2> QED BY <2>3, <2>5, <2>6, <2>7
<1> QED BY <1>6, <1>8, <1>9 DEF AwsInv

\* A service of a test has answered, or not.
LEMMA AwsServiceTested ==
  ASSUME AwsInv, NEW u \in Users, NEW ok \in BOOLEAN, Aws!ServiceTested(u, ok) PROVE AwsInv'
<1>1. AwsType /\ AwsPanels
  BY DEF AwsInv
<1>2. PICK s : s = Aws!First(Aws!TestOrder, todo[u])
  OBVIOUS
<1>3. PICK T : T = todo[u] \ {s}
  OBVIOUS
<1>4. PICK first : first = Aws!First(Aws!TestOrder, T)
  OBVIOUS
<1>5. /\ awaits[u] = "testing"
      /\ open' = (IF ok THEN open \ {<<s, mine[u]>>} ELSE open)
                   \union Aws!Upcoming(u, Aws!TestOrder, T)
      /\ todo' = [todo EXCEPT ![u] = T]
      /\ UNCHANGED <<up, field, answering, region, panels, provider, made, failed, offline>>
  BY <1>2, <1>3 DEF Aws!ServiceTested
<1>6. todo[u] \subseteq Selected /\ s \in todo[u] /\ s \in Selected /\ T \subseteq Selected
  <2>1. todo[u] \subseteq Selected /\ todo[u] # {}
    BY <1>1, <1>5 DEF AwsType
  <2>2. s \in todo[u]
    BY <1>2, <2>1, FirstIs
  <2> QED BY <1>3, <2>1, <2>2
<1>7. T # {} => first \in T
  BY <1>4, <1>6, FirstIs
<1>8. open' = (IF ok THEN open \ {<<s, mine[u]>>} ELSE open)
                \union (IF T = {} THEN {} ELSE {<<first, mine[u]>>})
  BY <1>4, <1>5 DEF Aws!Upcoming
<1>9. todo'[u] = T /\ (\A v \in Users \ {u} : todo'[v] = todo[v]) /\ todo' = [v \in Users |-> todo'[v]]
  BY <1>1, <1>5 DEF AwsType
<1>10. /\ awaits'[u] = (IF T = {} THEN "idle" ELSE "testing")
       /\ mine'[u] = (IF T = {} THEN 0 ELSE mine[u])
       /\ \A v \in Users \ {u} : awaits'[v] = awaits[v] /\ mine'[v] = mine[v]
       /\ awaits' = [v \in Users |-> awaits'[v]] /\ mine' = [v \in Users |-> mine'[v]]
  <2>1. IF T = {} THEN awaits' = [awaits EXCEPT ![u] = "idle"] /\ mine' = [mine EXCEPT ![u] = 0]
                  ELSE UNCHANGED <<awaits, mine>>
    BY <1>9 DEF Aws!ServiceTested, Aws!None
  <2>2. CASE T = {}
    BY <1>1, <2>1, <2>2 DEF AwsType
  <2>3. CASE T # {}
    BY <1>1, <1>5, <2>1, <2>3 DEF AwsType
  <2> QED BY <2>2, <2>3
<1>11. ~confused' => ~confused /\ ok
  BY DEF Aws!ServiceTested
<1>12. AwsType'
  <2>1. mine[u] \in Nat
    BY <1>1 DEF AwsType
  <2>2. \A c \in open' : \E k \in Keys, n \in Nat : c = <<k, n>>
    <3>1. \A c \in open' : c \in open \/ (T # {} /\ c = <<first, mine[u]>>)
      BY <1>8
    <3>2. T # {} => first \in Keys
      BY <1>6, <1>7 DEF Keys
    <3> QED BY <1>1, <2>1, <3>1, <3>2 DEF AwsType
  <2>3. \A v \in Users : mine'[v] \in 0 .. made'
    BY <1>1, <1>5, <1>10 DEF AwsType
  <2>4. ASSUME NEW v \in Users
        PROVE  /\ awaits'[v] \in Waits
               /\ awaits'[v] \in {"connecting", "testing"} => todo'[v] \subseteq Selected
               /\ awaits'[v] = "testing" => todo'[v] # {}
               /\ awaits'[v] = "closing" =>
                    \A c \in todo'[v] : \E x \in Selected, n \in Nat : c = <<x, n>>
    BY <1>1, <1>6, <1>9, <1>10 DEF AwsType, Waits
  <2> QED BY <1>1, <1>5, <1>9, <1>10, <2>2, <2>3, <2>4 DEF AwsType
<1>13. \A e, n : e \notin Selected => (<<e, n>> \in open' <=> <<e, n>> \in open)
  BY <1>6, <1>7, <1>8
<1>14. AwsPanels'
  BY <1>1, <1>5, <1>11, <1>13, KeysDiffer DEF AwsPanels
<1>15. ASSUME ~confused' PROVE AwsCalls' /\ AwsFields' /\ AwsOpen' /\ AwsTuned'
  <2>1. AwsCalls /\ AwsFields /\ AwsOpen /\ AwsTuned /\ ok
    BY <1>11, <1>15 DEF AwsInv
  <2>2. /\ mine[u] # 0 /\ mine[u] \in Nat /\ field[s] # mine[u]
        /\ \A v \in Users : v # u /\ awaits[v] \in Making => mine[v] # mine[u]
    BY <1>1, <1>5, <1>6, <2>1 DEF AwsCalls, AwsFields, AwsType, Making
  <2>3. \A v \in Users : awaits'[v] \in {"region", "connecting", "closing"} =>
          /\ v # u /\ awaits'[v] = awaits[v] /\ todo'[v] = todo[v] /\ mine'[v] = mine[v]
    BY <1>9, <1>10
  <2>4. \A v \in Users : awaits'[v] = "testing" => awaits[v] = "testing" /\ mine'[v] = mine[v]
    BY <1>5, <1>10
  <2>5. AwsCalls'
    <3>1. \A v \in Users : awaits'[v] \in AtWork => awaits[v] \in AtWork
      BY <2>3 DEF AtWork
    <3>2. \A v \in Users : awaits'[v] \in Making => awaits[v] \in Making /\ mine'[v] = mine[v]
      BY <2>3, <2>4 DEF Making
    <3> QED BY <1>5, <2>1, <2>3, <3>1, <3>2 DEF AwsCalls
  <2>6. NoneClosing' <=> NoneClosing
    BY <1>5, <1>10, <2>3 DEF NoneClosing
  <2>7. AwsFields'
    BY <1>5, <2>1, <2>3, <2>4, <2>6 DEF AwsFields
  <2>8. AwsOpen'
    <3>1. \A x, n : \A v \in Users \ {u} : Has(v, x, n)' <=> Has(v, x, n)
      BY <1>5, <1>9, <1>10 DEF Has
    <3>2. \A n : \A x \in Selected : Has(u, x, n)' <=> T # {} /\ x = first /\ n = mine[u]
      BY <1>4, <1>5, <1>9, <1>10 DEF Has
    <3>3. \A x, n : Has(u, x, n) <=> x = s /\ n = mine[u]
      BY <1>2, <1>5 DEF Has
    <3>4. ASSUME NEW v \in Users \ {u} PROVE ~Has(v, s, mine[u])
      <4>1. CASE awaits[v] = "closing"
        <5>1. <<s, mine[u]>> \notin todo[v]
          BY <2>1, <2>2, <4>1 DEF AwsFields
        <5> QED BY <4>1, <5>1 DEF Has
      <4>2. CASE awaits[v] # "closing"
        BY <2>2, <4>2 DEF Has, Making
      <4> QED BY <4>1, <4>2
    <3>5. \A x \in Selected, n \in Nat :
            <<x, n>> \in open' <=> \/ <<x, n>> \in open /\ ~(x = s /\ n = mine[u])
                                   \/ T # {} /\ x = first /\ n = mine[u]
      BY <1>8, <2>1
    <3>6. \A v \in Users, x \in Selected, n \in Nat : Has(v, x, n)' => <<x, n>> \in open'
      <4> TAKE v \in Users, x \in Selected, n \in Nat
      <4>1. CASE v = u
        BY <3>2, <3>5, <4>1
      <4>2. CASE v # u
        BY <2>1, <3>1, <3>4, <3>5, <4>2 DEF AwsOpen
      <4> QED BY <4>1, <4>2
    <3>7. \A x \in Selected, n \in Nat : <<x, n>> \in open' =>
            (\E v \in Users : Has(v, x, n)') \/ (up /\ NoneClosing /\ n = field[x])
      <4> TAKE x \in Selected, n \in Nat
      <4> HAVE <<x, n>> \in open'
      <4>1. CASE T # {} /\ x = first /\ n = mine[u]
        BY <3>2, <4>1
      <4>2. CASE <<x, n>> \in open /\ ~(x = s /\ n = mine[u])
        BY <2>1, <3>1, <3>3, <4>2 DEF AwsOpen
      <4> QED BY <3>5, <4>1, <4>2
    <3>8. up /\ NoneClosing => \A x \in Selected : <<x, field[x]>> \in open'
      <4> HAVE up /\ NoneClosing
      <4> TAKE x \in Selected
      <4>1. <<x, field[x]>> \in open /\ field[x] \in Nat
        BY <1>1, <2>1 DEF AwsOpen, AwsType
      <4> QED BY <2>2, <3>5, <4>1
    <3> QED BY <1>5, <2>6, <3>6, <3>7, <3>8 DEF AwsOpen
  <2>9. AwsTuned'
    <3>1. provider # mine[u]
      BY <1>5, <2>1 DEF AwsTuned
    <3>2. <<"DynamoDB", provider>> \in open' => <<"DynamoDB", provider>> \in open
      BY <1>8, <3>1
    <3> QED BY <1>5, <2>1, <2>3, <2>4, <3>2 DEF AwsTuned
  <2> QED BY <2>5, <2>7, <2>8, <2>9
<1> QED BY <1>12, <1>14, <1>15 DEF AwsInv

\* A metric panel is asked for.
LEMMA AwsPanel == ASSUME AwsInv, NEW e \in Endpoints, Aws!Panel(e) PROVE AwsInv'
<1>1. AwsType /\ AwsPanels
  BY DEF AwsInv
<1>2. /\ panels[e] = 0 /\ made' = made + 1
      /\ panels' = [panels EXCEPT ![e] = made + 1]
      /\ open' = open \union {<<e, made + 1>>}
      /\ UNCHANGED <<up, field, answering, region, provider, awaits, todo, mine, failed, confused>>
  BY DEF Aws!Panel, Aws!None
<1>3. ~offline' => ~offline /\ up
  BY DEF Aws!Panel
<1>4. /\ panels'[e] = made + 1 /\ \A f \in Endpoints \ {e} : panels'[f] = panels[f]
      /\ panels' = [f \in Endpoints |-> panels'[f]]
      /\ made \in Nat /\ made + 1 # 0
  BY <1>1, <1>2 DEF AwsType
<1>5. AwsType'
  <2>1. \A c \in open' : \E k \in Keys, n \in Nat : c = <<k, n>>
    BY <1>1, <1>2 DEF AwsType, Keys
  <2>2. /\ made' \in Nat /\ provider' \in 0 .. made'
        /\ \A s \in Selected : field'[s] \in 0 .. made'
        /\ \A v \in Users : mine'[v] \in 0 .. made'
        /\ \A f \in Endpoints : panels'[f] \in Nat
    BY <1>1, <1>2, <1>4 DEF AwsType
  <2> QED BY <1>1, <1>2, <1>4, <2>1, <2>2 DEF AwsType
<1>6. AwsPanels'
  <2>1. \A f \in Endpoints, n \in Nat : <<f, n>> \in open' <=> n # 0 /\ n = panels'[f]
    <3> TAKE f \in Endpoints, n \in Nat
    <3>1. CASE f = e
      BY <1>1, <1>2, <1>4, <3>1 DEF AwsPanels
    <3>2. CASE f # e
      BY <1>1, <1>2, <1>4, <3>2 DEF AwsPanels
    <3> QED BY <3>1, <3>2
  <2>2. <<"region", 0>> \in open' <=> <<"region", 0>> \in open
    BY <1>2, <1>4
  <2> QED BY <1>1, <1>2, <1>3, <2>1, <2>2 DEF AwsPanels
<1>7. \A n : \A s \in Selected : <<s, n>> \in open' <=> <<s, n>> \in open
  BY <1>2, KeysDiffer
<1>8. ASSUME ~confused' PROVE AwsCalls' /\ AwsFields' /\ AwsOpen' /\ AwsTuned'
  <2>1. AwsCalls /\ AwsFields /\ AwsOpen /\ AwsTuned
    BY <1>2, <1>8 DEF AwsInv
  <2>2. AwsCalls'
    BY <1>2, <2>1 DEF AwsCalls
  <2>3. NoneClosing' <=> NoneClosing
    BY <1>2 DEF NoneClosing
  <2>4. AwsFields'
    BY <1>2, <2>1, <2>3 DEF AwsFields
  <2>5. \A s, n : \A v \in Users : Has(v, s, n)' <=> Has(v, s, n)
    BY <1>2 DEF Has
  <2>6. AwsOpen'
    BY <1>2, <1>7, <2>1, <2>3, <2>5 DEF AwsOpen
  <2>7. AwsTuned'
    <3>1. provider # 0 => "DynamoDB" \in Selected
      BY <1>1 DEF AwsType
    <3> QED BY <1>2, <1>7, <2>1, <3>1 DEF AwsTuned
  <2> QED BY <2>2, <2>4, <2>6, <2>7
<1> QED BY <1>5, <1>6, <1>8 DEF AwsInv

\* A tuning context is asked for.
LEMMA AwsTune == ASSUME AwsInv, Aws!Tune PROVE AwsInv'
<1>1. AwsType /\ AwsPanels
  BY DEF AwsInv
<1>2. /\ "DynamoDB" \in Selected /\ field["DynamoDB"] # 0
      /\ provider' = IF provider = 0 THEN field["DynamoDB"] ELSE provider
      /\ UNCHANGED <<up, field, answering, region, panels, open, made, awaits, todo,
                     mine, failed, confused, offline>>
  BY DEF Aws!Tune, Aws!Tunable, Aws!None
<1>3. AwsType'
  <2>1. provider' \in 0 .. made'
    BY <1>1, <1>2 DEF AwsType
  <2> QED BY <1>1, <1>2, <2>1 DEF AwsType
<1>4. AwsPanels'
  BY <1>1, <1>2 DEF AwsPanels
<1>5. ASSUME ~confused' PROVE AwsCalls' /\ AwsFields' /\ AwsOpen' /\ AwsTuned'
  <2>1. AwsCalls /\ AwsFields /\ AwsOpen /\ AwsTuned
    BY <1>2, <1>5 DEF AwsInv
  <2>2. AwsCalls'
    BY <1>2, <2>1 DEF AwsCalls
  <2>3. NoneClosing' <=> NoneClosing
    BY <1>2 DEF NoneClosing
  <2>4. AwsFields'
    BY <1>2, <2>1, <2>3 DEF AwsFields
  <2>5. \A s, n : \A v \in Users : Has(v, s, n)' <=> Has(v, s, n)
    BY <1>2 DEF Has
  <2>6. AwsOpen'
    BY <1>2, <2>1, <2>3, <2>5 DEF AwsOpen
  <2>7. AwsTuned'
    BY <1>2, <2>1 DEF AwsTuned, AwsFields
  <2> QED BY <2>2, <2>4, <2>6, <2>7
<1> QED BY <1>3, <1>4, <1>5 DEF AwsInv

\* Nothing happens to the connection.
LEMMA AwsStutter == ASSUME AwsInv, UNCHANGED awsVars PROVE AwsInv'
<1>1. /\ UNCHANGED <<up, field, answering, region, panels, provider, open, made, awaits, todo,
                     mine, failed, confused, offline>>
  BY DEF awsVars
<1>2. AwsType' <=> AwsType
  BY <1>1 DEF AwsType
<1>3. AwsPanels' <=> AwsPanels
  BY <1>1 DEF AwsPanels
<1>4. AwsCalls' <=> AwsCalls
  BY <1>1 DEF AwsCalls
<1>5. NoneClosing' <=> NoneClosing
  BY <1>1 DEF NoneClosing
<1>6. AwsFields' <=> AwsFields
  BY <1>1, <1>5 DEF AwsFields
<1>7. \A s, n : \A v \in Users : Has(v, s, n)' <=> Has(v, s, n)
  BY <1>1 DEF Has
<1>8. AwsOpen' <=> AwsOpen
  BY <1>1, <1>5, <1>7 DEF AwsOpen
<1>9. AwsTuned' <=> AwsTuned
  BY <1>1 DEF AwsTuned
<1> QED BY <1>1, <1>2, <1>3, <1>4, <1>6, <1>8, <1>9 DEF AwsInv

\* Every step of the connection keeps it.
LEMMA AwsStep == ASSUME AwsInv, Aws!Next PROVE AwsInv'
<1>1. ASSUME NEW u \in Users,
             \/ Aws!Connect(u) \/ Aws!RegionAwaited(u) \/ Aws!Connected(u)
             \/ Aws!Disconnect(u) \/ Aws!ServiceClosed(u) \/ Aws!Disconnected(u)
             \/ Aws!Test(u)
      PROVE  AwsInv'
  BY <1>1, AwsConnect, AwsRegionAwaited, AwsConnected, AwsDisconnect, AwsServiceClosed,
     AwsDisconnected, AwsTest
<1>2. ASSUME NEW u \in Users, NEW ok \in BOOLEAN,
             Aws!ServiceConnected(u, ok) \/ Aws!ServiceTested(u, ok)
      PROVE  AwsInv'
  BY <1>2, AwsServiceConnected, AwsServiceTested
<1>3. ASSUME NEW yes \in BOOLEAN, Aws!RegionAnswered(yes) PROVE AwsInv'
  BY <1>3, AwsRegionAnswered
<1>4. ASSUME NEW e \in Endpoints, Aws!Panel(e) PROVE AwsInv'
  BY <1>4, AwsPanel
<1>5. ASSUME Aws!Tune PROVE AwsInv'
  BY <1>5, AwsTune
<1> HIDE DEF AwsInv
<1> QED BY <1>1, <1>2, <1>3, <1>4, <1>5 DEF Aws!Next

-----------------------------------------------------------------------------
(***************************************************************************)
(* IdentityProvider.  The parts hold under different histories: a token    *)
(* belongs to a connection unless calls and connections were mixed         *)
(* (loose); what a creation is going to write back is the newest unless    *)
(* somebody asked for another description meanwhile (raced).               *)
(***************************************************************************)

\* Where a caller of an identity provider waits, and what it has still to send.
Stages == {"idle", "connecting", "asking", "granting", "sending"}
ToSend == {<<>>, <<"get">>, <<"post">>, <<"post", "find", "put">>, <<"find", "put">>, <<"put">>}

\* A representation of the role or group that is there has a description.
Representation(r) ==
  /\ r = [description |-> r.description, attributes |-> r.attributes]
  /\ r # [description |-> 0, attributes |-> 0] => r.description # 0

\* The types the proofs need.
IdentityType ==
  /\ at = [c \in Callers |-> at[c]] /\ call = [c \in Callers |-> call[c]]
  /\ plan = [c \in Callers |-> plan[c]] /\ seen = [c \in Callers |-> seen[c]]
  /\ calls \in Nat /\ granted \in Nat
  /\ Representation(entity)
  /\ \A c \in Callers :
       /\ at[c] \in Stages /\ plan[c] \in ToSend /\ Representation(seen[c])
       /\ at[c] = "connecting" => call[c] \in {"connect", "test"}
       /\ at[c] # "idle" => calls # 0

\* A connected driver was connected, is being tested, or was left by a test.
OnPurpose ==
  granting => \/ opened \/ left
              \/ \E c \in Callers : at[c] \in {"asking", "granting"} /\ call[c] = "test"

\* Requests and tokens belong to a connection, and nothing goes on beside a connect.
Tied ==
  /\ cached # 0 => granting
  /\ \A c \in Callers :
       /\ at[c] \in {"asking", "granting", "sending"} => granting
       /\ at[c] = "connecting" => ~granting /\ \A d \in Callers \ {c} : at[d] = "idle"

\* What a creation has read, and is to write, is the newest.
Fresh ==
  /\ entity.description # 0 => entity.description = newest
  /\ \A c \in Callers :
       call[c] = "create" /\ plan[c] = <<"put">> /\ seen[c] # [description |-> 0, attributes |-> 0] =>
         seen[c].description = newest

\* The inductive invariant of IdentityProvider.
IdentityInv ==
  /\ IdentityType /\ OnPurpose
  /\ ~loose => Tied
  /\ ~raced /\ ~deleted => Fresh

\* Nothing happens to the other callers.
OnlyAt(c) ==
  /\ at' = [d \in Callers |-> at'[d]] /\ call' = [d \in Callers |-> call'[d]]
  /\ plan' = [d \in Callers |-> plan'[d]] /\ seen' = [d \in Callers |-> seen'[d]]
  /\ \A d \in Callers \ {c} :
       at'[d] = at[d] /\ call'[d] = call[d] /\ plan'[d] = plan[d] /\ seen'[d] = seen[d]

\* Nothing happens to the caller, either, but for the state of its call.
Advances(c, stage) ==
  OnlyAt(c) /\ at'[c] = stage /\ call'[c] = call[c] /\ plan'[c] = plan[c] /\ seen'[c] = seen[c]

\* A call has ended.
Over(c) ==
  /\ OnlyAt(c) /\ at'[c] = "idle" /\ call'[c] = "none" /\ plan'[c] = <<>>
  /\ seen'[c] = [description |-> 0, attributes |-> 0]

\* Nothing is the representation of nothing.
LEMMA NothingThere == Representation([description |-> 0, attributes |-> 0])
BY DEF Representation

\* What Ends does to the callers.
LEMMA EndsOver ==
  ASSUME IdentityType, NEW c \in Callers, NEW how, Identity!Ends(c, how) PROVE Over(c)
BY DEF IdentityType, Identity!Ends, Identity!Absent, Identity!None, Over, OnlyAt

\* What waiting for something else does to them.
LEMMA OnlyAdvances ==
  ASSUME IdentityType, NEW c \in Callers, NEW stage, at' = [at EXCEPT ![c] = stage],
         UNCHANGED <<call, plan, seen>>
  PROVE  Advances(c, stage)
BY DEF IdentityType, Advances, OnlyAt

\* A step of one caller keeps the types.
LEMMA TypeKept ==
  ASSUME IdentityType, NEW c \in Callers, OnlyAt(c),
         at'[c] \in Stages, plan'[c] \in ToSend, Representation(seen'[c]),
         at'[c] = "connecting" => call'[c] \in {"connect", "test"},
         at'[c] # "idle" => calls' # 0,
         calls' \in Nat, calls # 0 => calls' # 0, granted' \in Nat, Representation(entity')
  PROVE  IdentityType'
<1>1. ASSUME NEW d \in Callers
      PROVE  /\ at'[d] \in Stages /\ plan'[d] \in ToSend /\ Representation(seen'[d])
             /\ at'[d] = "connecting" => call'[d] \in {"connect", "test"}
             /\ at'[d] # "idle" => calls' # 0
  <2>1. CASE d = c
    BY <2>1
  <2>2. CASE d # c
    BY <2>2 DEF IdentityType, OnlyAt
  <2> QED BY <2>1, <2>2
<1>2. Representation(entity)' /\ \A d \in Callers : Representation(seen[d])'
  BY <1>1 DEF Representation
<1> QED BY <1>1, <1>2 DEF IdentityType, OnlyAt

\* The types of a call that has ended.
LEMMA TypeOver ==
  ASSUME IdentityType, NEW c \in Callers, Over(c), UNCHANGED calls, granted' \in Nat,
         Representation(entity')
  PROVE  IdentityType'
<1>1. /\ OnlyAt(c) /\ at'[c] \in Stages /\ plan'[c] \in ToSend /\ Representation(seen'[c])
      /\ at'[c] # "connecting" /\ at'[c] = "idle"
  BY NothingThere DEF Over, Stages, ToSend
<1>2. calls' \in Nat /\ (calls # 0 => calls' # 0)
  BY DEF IdentityType
<1> QED BY <1>1, <1>2, TypeKept

\* The types of one that goes on.
LEMMA TypeAdvances ==
  ASSUME IdentityType, NEW c \in Callers, NEW stage \in {"asking", "granting", "sending"},
         Advances(c, stage), at[c] # "idle", UNCHANGED <<calls, entity>>, granted' \in Nat
  PROVE  IdentityType'
<1>1. /\ OnlyAt(c) /\ at'[c] \in Stages /\ at'[c] # "connecting"
      /\ plan'[c] = plan[c] /\ seen'[c] = seen[c]
  BY DEF Advances, Stages
<1>2. plan'[c] \in ToSend /\ Representation(seen'[c])
  BY <1>1 DEF IdentityType
<1>3. calls' \in Nat /\ calls' # 0
  BY DEF IdentityType
<1>4. Representation(entity')
  BY DEF IdentityType
<1> QED BY <1>1, <1>2, <1>3, <1>4, TypeKept

\* Nobody has anything yet.
LEMMA IdentityInit == Identity!Init => IdentityInv
<1> SUFFICES ASSUME Identity!Init PROVE IdentityInv
  OBVIOUS
<1>1. /\ granting = FALSE /\ cached = 0 /\ granted = 0 /\ calls = 0
      /\ at = [c \in Callers |-> "idle"] /\ call = [c \in Callers |-> "none"]
      /\ plan = [c \in Callers |-> <<>>]
      /\ seen = [c \in Callers |-> [description |-> 0, attributes |-> 0]]
      /\ entity = [description |-> 0, attributes |-> 0]
  BY DEF Identity!Init, Identity!None, Identity!Absent
<1>2. IdentityType
  BY <1>1, NothingThere DEF IdentityType, Stages, ToSend
<1>3. OnPurpose /\ Tied
  BY <1>1 DEF OnPurpose, Tied
<1>4. Fresh
  BY <1>1 DEF Fresh
<1> QED BY <1>2, <1>3, <1>4 DEF IdentityInv

\* The invariant is what the driver promises.
LEMMA IdentityHonest ==
  IdentityInv => Identity!NoTokenLeft /\ Identity!ConnectedOnPurpose /\ Identity!NoUpdateLost
<1> SUFFICES ASSUME IdentityInv
             PROVE  Identity!NoTokenLeft /\ Identity!ConnectedOnPurpose /\ Identity!NoUpdateLost
  OBVIOUS
<1>1. Identity!NoTokenLeft
  BY DEF IdentityInv, Tied, Identity!NoTokenLeft, Identity!None
<1>2. Identity!ConnectedOnPurpose
  BY DEF IdentityInv, OnPurpose, Identity!ConnectedOnPurpose, Identity!Quiet
<1>3. Identity!NoUpdateLost
  BY DEF IdentityInv, Fresh, Identity!NoUpdateLost, Identity!Exists, Identity!None
<1> QED BY <1>1, <1>2, <1>3

\* A call begins.
LEMMA IdentityBegin ==
  ASSUME IdentityInv, NEW c \in Callers,
         NEW o \in {"connect", "test", "read", "create", "update"}, Identity!Begin(c, o)
  PROVE  IdentityInv'
<1>1. IdentityType /\ OnPurpose
  BY DEF IdentityInv
<1>2. /\ at[c] = "idle" /\ calls' = calls + 1 /\ call' = [call EXCEPT ![c] = o]
      /\ \E p \in Identity!Plans(o) : plan' = [plan EXCEPT ![c] = p]
      /\ seen' = [seen EXCEPT ![c] = [description |-> 0, attributes |-> 0]]
      /\ UNCHANGED <<cached, granted, entity, newest, raced, deleted, opened, left>>
  BY DEF Identity!Begin, Identity!Absent, Identity!None, Identity!tokens, Identity!server
<1>3. PICK p \in Identity!Plans(o) : plan' = [plan EXCEPT ![c] = p]
  BY <1>2
<1>4. p \in ToSend
  BY DEF Identity!Plans, ToSend
<1>5. \/ /\ o \in {"connect", "test"} /\ at' = [at EXCEPT ![c] = "connecting"] /\ ~granting'
         /\ ~loose' => ~loose /\ cached = 0 /\ \A d \in Callers \ {c} : at[d] = "idle"
      \/ /\ at' = [at EXCEPT ![c] = "asking"] /\ UNCHANGED granting
         /\ ~loose' => ~loose /\ granting
  BY DEF Identity!Begin, Identity!None
<1>6. /\ OnlyAt(c) /\ call'[c] = o /\ plan'[c] = p
      /\ seen'[c] = [description |-> 0, attributes |-> 0]
  BY <1>1, <1>2, <1>3, <1>5 DEF IdentityType, OnlyAt
<1>7. at'[c] \in {"connecting", "asking"} /\ (at'[c] = "connecting" => o \in {"connect", "test"})
  BY <1>1, <1>5 DEF IdentityType
<1>8. IdentityType'
  <2>1. calls' \in Nat /\ calls' # 0 /\ granted' \in Nat /\ Representation(entity')
    BY <1>1, <1>2 DEF IdentityType
  <2>2. at'[c] \in Stages /\ plan'[c] \in ToSend /\ Representation(seen'[c])
    BY <1>4, <1>6, <1>7, NothingThere DEF Stages
  <2> QED BY <1>1, <1>6, <1>7, <2>1, <2>2, TypeKept
<1>9. OnPurpose'
  <2>1. CASE ~granting'
    BY <2>1 DEF OnPurpose
  <2>2. CASE granting'
    <3>1. granting
      BY <1>5, <2>2
    <3>2. \A d \in Callers : at[d] \in {"asking", "granting"} => at'[d] = at[d] /\ call'[d] = call[d]
      BY <1>2, <1>6 DEF OnlyAt
    <3> QED BY <1>1, <1>2, <3>1, <3>2 DEF OnPurpose
  <2> QED BY <2>1, <2>2
<1>10. ASSUME ~loose' PROVE Tied'
  <2>1. Tied
    BY <1>5, <1>10 DEF IdentityInv
  <2>2. \A d \in Callers \ {c} : at'[d] = at[d]
    BY <1>6 DEF OnlyAt
  <2>3. CASE at'[c] = "connecting"
    <3>1. ~granting' /\ cached' = 0 /\ \A d \in Callers \ {c} : at'[d] = "idle"
      BY <1>1, <1>2, <1>5, <1>10, <2>2, <2>3 DEF IdentityType
    <3> QED BY <2>3, <3>1 DEF Tied
  <2>4. CASE at'[c] = "asking"
    <3>1. granting' /\ granting
      BY <1>1, <1>5, <1>10, <2>4 DEF IdentityType
    <3> QED BY <1>2, <2>1, <2>2, <2>4, <3>1 DEF Tied
  <2> QED BY <1>7, <2>3, <2>4
<1>11. ASSUME ~raced', ~deleted' PROVE Fresh'
  <2>1. Fresh
    BY <1>2, <1>11 DEF IdentityInv
  <2> QED BY <1>2, <1>6, <2>1 DEF Fresh, OnlyAt
<1> QED BY <1>8, <1>9, <1>10, <1>11 DEF IdentityInv

\* A step that leaves the server alone, and what the caller is to write.
LEMMA FreshKept ==
  ASSUME Fresh, NEW c \in Callers, OnlyAt(c), UNCHANGED <<entity, newest>>,
         \/ plan'[c] # <<"put">>
         \/ call'[c] = call[c] /\ plan'[c] = plan[c] /\ seen'[c] = seen[c]
  PROVE  Fresh'
BY DEF Fresh, OnlyAt

\* A call that has ended, and nothing else.
LEMMA FreshOver ==
  ASSUME Fresh, NEW c \in Callers, Over(c), UNCHANGED <<entity, newest>> PROVE Fresh'
<1>1. OnlyAt(c) /\ plan'[c] # <<"put">>
  BY DEF Over
<1> QED BY <1>1, FreshKept

\* The same, of a call that goes on.
LEMMA FreshAdvances ==
  ASSUME Fresh, NEW c \in Callers, NEW stage, Advances(c, stage), UNCHANGED <<entity, newest>>
  PROVE  Fresh'
<1>1. OnlyAt(c) /\ call'[c] = call[c] /\ plan'[c] = plan[c] /\ seen'[c] = seen[c]
  BY DEF Advances
<1> QED BY <1>1, FreshKept

\* A call that ends leaves a driver connected on purpose, if it was not a test.
LEMMA PurposeOver ==
  ASSUME OnPurpose, NEW c \in Callers, Over(c), UNCHANGED <<granting, opened>>,
         left' = (left \/ call[c] = "test")
  PROVE  OnPurpose'
<1>1. \A d \in Callers \ {c} : at'[d] = at[d] /\ call'[d] = call[d]
  BY DEF Over, OnlyAt
<1>2. left => left'
  OBVIOUS
<1>3. at[c] \in {"asking", "granting"} /\ call[c] = "test" => left'
  OBVIOUS
<1> QED BY <1>1, <1>2, <1>3 DEF OnPurpose

\* So does one that goes on to ask for a token, or that is not a test.
LEMMA PurposeAdvances ==
  ASSUME OnPurpose, NEW c \in Callers, NEW stage, Advances(c, stage),
         UNCHANGED <<granting, opened, left>>,
         stage \in {"asking", "granting"} \/ call[c] # "test"
  PROVE  OnPurpose'
<1>1. \A d \in Callers \ {c} : at'[d] = at[d] /\ call'[d] = call[d]
  BY DEF Advances, OnlyAt
<1>2. at'[c] = stage /\ call'[c] = call[c]
  BY DEF Advances
<1> QED BY <1>1, <1>2 DEF OnPurpose

\* A call that ends keeps the tokens tied to the connection.
LEMMA TiedOver ==
  ASSUME Tied, NEW c \in Callers, OnlyAt(c), at'[c] = "idle", UNCHANGED <<cached, granting>>
  PROVE  Tied'
BY DEF Tied, OnlyAt

\* The same, of a call that goes on.
LEMMA TiedAdvances ==
  ASSUME Tied, NEW c \in Callers, OnlyAt(c), at'[c] \in {"asking", "granting", "sending"},
         at[c] \in {"asking", "granting", "sending"}, UNCHANGED granting
  PROVE  Tied'
BY DEF Tied, OnlyAt

\* The issuer is discovered, or not.
LEMMA IdentityConnect ==
  ASSUME IdentityInv, NEW c \in Callers, NEW ok \in BOOLEAN, Identity!Connect(c, ok)
  PROVE  IdentityInv'
<1>1. IdentityType /\ OnPurpose
  BY DEF IdentityInv
<1>2. /\ at[c] = "connecting" /\ granting' = ok /\ opened' = (ok /\ call[c] = "connect")
      /\ cached' = 0 \/ cached' = cached
      /\ UNCHANGED <<granted, calls, entity, newest, raced, deleted, loose, left>>
  BY DEF Identity!Connect, Identity!None, Identity!server
<1>3. \/ ok /\ call[c] = "test" /\ Advances(c, "asking")
      \/ ~(ok /\ call[c] = "test") /\ Over(c)
  <2>1. CASE ok /\ call[c] = "test"
    <3>1. at' = [at EXCEPT ![c] = "asking"] /\ UNCHANGED <<call, plan, seen>>
      BY <2>1 DEF Identity!Connect
    <3> QED BY <1>1, <2>1, <3>1, OnlyAdvances
  <2>2. CASE ~(ok /\ call[c] = "test")
    <3>1. Identity!Ends(c, "rejected")
      BY <2>2 DEF Identity!Connect
    <3> QED BY <1>1, <2>2, <3>1, EndsOver
  <2> QED BY <2>1, <2>2
<1>4. IdentityType'
  <2>1. granted' \in Nat /\ Representation(entity')
    BY <1>1, <1>2 DEF IdentityType
  <2>2. CASE Advances(c, "asking")
    BY <1>1, <1>2, <2>1, <2>2, TypeAdvances
  <2>3. CASE Over(c)
    BY <1>1, <1>2, <2>1, <2>3, TypeOver
  <2> QED BY <1>3, <2>2, <2>3
<1>5. OnPurpose'
  <2>1. CASE ok /\ call[c] = "test" /\ Advances(c, "asking")
    BY <2>1 DEF Advances, OnPurpose
  <2>2. CASE ~(ok /\ call[c] = "test")
    <3>1. ok => opened'
      BY <1>1, <1>2, <2>2 DEF IdentityType
    <3> QED BY <1>2, <3>1 DEF OnPurpose
  <2> QED BY <1>3, <2>1, <2>2
<1>6. ASSUME ~loose' PROVE Tied'
  <2>1. ~granting /\ cached = 0 /\ \A d \in Callers \ {c} : at[d] = "idle"
    BY <1>2, <1>6 DEF IdentityInv, Tied
  <2>2. \A d \in Callers \ {c} : at'[d] = "idle"
    BY <1>3, <2>1 DEF Advances, Over, OnlyAt
  <2>3. at'[c] = "idle" \/ (at'[c] = "asking" /\ ok)
    BY <1>3 DEF Advances, Over
  <2> QED BY <1>2, <2>1, <2>2, <2>3 DEF Tied
<1>7. ASSUME ~raced', ~deleted' PROVE Fresh'
  <2>1. Fresh /\ UNCHANGED <<entity, newest>>
    BY <1>2, <1>7 DEF IdentityInv
  <2> QED BY <1>3, <2>1, FreshOver, FreshAdvances
<1> QED BY <1>4, <1>5, <1>6, <1>7 DEF IdentityInv

\* What closing does to the connection.
LEMMA ClosesIs ==
  ASSUME NEW c \in Callers, Identity!Closes(c)
  PROVE  /\ cached' = (IF granting THEN 0 ELSE cached) /\ ~granting' /\ ~opened'
         /\ ~loose' => ~loose /\ \A d \in Callers \ {c} : at[d] = "idle"
BY DEF Identity!Closes, Identity!Forgotten, Identity!None

\* A connection is closed.
LEMMA IdentityDisconnect ==
  ASSUME IdentityInv, NEW c \in Callers, Identity!Disconnect(c) PROVE IdentityInv'
<1>1. IdentityType /\ OnPurpose
  BY DEF IdentityInv
<1>2. /\ at[c] = "idle" /\ granting /\ Identity!Closes(c)
      /\ UNCHANGED <<granted, calls, at, call, plan, seen, entity, newest, raced, deleted, left>>
  BY DEF Identity!Disconnect, Identity!server
<1>3. /\ cached' = 0 /\ ~granting'
      /\ ~loose' => ~loose /\ \A d \in Callers : at[d] = "idle"
  BY <1>2, ClosesIs
<1>4. IdentityType'
  BY <1>1, <1>2 DEF IdentityType, Representation
<1>5. OnPurpose'
  BY <1>3 DEF OnPurpose
<1>6. ASSUME ~loose' PROVE Tied'
  BY <1>2, <1>3, <1>6 DEF Tied
<1>7. ASSUME ~raced', ~deleted' PROVE Fresh'
  BY <1>2, <1>7 DEF IdentityInv, Fresh
<1> QED BY <1>4, <1>5, <1>6, <1>7 DEF IdentityInv

\* A call that is rejected.
LEMMA IdentityRejected ==
  ASSUME IdentityInv, NEW c \in Callers, Identity!Rejected(c),
         UNCHANGED <<cached, granted, calls, entity, newest, raced, deleted>>
  PROVE  IdentityInv'
<1>1. IdentityType /\ OnPurpose
  BY DEF IdentityInv
<1>2. /\ Identity!Ends(c, "rejected") /\ left' = (left \/ call[c] = "test")
      /\ UNCHANGED <<granting, opened, loose>>
  BY DEF Identity!Rejected
<1>3. Over(c) /\ OnlyAt(c) /\ at'[c] = "idle"
  <2>1. Over(c)
    BY <1>1, <1>2, EndsOver
  <2> QED BY <2>1 DEF Over
<1>4. IdentityType'
  <2>1. granted' \in Nat /\ Representation(entity') /\ UNCHANGED calls
    BY <1>1 DEF IdentityType
  <2> QED BY <1>1, <1>3, <2>1, TypeOver
<1>5. OnPurpose'
  BY <1>1, <1>2, <1>3, PurposeOver
<1>6. ASSUME ~loose' PROVE Tied'
  <2>1. Tied /\ UNCHANGED <<cached, granting>>
    BY <1>2, <1>6 DEF IdentityInv
  <2> QED BY <1>3, <2>1, TiedOver
<1>7. ASSUME ~raced', ~deleted' PROVE Fresh'
  <2>1. Fresh /\ UNCHANGED <<entity, newest>>
    BY <1>7 DEF IdentityInv
  <2> QED BY <1>3, <2>1, FreshOver
<1> QED BY <1>4, <1>5, <1>6, <1>7 DEF IdentityInv

\* A call goes on while nothing happens to the connection.
LEMMA IdentityAdvances ==
  ASSUME IdentityInv, NEW c \in Callers, NEW stage \in {"asking", "granting", "sending"},
         at[c] \in {"asking", "granting", "sending"}, Advances(c, stage),
         stage \in {"asking", "granting"} \/ call[c] # "test",
         cached' = cached \/ granting \/ loose, granted' \in Nat,
         UNCHANGED <<granting, opened, left, loose, calls, entity, newest, raced, deleted>>
  PROVE  IdentityInv'
<1>1. IdentityType /\ OnPurpose /\ OnlyAt(c) /\ at'[c] = stage
  BY DEF IdentityInv, Advances
<1>2. IdentityType'
  <2>1. at[c] # "idle" /\ UNCHANGED <<calls, entity>>
    OBVIOUS
  <2> QED BY <1>1, <2>1, TypeAdvances
<1>3. OnPurpose'
  BY <1>1, PurposeAdvances
<1>4. ASSUME ~loose' PROVE Tied'
  <2>1. Tied
    BY <1>4 DEF IdentityInv
  <2> QED BY <1>1, <2>1, TiedAdvances
<1>5. ASSUME ~raced', ~deleted' PROVE Fresh'
  <2>1. Fresh /\ UNCHANGED <<entity, newest>>
    BY <1>5 DEF IdentityInv
  <2> QED BY <2>1, FreshAdvances
<1> QED BY <1>2, <1>3, <1>4, <1>5 DEF IdentityInv

\* A test that is done closes the connection.
LEMMA IdentityTested ==
  ASSUME IdentityInv, NEW c \in Callers, Over(c), ~granting',
         ~loose' => /\ ~loose /\ cached' = 0
                    /\ \A d \in Callers \ {c} : at[d] = "idle",
         granted' \in Nat, UNCHANGED <<calls, entity, newest, raced, deleted>>
  PROVE  IdentityInv'
<1>1. IdentityType /\ OnPurpose
  BY DEF IdentityInv
<1>2. IdentityType'
  <2>1. Representation(entity') /\ UNCHANGED calls
    BY <1>1 DEF IdentityType
  <2> QED BY <1>1, <2>1, TypeOver
<1>3. OnPurpose'
  BY DEF OnPurpose
<1>4. ASSUME ~loose' PROVE Tied'
  <2>1. \A d \in Callers : at'[d] = "idle"
    BY <1>4 DEF Over, OnlyAt
  <2> QED BY <1>4, <2>1 DEF Tied
<1>5. ASSUME ~raced', ~deleted' PROVE Fresh'
  <2>1. Fresh /\ UNCHANGED <<entity, newest>>
    BY <1>5 DEF IdentityInv
  <2> QED BY <2>1, FreshOver
<1> QED BY <1>2, <1>3, <1>4, <1>5 DEF IdentityInv

\* The token of the driver is taken.
LEMMA IdentityTaken ==
  ASSUME IdentityInv, NEW c \in Callers, Identity!TokenTaken(c) PROVE IdentityInv'
<1>1. IdentityType /\ OnPurpose
  BY DEF IdentityInv
<1>2. at[c] = "asking" /\ UNCHANGED <<granted, calls, entity, newest, raced, deleted>>
  BY DEF Identity!TokenTaken, Identity!server
<1>3. granted' \in Nat
  BY <1>1, <1>2 DEF IdentityType
<1>4. CASE call[c] = "test"
  <2>1. Identity!Ends(c, "resolved") /\ Identity!Closes(c)
    BY <1>4 DEF Identity!TokenTaken
  <2>2. Over(c)
    BY <1>1, <2>1, EndsOver
  <2>3. /\ cached' = (IF granting THEN 0 ELSE cached) /\ ~granting'
        /\ ~loose' => ~loose /\ \A d \in Callers \ {c} : at[d] = "idle"
    BY <2>1, ClosesIs
  <2>4. ~loose' => cached' = 0
    BY <1>2, <2>3 DEF IdentityInv, Tied
  <2> QED BY <1>2, <1>3, <2>2, <2>3, <2>4, IdentityTested
<1>5. CASE call[c] # "test"
  <2>1. /\ at' = [at EXCEPT ![c] = "sending"] /\ UNCHANGED <<call, plan, seen>>
        /\ UNCHANGED <<cached, granting, opened, left, loose>>
    BY <1>5 DEF Identity!TokenTaken, Identity!session
  <2>2. Advances(c, "sending")
    BY <1>1, <2>1, OnlyAdvances
  <2> QED BY <1>2, <1>3, <1>5, <2>1, <2>2, IdentityAdvances
<1> QED BY <1>4, <1>5

\* There is none, or it has expired.
LEMMA IdentityWanted ==
  ASSUME IdentityInv, NEW c \in Callers, Identity!TokenWanted(c) PROVE IdentityInv'
<1>1. IdentityType
  BY DEF IdentityInv
<1>2. at[c] = "asking" /\ UNCHANGED <<cached, granted, calls, entity, newest, raced, deleted>>
  BY DEF Identity!TokenWanted, Identity!server, Identity!tokens
<1>3. CASE Identity!Rejected(c)
  BY <1>2, <1>3, IdentityRejected
<1>4. CASE ~Identity!Rejected(c)
  <2>1. /\ at' = [at EXCEPT ![c] = "granting"] /\ UNCHANGED <<call, plan, seen>>
        /\ UNCHANGED <<granting, opened, left, loose>>
    BY <1>4 DEF Identity!TokenWanted, Identity!session
  <2>2. Advances(c, "granting")
    BY <1>1, <2>1, OnlyAdvances
  <2>3. granted' \in Nat
    BY <1>1, <1>2 DEF IdentityType
  <2> QED BY <1>2, <2>1, <2>2, <2>3, IdentityAdvances
<1> QED BY <1>3, <1>4

\* A token is granted.
LEMMA IdentityGranted ==
  ASSUME IdentityInv, NEW c \in Callers, Identity!Granted(c) PROVE IdentityInv'
<1>1. IdentityType
  BY DEF IdentityInv
<1>2. /\ at[c] = "granting" /\ granted' = granted + 1
      /\ UNCHANGED <<calls, entity, newest, raced, deleted>>
  BY DEF Identity!Granted, Identity!server
<1>3. granted' \in Nat
  BY <1>1, <1>2 DEF IdentityType
<1>4. CASE call[c] = "test"
  <2>1. /\ Identity!Ends(c, "resolved") /\ ~granting'
        /\ cached' = (IF granting THEN 0 ELSE granted + 1)
        /\ ~loose' => ~loose /\ granting /\ \A d \in Callers \ {c} : at[d] = "idle"
    BY <1>4 DEF Identity!Granted, Identity!Forgotten, Identity!None
  <2>2. Over(c)
    BY <1>1, <2>1, EndsOver
  <2> QED BY <1>2, <1>3, <2>1, <2>2, IdentityTested
<1>5. CASE call[c] # "test"
  <2>1. /\ at' = [at EXCEPT ![c] = "sending"] /\ UNCHANGED <<call, plan, seen>>
        /\ UNCHANGED <<granting, opened, left, loose>>
    BY <1>5 DEF Identity!Granted, Identity!session
  <2>2. Advances(c, "sending")
    BY <1>1, <2>1, OnlyAdvances
  <2>3. granting \/ loose
    BY <1>2 DEF IdentityInv, Tied
  <2> QED BY <1>2, <1>3, <1>5, <2>1, <2>2, <2>3, IdentityAdvances
<1> QED BY <1>4, <1>5

\* It is refused, or the request is.
LEMMA IdentityRefused ==
  ASSUME IdentityInv, NEW c \in Callers, Identity!GrantRefused(c) \/ Identity!Refused(c)
  PROVE  IdentityInv'
<1>1. /\ Identity!Rejected(c)
      /\ UNCHANGED <<cached, granted, calls, entity, newest, raced, deleted>>
  BY DEF Identity!GrantRefused, Identity!Refused, Identity!tokens, Identity!server
<1> QED BY <1>1, IdentityRejected

\* What is still to be sent, once the first request is answered.
LEMMA ToSendNext ==
  ASSUME NEW p \in ToSend, p # <<>>
  PROVE  /\ Len(p) # 1 => Tail(p) \in ToSend
         /\ Len(p) # 1 => (Tail(p) = <<"put">> <=> Head(p) = "find")
         /\ Head(p) = "put" => p = <<"put">> /\ Len(p) = 1
         /\ Head(p) \in {"get", "post", "find", "put"}
         /\ Head(p) = "get" => Len(p) = 1
<1>1. CASE p = <<"get">>
  BY <1>1
<1>2. CASE p = <<"post">>
  BY <1>2
<1>3. CASE p = <<"post", "find", "put">>
  <2>1. Tail(p) = <<"find", "put">> /\ Len(p) = 3 /\ Head(p) = "post"
    BY <1>3
  <2>2. <<"find", "put">> # <<"put">>
    OBVIOUS
  <2> QED BY <2>1, <2>2 DEF ToSend
<1>4. CASE p = <<"find", "put">>
  <2>1. Tail(p) = <<"put">> /\ Len(p) = 2 /\ Head(p) = "find"
    BY <1>4
  <2> QED BY <2>1 DEF ToSend
<1>5. CASE p = <<"put">>
  BY <1>5
<1> QED BY <1>1, <1>2, <1>3, <1>4, <1>5 DEF ToSend

\* A request is answered: the call has ended, or asks for a token for the next one.
LEMMA GoesOn ==
  ASSUME IdentityType, NEW c \in Callers, Identity!Goes(c), plan[c] # <<>>,
         NEW r, seen' = [seen EXCEPT ![c] = r]
  PROVE  \/ Len(plan[c]) = 1 /\ Over(c)
         \/ /\ Len(plan[c]) # 1 /\ OnlyAt(c) /\ at'[c] = "asking" /\ call'[c] = call[c]
            /\ plan'[c] = Tail(plan[c]) /\ seen'[c] = r
<1>1. CASE Len(plan[c]) = 1
  <2>1. Identity!Ends(c, "resolved")
    BY <1>1 DEF Identity!Goes
  <2> QED BY <1>1, <2>1, EndsOver
<1>2. CASE Len(plan[c]) # 1
  <2>1. /\ at' = [at EXCEPT ![c] = "asking"] /\ plan' = [plan EXCEPT ![c] = Tail(plan[c])]
        /\ UNCHANGED call
    BY <1>2 DEF Identity!Goes
  <2> QED BY <1>2, <2>1 DEF IdentityType, OnlyAt
<1> QED BY <1>1, <1>2

\* What a request that is answered does to the types and to the connection.
LEMMA IdentityAnswered ==
  ASSUME IdentityInv, NEW c \in Callers, at[c] = "sending", plan[c] # <<>>, Identity!Goes(c),
         NEW r, Representation(r), seen' = [seen EXCEPT ![c] = r], Representation(entity'),
         UNCHANGED <<granting, opened, left, loose, cached, granted, calls>>
  PROVE  /\ IdentityType' /\ OnPurpose' /\ (~loose' => Tied')
         /\ \/ Len(plan[c]) = 1 /\ Over(c)
            \/ /\ Len(plan[c]) # 1 /\ OnlyAt(c) /\ at'[c] = "asking" /\ call'[c] = call[c]
               /\ plan'[c] = Tail(plan[c]) /\ seen'[c] = r
<1>1. IdentityType /\ OnPurpose
  BY DEF IdentityInv
<1>2. plan[c] \in ToSend /\ calls # 0 /\ calls \in Nat /\ granted' \in Nat
  BY <1>1 DEF IdentityType
<1>3. CASE Len(plan[c]) = 1 /\ Over(c)
  <2>1. OnlyAt(c) /\ at'[c] = "idle"
    BY <1>3 DEF Over
  <2>2. IdentityType'
    BY <1>1, <1>2, <1>3, TypeOver
  <2>3. OnPurpose'
    <3>1. \A d \in Callers \ {c} : at'[d] = at[d] /\ call'[d] = call[d]
      BY <2>1 DEF OnlyAt
    <3> QED BY <1>1, <3>1 DEF OnPurpose
  <2>4. ASSUME ~loose' PROVE Tied'
    <3>1. Tied
      BY <2>4 DEF IdentityInv
    <3> QED BY <2>1, <3>1, TiedOver
  <2> QED BY <1>3, <2>2, <2>3, <2>4
<1>4. CASE /\ Len(plan[c]) # 1 /\ OnlyAt(c) /\ at'[c] = "asking" /\ call'[c] = call[c]
           /\ plan'[c] = Tail(plan[c]) /\ seen'[c] = r
  <2>1. IdentityType'
    <3>1. at'[c] \in Stages /\ at'[c] # "connecting" /\ plan'[c] \in ToSend
      BY <1>2, <1>4, ToSendNext DEF Stages
    <3>2. calls' \in Nat /\ calls' # 0
      BY <1>2
    <3> QED BY <1>1, <1>2, <1>4, <3>1, <3>2, TypeKept
  <2>2. OnPurpose'
    <3>1. \A d \in Callers \ {c} : at'[d] = at[d] /\ call'[d] = call[d]
      BY <1>4 DEF OnlyAt
    <3> QED BY <1>1, <3>1 DEF OnPurpose
  <2>3. ASSUME ~loose' PROVE Tied'
    <3>1. Tied
      BY <2>3 DEF IdentityInv
    <3> QED BY <1>4, <3>1, TiedAdvances
  <2> QED BY <1>4, <2>1, <2>2, <2>3
<1>5. \/ Len(plan[c]) = 1 /\ Over(c)
      \/ /\ Len(plan[c]) # 1 /\ OnlyAt(c) /\ at'[c] = "asking" /\ call'[c] = call[c]
         /\ plan'[c] = Tail(plan[c]) /\ seen'[c] = r
  BY <1>1, GoesOn
<1> QED BY <1>3, <1>4, <1>5

\* Something is read.
LEMMA IdentityGet == ASSUME IdentityInv, NEW c \in Callers, Identity!Get(c) PROVE IdentityInv'
<1>1. /\ at[c] = "sending" /\ plan[c] # <<>> /\ Head(plan[c]) = "get" /\ Identity!Goes(c)
      /\ seen' = [seen EXCEPT ![c] = [description |-> 0, attributes |-> 0]]
      /\ UNCHANGED <<granting, opened, left, loose, cached, granted, calls>>
      /\ UNCHANGED <<entity, newest, raced, deleted>>
  BY DEF Identity!Get, Identity!Sends, Identity!Absent, Identity!None, Identity!session,
         Identity!tokens, Identity!server
<1>2. /\ Representation([description |-> 0, attributes |-> 0]) /\ Representation(entity')
      /\ plan[c] \in ToSend
  BY <1>1, NothingThere DEF IdentityInv, IdentityType
<1>3. Len(plan[c]) = 1
  BY <1>1, <1>2, ToSendNext
<1>4. IdentityType' /\ OnPurpose' /\ (~loose' => Tied') /\ Over(c)
  BY <1>1, <1>2, <1>3, IdentityAnswered
<1>5. ASSUME ~raced', ~deleted' PROVE Fresh'
  <2>1. Fresh
    BY <1>1, <1>5 DEF IdentityInv
  <2> QED BY <1>1, <1>4, <2>1, FreshOver
<1> QED BY <1>4, <1>5 DEF IdentityInv

\* A role or group is created.
LEMMA IdentityPost == ASSUME IdentityInv, NEW c \in Callers, Identity!Post(c) PROVE IdentityInv'
<1>1. /\ at[c] = "sending" /\ plan[c] # <<>> /\ Head(plan[c]) = "post" /\ Identity!Goes(c)
      /\ entity' = [description |-> calls, attributes |-> 0] /\ newest' = calls
      /\ raced' = (raced \/ \E d \in Callers \ {c} : call[d] = "create" /\ plan[d] = <<"put">>)
      /\ UNCHANGED <<granting, opened, left, loose, cached, granted, calls, deleted>>
  BY DEF Identity!Post, Identity!Sends, Identity!None, Identity!session, Identity!tokens,
         Identity!Reading
<1>2. PICK r : r = IF Len(plan[c]) = 1 THEN [description |-> 0, attributes |-> 0]
                                       ELSE [description |-> calls, attributes |-> 0]
  OBVIOUS
<1>3. seen' = [seen EXCEPT ![c] = r]
  BY <1>1, <1>2 DEF Identity!Post, Identity!Absent, Identity!None
<1>4. calls \in Nat /\ calls # 0 /\ plan[c] \in ToSend
  BY <1>1 DEF IdentityInv, IdentityType
<1>5. Representation(r) /\ Representation(entity')
  BY <1>1, <1>2, <1>4 DEF Representation
<1>6. /\ IdentityType' /\ OnPurpose' /\ (~loose' => Tied')
      /\ \/ Len(plan[c]) = 1 /\ Over(c)
         \/ /\ Len(plan[c]) # 1 /\ OnlyAt(c) /\ at'[c] = "asking" /\ call'[c] = call[c]
            /\ plan'[c] = Tail(plan[c]) /\ seen'[c] = r
  BY <1>1, <1>3, <1>5, IdentityAnswered
<1>7. ASSUME ~raced', ~deleted' PROVE Fresh'
  <2>1. OnlyAt(c) /\ plan'[c] # <<"put">>
    <3>1. Len(plan[c]) # 1 => Tail(plan[c]) # <<"put">>
      BY <1>1, <1>4, ToSendNext
    <3>2. Over(c) => OnlyAt(c) /\ plan'[c] # <<"put">>
      BY DEF Over
    <3> QED BY <1>6, <3>1, <3>2
  <2>2. \A d \in Callers \ {c} : ~(call'[d] = "create" /\ plan'[d] = <<"put">>)
    BY <1>1, <1>7, <2>1 DEF OnlyAt
  <2>3. entity'.description = newest'
    BY <1>1
  <2> QED BY <2>1, <2>2, <2>3 DEF Fresh
<1> QED BY <1>6, <1>7 DEF IdentityInv

\* It is read again.
LEMMA IdentityFind == ASSUME IdentityInv, NEW c \in Callers, Identity!Find(c) PROVE IdentityInv'
<1>1. /\ at[c] = "sending" /\ plan[c] # <<>> /\ Head(plan[c]) = "find" /\ Identity!Goes(c)
      /\ seen' = [seen EXCEPT ![c] = entity]
      /\ UNCHANGED <<granting, opened, left, loose, cached, granted, calls>>
      /\ UNCHANGED <<entity, newest, raced, deleted>>
  BY DEF Identity!Find, Identity!Sends, Identity!Read, Identity!session, Identity!tokens,
         Identity!server
<1>2. Representation(entity) /\ Representation(entity')
  BY <1>1 DEF IdentityInv, IdentityType
<1>3. /\ IdentityType' /\ OnPurpose' /\ (~loose' => Tied')
      /\ \/ Len(plan[c]) = 1 /\ Over(c)
         \/ /\ Len(plan[c]) # 1 /\ OnlyAt(c) /\ at'[c] = "asking" /\ call'[c] = call[c]
            /\ plan'[c] = Tail(plan[c]) /\ seen'[c] = entity
  BY <1>1, <1>2, IdentityAnswered
<1>4. ASSUME ~raced', ~deleted' PROVE Fresh'
  <2>1. Fresh
    BY <1>1, <1>4 DEF IdentityInv
  <2>2. CASE Over(c)
    BY <1>1, <2>1, <2>2, FreshOver
  <2>3. CASE OnlyAt(c) /\ seen'[c] = entity
    <3>1. entity # [description |-> 0, attributes |-> 0] => entity.description = newest
      BY <1>2, <2>1 DEF Fresh, Representation
    <3> QED BY <1>1, <2>1, <2>3, <3>1 DEF Fresh, OnlyAt
  <2> QED BY <1>3, <2>2, <2>3
<1> QED BY <1>3, <1>4 DEF IdentityInv

\* It is written.
LEMMA IdentityPut == ASSUME IdentityInv, NEW c \in Callers, Identity!Put(c) PROVE IdentityInv'
<1>1. /\ at[c] = "sending" /\ plan[c] # <<>> /\ Head(plan[c]) = "put" /\ Identity!Goes(c)
      /\ seen' = [seen EXCEPT ![c] = [description |-> 0, attributes |-> 0]]
      /\ UNCHANGED <<granting, opened, left, loose, cached, granted, calls, deleted>>
  BY DEF Identity!Put, Identity!Sends, Identity!Absent, Identity!None, Identity!session,
         Identity!tokens
<1>2. \/ /\ call[c] = "create" /\ seen[c] # [description |-> 0, attributes |-> 0]
         /\ entity' = [seen[c] EXCEPT !.attributes = 1] /\ UNCHANGED <<newest, raced>>
      \/ /\ entity' = [entity EXCEPT !.description = calls] /\ newest' = calls
         /\ raced' = (raced \/ \E d \in Callers \ {c} : call[d] = "create" /\ plan[d] = <<"put">>)
  BY DEF Identity!Put, Identity!Absent, Identity!None, Identity!Reading
<1>3. /\ calls \in Nat /\ calls # 0 /\ plan[c] \in ToSend
      /\ Representation(entity) /\ Representation(seen[c])
  BY <1>1 DEF IdentityInv, IdentityType
<1>4. \/ /\ call[c] = "create" /\ seen[c] # [description |-> 0, attributes |-> 0]
         /\ entity' = [description |-> seen[c].description, attributes |-> 1]
         /\ UNCHANGED <<newest, raced>>
      \/ /\ entity' = [description |-> calls, attributes |-> entity.attributes]
         /\ newest' = calls
         /\ raced' = (raced \/ \E d \in Callers \ {c} : call[d] = "create" /\ plan[d] = <<"put">>)
  <2>1. CASE call[c] = "create" /\ entity' = [seen[c] EXCEPT !.attributes = 1]
    <3>1. PICK e : e = seen[c]
      OBVIOUS
    <3>2. e = [description |-> e.description, attributes |-> e.attributes]
      BY <1>3, <3>1 DEF Representation
    <3>3. [e EXCEPT !.attributes = 1] = [description |-> e.description, attributes |-> 1]
      BY <3>2
    <3> QED BY <1>2, <2>1, <3>1, <3>3
  <2>2. CASE entity' = [entity EXCEPT !.description = calls]
    <3>1. [entity EXCEPT !.description = calls] =
            [description |-> calls, attributes |-> entity.attributes]
      BY <1>3 DEF Representation
    <3> QED BY <1>2, <2>2, <3>1
  <2> QED BY <1>2, <2>1, <2>2
<1>5. Representation([description |-> 0, attributes |-> 0]) /\ Representation(entity')
  BY <1>3, <1>4, NothingThere DEF Representation
<1>6. plan[c] = <<"put">> /\ Len(plan[c]) = 1
  BY <1>1, <1>3, ToSendNext
<1>7. IdentityType' /\ OnPurpose' /\ (~loose' => Tied') /\ Over(c)
  BY <1>1, <1>5, <1>6, IdentityAnswered
<1>8. ASSUME ~raced', ~deleted' PROVE Fresh'
  <2>1. Fresh
    BY <1>1, <1>4, <1>8 DEF IdentityInv
  <2>2. /\ plan'[c] # <<"put">>
        /\ \A d \in Callers \ {c} :
             call'[d] = call[d] /\ plan'[d] = plan[d] /\ seen'[d] = seen[d]
    BY <1>7 DEF Over, OnlyAt
  <2>3. CASE call[c] = "create" /\ seen[c] # [description |-> 0, attributes |-> 0]
             /\ entity' = [description |-> seen[c].description, attributes |-> 1]
             /\ UNCHANGED <<newest, raced>>
    BY <1>6, <2>1, <2>2, <2>3 DEF Fresh
  <2>4. CASE entity' = [description |-> calls, attributes |-> entity.attributes]
             /\ newest' = calls
             /\ raced' = (raced \/ \E d \in Callers \ {c} : call[d] = "create" /\ plan[d] = <<"put">>)
    BY <1>8, <2>2, <2>4 DEF Fresh
  <2> QED BY <1>4, <2>3, <2>4
<1> QED BY <1>7, <1>8 DEF IdentityInv

\* Nothing happens to the callers, to the connection and to what they were asked for.
LEMMA IdentityStays ==
  ASSUME IdentityInv,
         UNCHANGED <<granting, cached, granted, calls, at, call, plan, seen, opened, loose, left,
                     newest, raced>>,
         \/ UNCHANGED <<entity, deleted>>
         \/ entity' = [description |-> 0, attributes |-> 0] /\ deleted'
  PROVE  IdentityInv'
<1>1. Representation(entity')
  BY NothingThere DEF IdentityInv, IdentityType
<1>2. IdentityType'
  BY <1>1 DEF IdentityInv, IdentityType, Representation
<1>3. OnPurpose'
  BY DEF IdentityInv, OnPurpose
<1>4. ASSUME ~loose' PROVE Tied'
  BY <1>4 DEF IdentityInv, Tied
<1>5. ASSUME ~raced', ~deleted' PROVE Fresh'
  BY <1>5 DEF IdentityInv, Fresh
<1> QED BY <1>2, <1>3, <1>4, <1>5 DEF IdentityInv

\* Every step of the provider keeps the invariant.
LEMMA IdentityStep == ASSUME IdentityInv, Identity!Next PROVE IdentityInv'
<1>1. ASSUME NEW c \in Callers,
             NEW o \in {"connect", "test", "read", "create", "update"}, Identity!Begin(c, o)
      PROVE  IdentityInv'
  BY <1>1, IdentityBegin
<1>2. ASSUME NEW c \in Callers, NEW ok \in BOOLEAN, Identity!Connect(c, ok) PROVE IdentityInv'
  BY <1>2, IdentityConnect
<1>3. ASSUME NEW c \in Callers,
             \/ Identity!Disconnect(c) \/ Identity!TokenTaken(c) \/ Identity!TokenWanted(c)
             \/ Identity!Granted(c) \/ Identity!GrantRefused(c) \/ Identity!Refused(c)
             \/ Identity!Get(c) \/ Identity!Post(c) \/ Identity!Find(c) \/ Identity!Put(c)
      PROVE  IdentityInv'
  BY <1>3, IdentityDisconnect, IdentityTaken, IdentityWanted, IdentityGranted,
     IdentityRefused, IdentityGet, IdentityPost, IdentityFind, IdentityPut
<1>4. ASSUME Identity!Expires \/ Identity!Delete PROVE IdentityInv'
  <2>1. UNCHANGED <<granting, cached, granted, calls, at, call, plan, seen, opened, loose, left,
                    newest, raced>>
    BY <1>4 DEF Identity!Expires, Identity!Delete, Identity!session, Identity!tokens,
                Identity!server
  <2>2. \/ UNCHANGED <<entity, deleted>>
        \/ entity' = [description |-> 0, attributes |-> 0] /\ deleted'
    BY <1>4 DEF Identity!Expires, Identity!Delete, Identity!server, Identity!Absent,
                Identity!None
  <2> QED BY <2>1, <2>2, IdentityStays
<1> HIDE DEF IdentityInv
<1> QED BY <1>1, <1>2, <1>3, <1>4 DEF Identity!Next

\* So does one of another part.
LEMMA IdentityStutter == ASSUME IdentityInv, UNCHANGED identityVars PROVE IdentityInv'
<1>1. /\ UNCHANGED <<granting, cached, granted, calls, at, call, plan, seen, opened, loose, left,
                     newest, raced>>
      /\ UNCHANGED <<entity, deleted>>
  BY DEF identityVars
<1> QED BY <1>1, IdentityStays

-----------------------------------------------------------------------------
\* What a driver of AWS, Keycloak or Auth0 keeps open, connected or cached is what its last
\* connect made, but for the cases the parts name: connectSub, closeSub and test of the
\* drivers, in any order and by any number of callers.
THEOREM SessionsAreExplained == MCSpec => []SessionsExplained
<1>1. MCInit => AwsInv /\ IdentityInv
  BY AwsInit, IdentityInit DEF MCInit
<1>2. ASSUME AwsInv, IdentityInv, [MCNext]_<<on, vars, awsVars, identityVars>>
      PROVE  AwsInv' /\ IdentityInv'
  <2>1. Aws!Next \/ UNCHANGED awsVars
    BY <1>2 DEF MCNext
  <2>2. Identity!Next \/ UNCHANGED identityVars
    BY <1>2 DEF MCNext
  <2> QED BY <1>2, <2>1, <2>2, AwsStep, AwsStutter, IdentityStep, IdentityStutter
<1>3. AwsInv /\ IdentityInv => SessionsExplained
  BY AwsHonest, IdentityHonest DEF SessionsExplained
<1> HIDE DEF AwsInv, IdentityInv
<1> QED BY <1>1, <1>2, <1>3, PTL DEF MCSpec
=============================================================================
