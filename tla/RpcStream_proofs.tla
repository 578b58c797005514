-------------------------- MODULE RpcStream_proofs --------------------------
(***************************************************************************)
(* Proofs about the calls of RPCDriver.  RpcStream, for any capacity,      *)
(* watermarks, sizes and numbers of messages: typing, that a paused        *)
(* readable is always going to be resumed (Flowing), that no reader is     *)
(* forgotten (NoReaderLost), that nothing is written after the sending     *)
(* side is closed (NothingAfterEnd), that what is counted reaches the      *)
(* consumer in order (Delivered), and that the bytes are those of the      *)
(* queue.  RpcUnary and RpcReflection, for any calls, services and files:  *)
(* that a call is settled once and that what reflection loads, shows and   *)
(* refuses is what the server has (Answered, of MC_Rpc).                   *)
(***************************************************************************)
EXTENDS MC_Rpc, SequenceTheorems, WellFoundedInduction, TLAPS

\* What the sending side is waiting for.
Closing ==
  /\ NothingAfterEnd
  /\ closing # "no" => sendingClosed
  /\ begun <= accepted

\* A reader that push resolved has an event in hand, and no reader is lost.
Reading ==
  /\ NoReaderLost
  /\ consumer = "handed" => hand # <<>>

IInv == TypeOK /\ Flowing /\ Reading /\ Closing

LEMMA InitInv == Init => IInv
<1> SUFFICES ASSUME Init PROVE IInv
  OBVIOUS
<1> USE StreamAssumption
<1>1. TypeOK
  <2>1. /\ queue \in Seq(Event) /\ buffered \in Int /\ sentCount \in Nat
    <3>1. ASSUME kind = "serverStreaming" PROVE queue \in Seq(Event) /\ buffered \in Int /\ sentCount \in Nat
      <4>1. PICK b \in Sizes :
              /\ queue = <<[type |-> "sent", index |-> 1, bytes |-> b]>>
              /\ buffered = b /\ sentCount = 1
        BY <3>1 DEF Init
      <4>2. [type |-> "sent", index |-> 1, bytes |-> b] \in Event
        BY DEF Event
      <4> QED BY <4>1, <4>2
    <3>2. ASSUME kind # "serverStreaming" PROVE queue \in Seq(Event) /\ buffered \in Int /\ sentCount \in Nat
      BY <3>2 DEF Init
    <3> QED BY <3>1, <3>2
  <2>2. paused \in BOOLEAN
    BY Zenon DEF Init
  <2>3. seen \in [{"headers", "sent", "received"} -> Nat] /\ hand \in Seq(Event) /\ Len(hand) <= 1
    BY DEF Init
  <2>4. QueueTypes
    BY <2>1, <2>2, <2>3 DEF Init, QueueTypes
  <2>5. CallTypes
    BY DEF Init, Status, CallTypes
  <2>6. sendingClosed \in BOOLEAN /\ writing \in BOOLEAN
    BY DEF Init
  <2>7. /\ accepted \in 0..MaxSends /\ begun \in 0..MaxSends
        /\ closing \in {"no", "waiting", "ended", "skipped"} /\ receivedCount \in Nat
    BY DEF Init
  <2> QED BY <2>1, <2>4, <2>5, <2>6, <2>7 DEF TypeOK, SendTypes
<1>2. Flowing
  BY <1>1 DEF Init, Flowing, TypeOK, QueueTypes, CallTypes, SendTypes
<1>3. Reading
  BY DEF Init, Reading, NoReaderLost
<1>4. Closing
  BY DEF Init, Closing, NothingAfterEnd
<1> QED BY <1>1, <1>2, <1>3, <1>4 DEF IInv

LEMMA Bytes == ASSUME NEW e \in Event PROVE e.bytes \in Int
<1>1. Sizes \subseteq Int
  BY StreamAssumption
<1>2. e.bytes \in Sizes
  BY DEF Event
<1> QED BY <1>1, <1>2

\* What push leaves: a readable that is paused has a backlog, and a waiting
\* reader still has an empty queue before it.
LEMMA PushStep ==
  ASSUME TypeOK, Flowing, NoReaderLost, NEW e \in Event, Push(e)
  PROVE  /\ queue' \in Seq(Event) /\ hand' \in Seq(Event) /\ Len(hand') <= 1
         /\ buffered' \in Int /\ paused' \in BOOLEAN
         /\ conversionError' \in {"none", "full", "bad"}
         /\ paused' /\ ~settled => Len(queue') > ResumeAt
         /\ consumer = "waiting" => queue' = <<>>
         /\ consumer # "waiting" => hand' = hand
         /\ consumer = "waiting" /\ Accepts(e) => hand' # <<>>
<1> USE StreamAssumption DEF TypeOK, QueueTypes, CallTypes, SendTypes
<1>0. e.bytes \in Int
  BY Bytes
<1>1. CASE Accepts(e) /\ consumer = "waiting"
  <2>1. /\ hand' = <<e>> /\ queue' = queue /\ buffered' = buffered
        /\ conversionError' = conversionError
        /\ paused' = (paused \/ (Readable /\ Len(queue') >= PauseAt))
    BY <1>1 DEF Push
  <2> QED BY <1>1, <2>1 DEF Flowing, NoReaderLost
<1>2. CASE Accepts(e) /\ consumer # "waiting"
  <2>1. /\ queue' = Append(queue, e) /\ buffered' = buffered + e.bytes
        /\ hand' = hand /\ conversionError' = conversionError
        /\ paused' = (paused \/ (Readable /\ Len(queue') >= PauseAt))
    BY <1>2 DEF Push
  <2>2. queue' \in Seq(Event) /\ Len(queue') = Len(queue) + 1
    BY <2>1
  <2>3. paused' /\ ~settled => Len(queue') > ResumeAt
    BY <2>1, <2>2 DEF Flowing
  <2> QED BY <1>0, <1>2, <2>1, <2>2, <2>3
<1>3. CASE ~Accepts(e)
  <2>1. /\ queue' = queue /\ buffered' = buffered /\ hand' = hand
        /\ paused' = paused /\ conversionError' \in {conversionError, "full"}
    BY <1>3 DEF Push, queueVars
  <2> QED BY <1>3, <2>1 DEF Flowing, NoReaderLost
<1> QED BY <1>1, <1>2, <1>3

LEMMA PushOnlyStep ==
  ASSUME TypeOK, Flowing, NoReaderLost, NEW e \in Event, PushOnly(e)
  PROVE  /\ Push(e)
         /\ consumer' \in {"idle", "waiting", "handed", "done"}
         /\ consumer' = "waiting" => consumer = "waiting"
         /\ consumer' = "handed" => consumer = "handed" \/ hand' # <<>>
         /\ watchdog' \in BOOLEAN
<1>1. consumer' = Reader(Accepts(e), FALSE) /\ Push(e)
  BY DEF PushOnly
<1>2. consumer' \in {consumer, "handed", "done", "waiting"} /\ (consumer' = "waiting" => consumer = "waiting")
        /\ (consumer' = "handed" => consumer = "handed" \/ hand' # <<>>)
  BY <1>1, PushStep DEF Reader
<1>3. watchdog' \in BOOLEAN
  BY Zenon DEF PushOnly, TypeOK, QueueTypes, CallTypes, SendTypes
<1> QED BY <1>1, <1>2, <1>3 DEF TypeOK, QueueTypes, CallTypes, SendTypes

\* finish(), and close() for the reader.
LEMMA Ending ==
  ASSUME TypeOK, ~settled, NEW force \in BOOLEAN, NEW handed \in BOOLEAN,
         Finish(force), consumer' = Reader(handed, settled')
  PROVE  /\ settled' \in BOOLEAN
         /\ outcome' \in {"none", "success", "error", "cancelled", "timeout"}
         /\ consumer' \in {"idle", "waiting", "handed", "done"}
         /\ consumer' = "waiting" => consumer = "waiting" /\ ~settled'
         /\ consumer' = "handed" => consumer = "handed" \/ handed
<1>1. /\ settled' \in BOOLEAN
      /\ outcome' \in {"none", "success", "error", "cancelled", "timeout"}
  BY DEF TypeOK, QueueTypes, CallTypes, SendTypes, Finish, Result, endVars
<1>2. Reader(handed, settled') \in {"idle", "waiting", "handed", "done"}
  BY <1>1 DEF TypeOK, QueueTypes, CallTypes, SendTypes, Reader
<1>3. /\ Reader(handed, settled') = "waiting" => consumer = "waiting" /\ ~settled'
      /\ Reader(handed, settled') = "handed" => consumer = "handed" \/ handed
  BY <1>1 DEF TypeOK, QueueTypes, CallTypes, SendTypes, Reader
<1> QED BY <1>1, <1>2, <1>3

LEMMA Typing == IInv /\ [Next]_vars => TypeOK'
<1> SUFFICES ASSUME IInv, [Next]_vars PROVE TypeOK'
  OBVIOUS
<1> USE StreamAssumption DEF IInv, queueVars, callVars, endVars, sendVars, countVars, Reading,
        TypeOK, QueueTypes, CallTypes, SendTypes, Status, Drain
<1>1. CASE OnMetadata
  <2>1. PICK b \in Sizes : PushOnly([type |-> "headers", index |-> 0, bytes |-> b])
    BY <1>1 DEF OnMetadata
  <2>2. [type |-> "headers", index |-> 0, bytes |-> b] \in Event
    BY DEF Event
  <2>3. QueueTypes'
    BY <1>1, <2>1, <2>2, PushOnlyStep, PushStep DEF OnMetadata
  <2>4. CallTypes'
    BY <1>1, <2>1, <2>2, PushOnlyStep, PushStep DEF OnMetadata
  <2>5. SendTypes'
    BY <1>1, <2>1, <2>2, PushOnlyStep, PushStep DEF OnMetadata
  <2> QED BY <2>3, <2>4, <2>5
<1>2. CASE Arrive
  <2>1. QueueTypes'
    BY <1>2 DEF Arrive
  <2>2. CallTypes'
    BY <1>2 DEF Arrive
  <2>3. SendTypes'
    BY <1>2 DEF Arrive
  <2> QED BY <2>1, <2>2, <2>3
<1>3. CASE OnData
  <2>1. CASE receivedCount' = receivedCount + 1 /\ \E b \in Sizes :
          PushOnly([type |-> "received", index |-> receivedCount', bytes |-> b])
    <3>1. PICK b \in Sizes :
            PushOnly([type |-> "received", index |-> receivedCount', bytes |-> b])
      BY <2>1
    <3>2. [type |-> "received", index |-> receivedCount', bytes |-> b] \in Event
      BY <2>1 DEF Event
    <3>3. QueueTypes'
      BY <1>3, <2>1, <3>1, <3>2, PushOnlyStep, PushStep DEF OnData
    <3>4. CallTypes'
      BY <1>3, <2>1, <3>1, <3>2, PushOnlyStep, PushStep DEF OnData
    <3>5. SendTypes'
      BY <1>3, <2>1, <3>1, <3>2, PushOnlyStep, PushStep DEF OnData
    <3> QED BY <3>3, <3>4, <3>5
  <2>2. CASE conversionError' = "bad" /\ watchdog' = TRUE
          /\ UNCHANGED <<queueVars, consumer, paused, receivedCount>>
    <3>1. QueueTypes'
      BY <1>3, <2>2 DEF OnData
    <3>2. CallTypes'
      BY <1>3, <2>2 DEF OnData
    <3>3. SendTypes'
      BY <1>3, <2>2 DEF OnData
    <3> QED BY <3>1, <3>2, <3>3
  <2> QED BY <1>3, <2>1, <2>2 DEF OnData
<1>4. ASSUME NEW s \in Status, OnStatus(s) PROVE TypeOK'
  <2>1. ~settled /\ Finish(FALSE) /\ consumer' = Reader(FALSE, settled')
    BY <1>4 DEF OnStatus
  <2>2. /\ settled' \in BOOLEAN
        /\ outcome' \in {"none", "success", "error", "cancelled", "timeout"}
        /\ consumer' \in {"idle", "waiting", "handed", "done"}
        /\ consumer' = "waiting" => consumer = "waiting" /\ ~settled'
        /\ consumer' = "handed" => consumer = "handed"
    BY <2>1, Ending
  <2>3. watchdog' \in BOOLEAN
    BY <1>4, <2>2, Zenon DEF OnStatus, Arm
  <2>4. QueueTypes'
    BY <1>4, <2>2, <2>3 DEF OnStatus
  <2>5. CallTypes'
    BY <1>4, <2>2, <2>3 DEF OnStatus
  <2>6. SendTypes'
    BY <1>4, <2>2, <2>3 DEF OnStatus
  <2> QED BY <2>4, <2>5, <2>6
<1>5. CASE OnError
  <2>1. ~settled /\ Finish(FALSE) /\ consumer' = Reader(FALSE, settled')
    BY <1>5 DEF OnError
  <2>2. /\ settled' \in BOOLEAN
        /\ outcome' \in {"none", "success", "error", "cancelled", "timeout"}
        /\ consumer' \in {"idle", "waiting", "handed", "done"}
        /\ consumer' = "waiting" => consumer = "waiting" /\ ~settled'
        /\ consumer' = "handed" => consumer = "handed"
    BY <2>1, Ending
  <2>3. watchdog' \in BOOLEAN
    BY <1>5, <2>2, Zenon DEF OnError, Arm
  <2>4. QueueTypes'
    BY <1>5, <2>2, <2>3 DEF OnError
  <2>5. CallTypes'
    BY <1>5, <2>2, <2>3 DEF OnError
  <2>6. SendTypes'
    BY <1>5, <2>2, <2>3 DEF OnError
  <2> QED BY <2>4, <2>5, <2>6
<1>6. CASE OnEnd
  <2>1. ~settled /\ Finish(FALSE) /\ consumer' = Reader(FALSE, settled')
    BY <1>6 DEF OnEnd
  <2>2. /\ settled' \in BOOLEAN
        /\ outcome' \in {"none", "success", "error", "cancelled", "timeout"}
        /\ consumer' \in {"idle", "waiting", "handed", "done"}
        /\ consumer' = "waiting" => consumer = "waiting" /\ ~settled'
        /\ consumer' = "handed" => consumer = "handed"
    BY <2>1, Ending
  <2>3. watchdog' \in BOOLEAN
    BY <1>6, <2>2, Zenon DEF OnEnd, Arm
  <2>4. QueueTypes'
    BY <1>6, <2>2, <2>3 DEF OnEnd
  <2>5. CallTypes'
    BY <1>6, <2>2, <2>3 DEF OnEnd
  <2>6. SendTypes'
    BY <1>6, <2>2, <2>3 DEF OnEnd
  <2> QED BY <2>4, <2>5, <2>6
<1>7. CASE OnResponse
  <2>1. ~settled /\ Finish(FALSE) /\ consumer' = Reader(hand' # <<>>, settled')
    BY <1>7 DEF OnResponse
  <2>2. (hand' # <<>>) \in BOOLEAN
    OBVIOUS
  <2>3. /\ settled' \in BOOLEAN
        /\ outcome' \in {"none", "success", "error", "cancelled", "timeout"}
        /\ consumer' \in {"idle", "waiting", "handed", "done"}
        /\ consumer' = "waiting" => consumer = "waiting" /\ ~settled'
        /\ consumer' = "handed" => consumer = "handed" \/ hand' # <<>>
    BY <2>1, <2>2, Ending
  <2>4. watchdog' \in BOOLEAN
    BY <1>7, Zenon DEF OnResponse
  <2>5. CASE UNCHANGED <<queueVars, paused, receivedCount>>
               /\ callError' \in BOOLEAN /\ conversionError' \in {"none", "full", "bad"}
    <3>1. QueueTypes'
      BY <1>7, <2>3, <2>4, <2>5 DEF OnResponse
    <3>2. CallTypes'
      BY <1>7, <2>3, <2>4, <2>5 DEF OnResponse
    <3>3. SendTypes'
      BY <1>7, <2>3, <2>4, <2>5 DEF OnResponse
    <3> QED BY <3>1, <3>2, <3>3
  <2>6. CASE receivedCount' = receivedCount + 1 /\ UNCHANGED callError /\ \E b \in Sizes :
          Push([type |-> "received", index |-> receivedCount', bytes |-> b])
    <3>1. PICK b \in Sizes :
            Push([type |-> "received", index |-> receivedCount', bytes |-> b])
      BY <2>6
    <3>2. [type |-> "received", index |-> receivedCount', bytes |-> b] \in Event
      BY <2>6 DEF Event
    <3>3. QueueTypes'
      BY <1>7, <2>3, <2>4, <2>6, <3>1, <3>2, PushStep DEF OnResponse
    <3>4. CallTypes'
      BY <1>7, <2>3, <2>4, <2>6, <3>1, <3>2, PushStep DEF OnResponse
    <3>5. SendTypes'
      BY <1>7, <2>3, <2>4, <2>6, <3>1, <3>2, PushStep DEF OnResponse
    <3> QED BY <3>3, <3>4, <3>5
  <2> QED BY <1>7, <2>5, <2>6 DEF OnResponse
<1>8. CASE OnWatchdog
  <2>1. ~settled /\ Finish(TRUE) /\ consumer' = Reader(FALSE, settled')
    BY <1>8 DEF OnWatchdog, Finish, Complete
  <2>2. /\ settled' \in BOOLEAN
        /\ outcome' \in {"none", "success", "error", "cancelled", "timeout"}
        /\ consumer' \in {"idle", "waiting", "handed", "done"}
        /\ consumer' = "waiting" => consumer = "waiting" /\ ~settled'
        /\ consumer' = "handed" => consumer = "handed"
    BY <2>1, Ending
  <2>3. watchdog' \in BOOLEAN
    BY <1>8, <2>2, Zenon DEF OnWatchdog
  <2>4. QueueTypes'
    BY <1>8, <2>2, <2>3 DEF OnWatchdog
  <2>5. CallTypes'
    BY <1>8, <2>2, <2>3 DEF OnWatchdog
  <2>6. SendTypes'
    BY <1>8, <2>2, <2>3 DEF OnWatchdog
  <2> QED BY <2>4, <2>5, <2>6
<1>9. CASE Cancel
  <2>1. QueueTypes'
    BY <1>9 DEF Cancel
  <2>2. CallTypes'
    BY <1>9 DEF Cancel
  <2>3. SendTypes'
    BY <1>9 DEF Cancel
  <2> QED BY <2>1, <2>2, <2>3
<1>10. CASE Send
  <2>1. QueueTypes'
    BY <1>10 DEF Send
  <2>2. CallTypes'
    BY <1>10 DEF Send
  <2>3. SendTypes'
    BY <1>10 DEF Send
  <2> QED BY <2>1, <2>2, <2>3
<1>11. CASE WriteStart
  <2>1. writing' \in BOOLEAN
    BY <1>11, Zenon DEF WriteStart
  <2>2. QueueTypes'
    BY <1>11, <2>1 DEF WriteStart
  <2>3. CallTypes'
    BY <1>11, <2>1 DEF WriteStart
  <2>4. SendTypes'
    BY <1>11, <2>1 DEF WriteStart
  <2> QED BY <2>2, <2>3, <2>4
<1>12. CASE WriteDone
  <2>1. CASE sentCount' = sentCount + 1 /\ \E b \in Sizes :
          PushOnly([type |-> "sent", index |-> sentCount', bytes |-> b])
    <3>1. PICK b \in Sizes :
            PushOnly([type |-> "sent", index |-> sentCount', bytes |-> b])
      BY <2>1
    <3>2. [type |-> "sent", index |-> sentCount', bytes |-> b] \in Event
      BY <2>1 DEF Event
    <3>3. QueueTypes'
      BY <1>12, <3>1, <3>2, PushOnlyStep, PushStep DEF WriteDone
    <3>4. CallTypes'
      BY <1>12, <3>1, <3>2, PushOnlyStep, PushStep DEF WriteDone
    <3>5. sentCount' \in Nat
      BY <2>1
    <3>6. SendTypes'
      BY <1>12, <3>5 DEF WriteDone
    <3> QED BY <3>3, <3>4, <3>6
  <2>2. CASE UNCHANGED <<queueVars, consumer, paused, conversionError, watchdog, sentCount>>
    <3>1. QueueTypes'
      BY <1>12, <2>2 DEF WriteDone
    <3>2. CallTypes'
      BY <1>12, <2>2 DEF WriteDone
    <3>3. SendTypes'
      BY <1>12, <2>2 DEF WriteDone
    <3> QED BY <3>1, <3>2, <3>3
  <2> QED BY <1>12, <2>1, <2>2 DEF WriteDone
<1>13. CASE FinishSending
  <2>1. QueueTypes'
    BY <1>13 DEF FinishSending
  <2>2. CallTypes'
    BY <1>13 DEF FinishSending
  <2>3. SendTypes'
    BY <1>13 DEF FinishSending
  <2> QED BY <2>1, <2>2, <2>3
<1>14. CASE HalfClose
  <2>1. QueueTypes'
    BY <1>14 DEF HalfClose
  <2>2. CallTypes'
    BY <1>14 DEF HalfClose
  <2>3. SendTypes'
    BY <1>14 DEF HalfClose
  <2> QED BY <2>1, <2>2, <2>3
<1>15. CASE Take
  <2>1. /\ queue' \in Seq(Event) /\ Head(queue) \in Event
    BY <1>15 DEF Take
  <2>2. Head(queue).bytes \in Int /\ Head(queue).index \in Nat
        /\ Head(queue).type \in {"headers", "sent", "received"}
    BY <2>1, Bytes DEF Event
  <2>3. paused' \in BOOLEAN
    BY <1>15, Zenon DEF Take
  <2>4. buffered' \in Int /\ seen' \in [{"headers", "sent", "received"} -> Nat]
    BY <1>15, <2>2, SMTT(30) DEF Take
  <2>5. QueueTypes'
    BY <1>15, <2>1, <2>3, <2>4 DEF Take
  <2>6. CallTypes'
    BY <1>15, <2>1, <2>3, <2>4 DEF Take
  <2>7. SendTypes'
    BY <1>15, <2>1, <2>3, <2>4 DEF Take
  <2> QED BY <2>5, <2>6, <2>7
<1>16. CASE Wait
  <2>1. QueueTypes'
    BY <1>16 DEF Wait
  <2>2. CallTypes'
    BY <1>16 DEF Wait
  <2>3. SendTypes'
    BY <1>16 DEF Wait
  <2> QED BY <2>1, <2>2, <2>3
<1>17. CASE Resume
  <2>1. /\ hand # <<>> => Head(hand) \in Event
    OBVIOUS
  <2>2. hand # <<>> => /\ Head(hand).index \in Nat
                      /\ Head(hand).type \in {"headers", "sent", "received"}
    BY <2>1 DEF Event
  <2>3. paused' \in BOOLEAN
    BY <1>17, Zenon DEF Resume
  <2>4. seen' \in [{"headers", "sent", "received"} -> Nat]
    BY <1>17, <2>2 DEF Resume, Reading
  <2>5. QueueTypes'
    BY <1>17, <2>3, <2>4 DEF Resume
  <2>6. CallTypes'
    BY <1>17, <2>3, <2>4 DEF Resume
  <2>7. SendTypes'
    BY <1>17, <2>3, <2>4 DEF Resume
  <2> QED BY <2>5, <2>6, <2>7
<1>18. CASE UNCHANGED vars
  <2>1. QueueTypes'
    BY <1>18 DEF vars
  <2>2. CallTypes'
    BY <1>18 DEF vars
  <2>3. SendTypes'
    BY <1>18 DEF vars
  <2> QED BY <2>1, <2>2, <2>3
<1> QED BY <1>1, <1>2, <1>3, <1>4, <1>5, <1>6, <1>7, <1>8, <1>9, <1>10, <1>11, <1>12, <1>13, <1>14, <1>15, <1>16, <1>17, <1>18
       DEF Next, Consumer

LEMMA FlowingStep == IInv /\ [Next]_vars => Flowing'
<1> SUFFICES ASSUME IInv, [Next]_vars PROVE Flowing'
  OBVIOUS
<1> USE StreamAssumption DEF IInv, queueVars, callVars, endVars, sendVars, countVars,
        TypeOK, QueueTypes, CallTypes, SendTypes, Flowing, Reading, NoReaderLost, Drain
<1>1. CASE OnMetadata
  <2>1. PICK b \in Sizes : PushOnly([type |-> "headers", index |-> 0, bytes |-> b])
    BY <1>1 DEF OnMetadata
  <2>2. [type |-> "headers", index |-> 0, bytes |-> b] \in Event
    BY DEF Event
  <2> QED BY <1>1, <2>1, <2>2, PushOnlyStep, PushStep DEF OnMetadata
<1>2. CASE Arrive
  BY <1>2 DEF Arrive
<1>3. CASE OnData
  <2>1. CASE receivedCount' = receivedCount + 1 /\ \E b \in Sizes :
          PushOnly([type |-> "received", index |-> receivedCount', bytes |-> b])
    <3>1. PICK b \in Sizes :
            PushOnly([type |-> "received", index |-> receivedCount', bytes |-> b])
      BY <2>1
    <3>2. [type |-> "received", index |-> receivedCount', bytes |-> b] \in Event
      BY <2>1 DEF Event
    <3> QED BY <1>3, <2>1, <3>1, <3>2, PushOnlyStep, PushStep DEF OnData
  <2>2. CASE conversionError' = "bad" /\ watchdog' = TRUE
          /\ UNCHANGED <<queueVars, consumer, paused, receivedCount>>
    BY <1>3, <2>2 DEF OnData
  <2> QED BY <1>3, <2>1, <2>2 DEF OnData
<1>4. ASSUME NEW s \in Status, OnStatus(s) PROVE Flowing'
  BY <1>4 DEF OnStatus
<1>5. CASE OnError
  BY <1>5 DEF OnError
<1>6. CASE OnEnd
  BY <1>6 DEF OnEnd
<1>7. CASE OnResponse
  <2>4. CASE UNCHANGED <<queueVars, paused, receivedCount>>
    BY <1>7, <2>4 DEF OnResponse
  <2>5. CASE receivedCount' = receivedCount + 1 /\ UNCHANGED callError /\ \E b \in Sizes :
          Push([type |-> "received", index |-> receivedCount', bytes |-> b])
    <3>1. PICK b \in Sizes :
            Push([type |-> "received", index |-> receivedCount', bytes |-> b])
      BY <2>5
    <3>2. [type |-> "received", index |-> receivedCount', bytes |-> b] \in Event
      BY <2>5 DEF Event
    <3> QED BY <1>7, <2>5, <3>1, <3>2, PushStep DEF OnResponse
  <2> QED BY <1>7, <2>4, <2>5 DEF OnResponse
<1>8. CASE OnWatchdog
  BY <1>8 DEF OnWatchdog
<1>9. CASE Cancel
  BY <1>9 DEF Cancel
<1>10. CASE Send
  BY <1>10 DEF Send
<1>11. CASE WriteStart
  BY <1>11 DEF WriteStart
<1>12. CASE WriteDone
  <2>1. CASE sentCount' = sentCount + 1 /\ \E b \in Sizes :
          PushOnly([type |-> "sent", index |-> sentCount', bytes |-> b])
    <3>1. PICK b \in Sizes :
            PushOnly([type |-> "sent", index |-> sentCount', bytes |-> b])
      BY <2>1
    <3>2. [type |-> "sent", index |-> sentCount', bytes |-> b] \in Event
      BY <2>1 DEF Event
    <3> QED BY <1>12, <2>1, <3>1, <3>2, PushOnlyStep, PushStep DEF WriteDone
  <2>2. CASE UNCHANGED <<queueVars, consumer, paused, conversionError, watchdog, sentCount>>
    BY <1>12, <2>2 DEF WriteDone
  <2> QED BY <1>12, <2>1, <2>2 DEF WriteDone
<1>13. CASE FinishSending
  BY <1>13 DEF FinishSending
<1>14. CASE HalfClose
  BY <1>14 DEF HalfClose
<1>15. CASE Take
  BY <1>15 DEF Take
<1>16. CASE Wait
  BY <1>16 DEF Wait
<1>17. CASE Resume
  BY <1>17 DEF Resume
<1>18. CASE UNCHANGED vars
  BY <1>18 DEF vars
<1> QED BY <1>1, <1>2, <1>3, <1>4, <1>5, <1>6, <1>7, <1>8, <1>9, <1>10, <1>11, <1>12, <1>13, <1>14, <1>15, <1>16, <1>17, <1>18
       DEF Next, Consumer

LEMMA ReaderStep == IInv /\ [Next]_vars => Reading'
<1> SUFFICES ASSUME IInv, [Next]_vars PROVE Reading'
  OBVIOUS
<1> USE StreamAssumption DEF IInv, queueVars, callVars, endVars, sendVars, countVars,
        TypeOK, QueueTypes, CallTypes, SendTypes, Reading, NoReaderLost, Drain
<1>1. CASE OnMetadata
  <2>1. PICK b \in Sizes : PushOnly([type |-> "headers", index |-> 0, bytes |-> b])
    BY <1>1 DEF OnMetadata
  <2>2. [type |-> "headers", index |-> 0, bytes |-> b] \in Event
    BY DEF Event
  <2> QED BY <1>1, <2>1, <2>2, PushOnlyStep, PushStep DEF OnMetadata
<1>2. CASE Arrive
  BY <1>2 DEF Arrive
<1>3. CASE OnData
  <2>1. CASE receivedCount' = receivedCount + 1 /\ \E b \in Sizes :
          PushOnly([type |-> "received", index |-> receivedCount', bytes |-> b])
    <3>1. PICK b \in Sizes :
            PushOnly([type |-> "received", index |-> receivedCount', bytes |-> b])
      BY <2>1
    <3>2. [type |-> "received", index |-> receivedCount', bytes |-> b] \in Event
      BY <2>1 DEF Event
    <3> QED BY <1>3, <2>1, <3>1, <3>2, PushOnlyStep, PushStep DEF OnData
  <2>2. CASE conversionError' = "bad" /\ watchdog' = TRUE
          /\ UNCHANGED <<queueVars, consumer, paused, receivedCount>>
    BY <1>3, <2>2 DEF OnData
  <2> QED BY <1>3, <2>1, <2>2 DEF OnData
<1>4. ASSUME NEW s \in Status, OnStatus(s) PROVE Reading'
  <2>1. ~settled /\ Finish(FALSE) /\ consumer' = Reader(FALSE, settled')
    BY <1>4 DEF OnStatus
  <2>2. /\ settled' \in BOOLEAN
        /\ outcome' \in {"none", "success", "error", "cancelled", "timeout"}
        /\ consumer' \in {"idle", "waiting", "handed", "done"}
        /\ consumer' = "waiting" => consumer = "waiting" /\ ~settled'
        /\ consumer' = "handed" => consumer = "handed"
    BY <2>1, Ending
  <2> QED BY <1>4, <2>2 DEF OnStatus
<1>5. CASE OnError
  <2>1. ~settled /\ Finish(FALSE) /\ consumer' = Reader(FALSE, settled')
    BY <1>5 DEF OnError
  <2>2. /\ settled' \in BOOLEAN
        /\ outcome' \in {"none", "success", "error", "cancelled", "timeout"}
        /\ consumer' \in {"idle", "waiting", "handed", "done"}
        /\ consumer' = "waiting" => consumer = "waiting" /\ ~settled'
        /\ consumer' = "handed" => consumer = "handed"
    BY <2>1, Ending
  <2> QED BY <1>5, <2>2 DEF OnError
<1>6. CASE OnEnd
  <2>1. ~settled /\ Finish(FALSE) /\ consumer' = Reader(FALSE, settled')
    BY <1>6 DEF OnEnd
  <2>2. /\ settled' \in BOOLEAN
        /\ outcome' \in {"none", "success", "error", "cancelled", "timeout"}
        /\ consumer' \in {"idle", "waiting", "handed", "done"}
        /\ consumer' = "waiting" => consumer = "waiting" /\ ~settled'
        /\ consumer' = "handed" => consumer = "handed"
    BY <2>1, Ending
  <2> QED BY <1>6, <2>2 DEF OnEnd
<1>7. CASE OnResponse
  <2>1. ~settled /\ Finish(FALSE) /\ consumer' = Reader(hand' # <<>>, settled')
    BY <1>7 DEF OnResponse
  <2>2. (hand' # <<>>) \in BOOLEAN
    OBVIOUS
  <2>3. /\ settled' \in BOOLEAN
        /\ outcome' \in {"none", "success", "error", "cancelled", "timeout"}
        /\ consumer' \in {"idle", "waiting", "handed", "done"}
        /\ consumer' = "waiting" => consumer = "waiting" /\ ~settled'
        /\ consumer' = "handed" => consumer = "handed" \/ hand' # <<>>
    BY <2>1, <2>2, Ending
  <2>4. CASE UNCHANGED <<queueVars, paused, receivedCount>>
               /\ callError' \in BOOLEAN /\ conversionError' \in {"none", "full", "bad"}
    BY <1>7, <2>3, <2>4 DEF OnResponse
  <2>5. CASE receivedCount' = receivedCount + 1 /\ UNCHANGED callError /\ \E b \in Sizes :
          Push([type |-> "received", index |-> receivedCount', bytes |-> b])
    <3>1. PICK b \in Sizes :
            Push([type |-> "received", index |-> receivedCount', bytes |-> b])
      BY <2>5
    <3>2. [type |-> "received", index |-> receivedCount', bytes |-> b] \in Event
      BY <2>5 DEF Event
    <3> QED BY <1>7, <2>3, <2>5, <3>1, <3>2, PushStep DEF OnResponse
  <2> QED BY <1>7, <2>4, <2>5 DEF OnResponse
<1>8. CASE OnWatchdog
  <2>1. ~settled /\ Finish(TRUE) /\ consumer' = Reader(FALSE, settled')
    BY <1>8 DEF OnWatchdog, Finish, Complete
  <2>2. /\ settled' \in BOOLEAN
        /\ outcome' \in {"none", "success", "error", "cancelled", "timeout"}
        /\ consumer' \in {"idle", "waiting", "handed", "done"}
        /\ consumer' = "waiting" => consumer = "waiting" /\ ~settled'
        /\ consumer' = "handed" => consumer = "handed"
    BY <2>1, Ending
  <2> QED BY <1>8, <2>2 DEF OnWatchdog
<1>9. CASE Cancel
  BY <1>9 DEF Cancel
<1>10. CASE Send
  BY <1>10 DEF Send
<1>11. CASE WriteStart
  BY <1>11 DEF WriteStart
<1>12. CASE WriteDone
  <2>1. CASE sentCount' = sentCount + 1 /\ \E b \in Sizes :
          PushOnly([type |-> "sent", index |-> sentCount', bytes |-> b])
    <3>1. PICK b \in Sizes :
            PushOnly([type |-> "sent", index |-> sentCount', bytes |-> b])
      BY <2>1
    <3>2. [type |-> "sent", index |-> sentCount', bytes |-> b] \in Event
      BY <2>1 DEF Event
    <3> QED BY <1>12, <2>1, <3>1, <3>2, PushOnlyStep, PushStep DEF WriteDone
  <2>2. CASE UNCHANGED <<queueVars, consumer, paused, conversionError, watchdog, sentCount>>
    BY <1>12, <2>2 DEF WriteDone
  <2> QED BY <1>12, <2>1, <2>2 DEF WriteDone
<1>13. CASE FinishSending
  BY <1>13 DEF FinishSending
<1>14. CASE HalfClose
  BY <1>14 DEF HalfClose
<1>15. CASE Take
  BY <1>15 DEF Take
<1>16. CASE Wait
  BY <1>16 DEF Wait
<1>17. CASE Resume
  BY <1>17 DEF Resume
<1>18. CASE UNCHANGED vars
  BY <1>18 DEF vars
<1> QED BY <1>1, <1>2, <1>3, <1>4, <1>5, <1>6, <1>7, <1>8, <1>9, <1>10, <1>11, <1>12, <1>13, <1>14, <1>15, <1>16, <1>17, <1>18
       DEF Next, Consumer

LEMMA ClosingStep == IInv /\ [Next]_vars => Closing'
<1> SUFFICES ASSUME IInv, [Next]_vars PROVE Closing'
  OBVIOUS
<1> USE StreamAssumption DEF IInv, queueVars, callVars, endVars, sendVars, countVars,
        TypeOK, QueueTypes, CallTypes, SendTypes, Closing, NothingAfterEnd
<1>1. CASE OnMetadata
  BY <1>1 DEF OnMetadata
<1>2. CASE Arrive
  BY <1>2 DEF Arrive
<1>3. CASE OnData
  BY <1>3 DEF OnData
<1>4. ASSUME NEW s \in Status, OnStatus(s) PROVE Closing'
  BY <1>4 DEF OnStatus
<1>5. CASE OnError
  BY <1>5 DEF OnError
<1>6. CASE OnEnd
  BY <1>6 DEF OnEnd
<1>7. CASE OnResponse
  BY <1>7 DEF OnResponse
<1>8. CASE OnWatchdog
  BY <1>8 DEF OnWatchdog
<1>9. CASE Cancel
  BY <1>9 DEF Cancel
<1>10. CASE Send
  BY <1>10 DEF Send
<1>11. CASE WriteStart
  BY <1>11 DEF WriteStart
<1>12. CASE WriteDone
  BY <1>12 DEF WriteDone
<1>13. CASE FinishSending
  BY <1>13 DEF FinishSending
<1>14. CASE HalfClose
  BY <1>14 DEF HalfClose
<1>15. CASE Take
  BY <1>15 DEF Take
<1>16. CASE Wait
  BY <1>16 DEF Wait
<1>17. CASE Resume
  BY <1>17 DEF Resume
<1>18. CASE UNCHANGED vars
  BY <1>18 DEF vars
<1> QED BY <1>1, <1>2, <1>3, <1>4, <1>5, <1>6, <1>7, <1>8, <1>9, <1>10, <1>11, <1>12, <1>13, <1>14, <1>15, <1>16, <1>17, <1>18
       DEF Next, Consumer

THEOREM Invariance == Spec => []IInv
<1>1. IInv /\ [Next]_vars => IInv'
  BY Typing, FlowingStep, ReaderStep, ClosingStep DEF IInv
<1> QED BY <1>1, InitInv, PTL DEF Spec

\* Typing of the session, its queue and its consumer.
THEOREM TypeCorrect == Spec => []TypeOK
<1>1. IInv => TypeOK
  BY DEF IInv
<1> QED BY <1>1, Invariance, PTL

\* For any watermarks with ResumeAt < PauseAt, a paused readable has a backlog
\* that the consumer still has to take, and is resumed on the way.
THEOREM NeverStuck == Spec => []Flowing
<1>1. IInv => Flowing
  BY DEF IInv
<1> QED BY <1>1, Invariance, PTL

\* A reader waits only while the queue is empty and open.
THEOREM ReadersServed == Spec => []NoReaderLost
<1>1. IInv => NoReaderLost
  BY DEF IInv, Reading
<1> QED BY <1>1, Invariance, PTL

\* Nothing is written after writable.end().
THEOREM EndIsLast == Spec => []NothingAfterEnd
<1>1. IInv => NothingAfterEnd
  BY DEF IInv, Closing
<1> QED BY <1>1, Invariance, PTL
-----------------------------------------------------------------------------
(***************************************************************************)
(* What the consumer is given.  Every step adds one event to those still   *)
(* to see, takes the first of them, or leaves them alone.                  *)
(***************************************************************************)
Handed == hand # <<>> => consumer = "handed"

\* A step that leaves the events alone.
Quiet ==
  /\ UNCHANGED <<hand, queue, buffered, seen, sentCount, receivedCount>>
  /\ conversionError' \in {conversionError, "bad"}
  /\ settled => settled'

\* An event that is pushed has been counted.
Counted(e) ==
  \/ e.type = "headers" /\ UNCHANGED countVars
  \/ /\ e.type = "received" /\ e.index = receivedCount + 1 /\ ~settled
     /\ receivedCount' = receivedCount + 1 /\ UNCHANGED sentCount
  \/ /\ e.type = "sent" /\ e.index = sentCount + 1
     /\ sentCount' = sentCount + 1 /\ UNCHANGED receivedCount

Pushes ==
  /\ UNCHANGED seen
  /\ settled => settled'
  /\ \E e \in Event : Push(e) /\ Counted(e)

\* The consumer sees the event that comes next.
Sees ==
  /\ UNCHANGED <<sentCount, receivedCount, conversionError, settled>>
  /\ \/ /\ hand = <<>> /\ hand' = <<>> /\ queue # <<>>
        /\ queue' = Tail(queue) /\ buffered' = buffered - Head(queue).bytes
        /\ seen' = [seen EXCEPT ![Head(queue).type] = Head(queue).index]
     \/ /\ hand # <<>> /\ hand' = <<>> /\ UNCHANGED <<queue, buffered>>
        /\ seen' = [seen EXCEPT ![Head(hand).type] = Head(hand).index]

LEMMA StepShape ==
  ASSUME IInv, Handed, [Next]_vars
  PROVE  Quiet \/ Pushes \/ Sees
<1> USE DEF IInv, queueVars, callVars, endVars, sendVars, countVars
<1>1. CASE OnMetadata
  <2>1. PICK b \in Sizes : PushOnly([type |-> "headers", index |-> 0, bytes |-> b])
    BY <1>1 DEF OnMetadata
  <2>2. [type |-> "headers", index |-> 0, bytes |-> b] \in Event
    BY DEF Event
  <2> QED BY <1>1, <2>1, <2>2 DEF OnMetadata, PushOnly, Pushes, Counted
<1>2. CASE Arrive
  BY <1>2 DEF Arrive, Quiet
<1>3. CASE OnData
  <2>1. CASE receivedCount' = receivedCount + 1 /\ \E b \in Sizes :
          PushOnly([type |-> "received", index |-> receivedCount', bytes |-> b])
    <3>1. PICK b \in Sizes :
            PushOnly([type |-> "received", index |-> receivedCount', bytes |-> b])
      BY <2>1
    <3>2. [type |-> "received", index |-> receivedCount', bytes |-> b] \in Event
      BY <2>1 DEF Event, TypeOK, SendTypes
    <3> QED BY <1>3, <2>1, <3>1, <3>2 DEF OnData, PushOnly, Pushes, Counted
  <2>2. CASE conversionError' = "bad" /\ watchdog' = TRUE
          /\ UNCHANGED <<queueVars, consumer, paused, receivedCount>>
    BY <1>3, <2>2 DEF OnData, Quiet
  <2> QED BY <1>3, <2>1, <2>2 DEF OnData
<1>4. ASSUME NEW s \in Status, OnStatus(s) PROVE Quiet
  BY <1>4 DEF OnStatus, Quiet
<1>5. CASE OnError
  BY <1>5 DEF OnError, Quiet
<1>6. CASE OnEnd
  BY <1>6 DEF OnEnd, Quiet
<1>7. CASE OnResponse
  <2>1. CASE UNCHANGED <<queueVars, paused, conversionError, receivedCount>>
    BY <1>7, <2>1 DEF OnResponse, Quiet
  <2>2. CASE conversionError' = "bad" /\ UNCHANGED <<queueVars, paused, callError, receivedCount>>
    BY <1>7, <2>2 DEF OnResponse, Quiet
  <2>3. CASE receivedCount' = receivedCount + 1 /\ \E b \in Sizes :
          Push([type |-> "received", index |-> receivedCount', bytes |-> b])
    <3>1. PICK b \in Sizes :
            Push([type |-> "received", index |-> receivedCount', bytes |-> b])
      BY <2>3
    <3>2. [type |-> "received", index |-> receivedCount', bytes |-> b] \in Event
      BY <2>3 DEF Event, TypeOK, SendTypes
    <3> QED BY <1>7, <2>3, <3>1, <3>2 DEF OnResponse, Pushes, Counted
  <2> QED BY <1>7, <2>1, <2>2, <2>3 DEF OnResponse
<1>8. CASE OnWatchdog
  BY <1>8 DEF OnWatchdog, Quiet
<1>9. CASE Cancel
  BY <1>9 DEF Cancel, Quiet
<1>10. CASE Send
  BY <1>10 DEF Send, Quiet
<1>11. CASE WriteStart
  BY <1>11 DEF WriteStart, Quiet
<1>12. CASE WriteDone
  <2>1. CASE sentCount' = sentCount + 1 /\ \E b \in Sizes :
          PushOnly([type |-> "sent", index |-> sentCount', bytes |-> b])
    <3>1. PICK b \in Sizes :
            PushOnly([type |-> "sent", index |-> sentCount', bytes |-> b])
      BY <2>1
    <3>2. [type |-> "sent", index |-> sentCount', bytes |-> b] \in Event
      BY <2>1 DEF Event, TypeOK, SendTypes
    <3> QED BY <1>12, <2>1, <3>1, <3>2 DEF WriteDone, PushOnly, Pushes, Counted
  <2>2. CASE UNCHANGED <<queueVars, consumer, paused, conversionError, watchdog, sentCount>>
    BY <1>12, <2>2 DEF WriteDone, Quiet
  <2> QED BY <1>12, <2>1, <2>2 DEF WriteDone
<1>13. CASE FinishSending
  BY <1>13 DEF FinishSending, Quiet
<1>14. CASE HalfClose
  BY <1>14 DEF HalfClose, Quiet
<1>15. CASE Take
  <2>1. hand = <<>>
    BY <1>15 DEF Take, Handed
  <2> QED BY <1>15, <2>1 DEF Take, Sees
<1>16. CASE Wait
  BY <1>16 DEF Wait, Quiet
<1>17. CASE Resume
  BY <1>17 DEF Resume, Reading, Sees
<1>18. CASE UNCHANGED vars
  BY <1>18 DEF vars, Quiet
<1> QED BY <1>1, <1>2, <1>3, <1>4, <1>5, <1>6, <1>7, <1>8, <1>9, <1>10, <1>11, <1>12, <1>13, <1>14, <1>15, <1>16, <1>17, <1>18
       DEF Next, Consumer

\* An event stays in hand until the reader it was handed to goes on.
LEMMA HandedStep == IInv /\ Handed /\ [Next]_vars => Handed'
<1> SUFFICES ASSUME IInv, Handed, [Next]_vars PROVE Handed'
  OBVIOUS
<1> USE DEF IInv, TypeOK, QueueTypes, queueVars, callVars, endVars, sendVars, countVars, Handed
<1>1. ASSUME NEW e \in Event, PushOnly(e) PROVE Handed'
  BY <1>1 DEF PushOnly, Push, Reader
<1>2. ASSUME consumer' = Reader(FALSE, settled'), hand' = hand PROVE Handed'
  BY <1>2 DEF Reader
<1>3. ASSUME UNCHANGED <<hand, consumer>> PROVE Handed'
  BY <1>3
<1>4. CASE OnMetadata
  <2>1. PICK b \in Sizes : PushOnly([type |-> "headers", index |-> 0, bytes |-> b])
    BY <1>4 DEF OnMetadata
  <2> QED BY <1>1, <2>1 DEF Event
<1>5. CASE OnData
  <2>1. CASE receivedCount' = receivedCount + 1 /\ \E b \in Sizes :
          PushOnly([type |-> "received", index |-> receivedCount', bytes |-> b])
    BY <1>1, <2>1 DEF Event, SendTypes
  <2>2. CASE UNCHANGED <<queueVars, consumer, paused, receivedCount>>
    BY <1>3, <2>2
  <2> QED BY <1>5, <2>1, <2>2 DEF OnData
<1>6. CASE WriteDone
  <2>1. CASE sentCount' = sentCount + 1 /\ \E b \in Sizes :
          PushOnly([type |-> "sent", index |-> sentCount', bytes |-> b])
    BY <1>1, <2>1 DEF Event, SendTypes
  <2>2. CASE UNCHANGED <<queueVars, consumer, paused, conversionError, watchdog, sentCount>>
    BY <1>3, <2>2
  <2> QED BY <1>6, <2>1, <2>2 DEF WriteDone
<1>7. CASE OnResponse
  <2>1. consumer' = Reader(hand' # <<>>, settled')
    BY <1>7 DEF OnResponse
  <2>2. hand' # hand => consumer = "waiting"
    BY <1>7 DEF OnResponse, Push
  <2> QED BY <2>1, <2>2 DEF Reader
<1>8. ASSUME NEW s \in Status, OnStatus(s) PROVE Handed'
  BY <1>2, <1>8 DEF OnStatus
<1>9. CASE OnWatchdog
  BY <1>9 DEF OnWatchdog, Reader
<1>10. CASE OnError \/ OnEnd
  BY <1>2, <1>10 DEF OnError, OnEnd
<1>11. CASE Take
  BY <1>11 DEF Take
<1>12. CASE Wait
  BY <1>12 DEF Wait
<1>13. CASE Resume
  BY <1>13 DEF Resume
<1>14. CASE Arrive \/ Cancel \/ Send \/ WriteStart \/ FinishSending \/ HalfClose
  BY <1>3, <1>14 DEF Arrive, Cancel, Send, WriteStart, FinishSending, HalfClose
<1>15. CASE UNCHANGED vars
  BY <1>3, <1>15 DEF vars
<1> HIDE DEF IInv, Handed, TypeOK
<1> QED BY <1>4, <1>5, <1>6, <1>7, <1>8, <1>9, <1>10, <1>11, <1>12, <1>13, <1>14, <1>15 DEF Next, Consumer

-----------------------------------------------------------------------------
\* What a push adds to the events still to see, if it adds something.
LEMMA PushComing ==
  ASSUME TypeOK, NoReaderLost, Handed, NEW e \in Event, Push(e)
  PROVE  \/ Coming' = Append(Coming, e) /\ conversionError' = conversionError
         \/ /\ Coming' = Coming
            /\ settled \/ conversionError' # "none"
<1> USE DEF TypeOK, QueueTypes, Coming
<1>1. CASE Accepts(e) /\ consumer = "waiting"
  <2>1. hand = <<>> /\ queue = <<>>
    BY <1>1 DEF Handed, NoReaderLost
  <2>2. hand' = <<e>> /\ queue' = queue /\ conversionError' = conversionError
    BY <1>1 DEF Push
  <2> QED BY <2>1, <2>2
<1>2. CASE Accepts(e) /\ consumer # "waiting"
  <2>1. hand' = hand /\ queue' = Append(queue, e) /\ conversionError' = conversionError
    BY <1>2 DEF Push
  <2>2. hand \o Append(queue, e) = Append(hand \o queue, e)
    OBVIOUS
  <2> QED BY <2>1, <2>2
<1>3. CASE ~Accepts(e)
  <2>1. hand' = hand /\ queue' = queue /\ (settled \/ conversionError' # "none")
    BY <1>3 DEF Push, queueVars
  <2> QED BY <2>1
<1> QED BY <1>1, <1>2, <1>3

LEMMA OneLong ==
  ASSUME NEW S, NEW h \in Seq(S), Len(h) <= 1, h # <<>>
  PROVE  Len(h) = 1
<1>1. \A s \in Seq(S) : s # <<>> => Len(s) \in Nat \ {0}
  BY EmptySeq
<1>2. Len(h) \in Nat \ {0}
  BY <1>1
<1> QED BY <1>2

\* A sequence of one before another is the head of the two.
LEMMA OneBefore ==
  ASSUME NEW S, NEW h \in Seq(S), NEW q \in Seq(S), Len(h) <= 1, h # <<>>
  PROVE  h \o q # <<>> /\ Head(h \o q) = Head(h) /\ Tail(h \o q) = q
<1>1. Len(h) = 1 /\ h[1] \in S /\ Head(h) = h[1]
  <2>1. Len(h) = 1
    BY OneLong, Zenon
  <2> QED BY <2>1
<1> DEFINE c == h \o q
<1>2. /\ c \in Seq(S) /\ Len(c) = Len(q) + 1 /\ c[1] = h[1]
      /\ \A i \in 1..Len(q) : c[i + 1] = q[i]
  <2>1. /\ c \in Seq(S) /\ Len(c) = Len(h) + Len(q)
        /\ \A i \in 1..(Len(h) + Len(q)) : c[i] = IF i <= Len(h) THEN h[i] ELSE q[i - Len(h)]
    BY ConcatProperties, Zenon
  <2>2. Len(q) \in Nat
    OBVIOUS
  <2> HIDE DEF c
  <2> QED BY <1>1, <2>1, <2>2
<1> HIDE DEF c
<1>3. c # <<>> /\ Head(c) = h[1] /\ Len(q) \in Nat
  BY <1>2
<1>4. /\ Tail(c) \in Seq(S) /\ Len(Tail(c)) = Len(q)
      /\ \A i \in 1..Len(q) : Tail(c)[i] = c[i + 1]
  BY <1>2, <1>3
<1>5. Tail(c) = q
  BY <1>2, <1>4
<1> QED BY <1>1, <1>3, <1>5 DEF c

\* Seeing the next event takes it from those still to see.
LEMMA SeesComing ==
  ASSUME TypeOK, Sees
  PROVE  /\ Coming # <<>> /\ Coming' = Tail(Coming)
         /\ seen' = [seen EXCEPT ![Head(Coming).type] = Head(Coming).index]
<1> USE DEF TypeOK, QueueTypes, Coming
<1>1. CASE hand = <<>>
  <2>1. hand \o queue = queue
    BY <1>1
  <2>2. hand' = <<>> /\ queue' = Tail(queue) /\ queue # <<>>
        /\ seen' = [seen EXCEPT ![Head(queue).type] = Head(queue).index]
    BY <1>1 DEF Sees
  <2>3. Tail(queue) \in Seq(Event)
    BY <2>2
  <2>4. hand' \o queue' = Tail(queue)
    BY <2>2, <2>3
  <2> QED BY <2>1, <2>2, <2>4
<1>2. CASE hand # <<>>
  <2>1. hand' = <<>> /\ queue' = queue
        /\ seen' = [seen EXCEPT ![Head(hand).type] = Head(hand).index]
    BY <1>2 DEF Sees
  <2>2. hand' \o queue' = queue
    BY <2>1
  <2>3. /\ hand \o queue # <<>> /\ Head(hand \o queue) = Head(hand)
        /\ Tail(hand \o queue) = queue
    BY <1>2, OneBefore
  <2> QED BY <2>1, <2>2, <2>3
<1> QED BY <1>1, <1>2

\* The next index at the end, or an event of another type.
LEMMA FollowAppend ==
  ASSUME NEW s \in Seq(Event), NEW e \in Event, NEW t, NEW last \in Nat, NEW count \in Nat,
         Follow(s, t, last, count)
  PROVE  /\ e.type # t => Follow(Append(s, e), t, last, count)
         /\ e.type = t /\ e.index = count + 1 => Follow(Append(s, e), t, last, count + 1)
<1> DEFINE s2 == Append(s, e)
<1>1. /\ Len(s) \in Nat /\ DOMAIN s2 = 1..(Len(s) + 1) /\ DOMAIN s = 1..Len(s)
      /\ s2[Len(s) + 1] = e
      /\ \A i \in 1..Len(s) : s2[i] = s[i]
  OBVIOUS
<1> HIDE DEF s2
<1>2. ASSUME e.type # t PROVE Follow(s2, t, last, count)
  <2>1. ASSUME NEW i \in DOMAIN s2, s2[i].type = t PROVE i \in DOMAIN s /\ s2[i] = s[i]
    BY <1>1, <1>2, <2>1
  <2>2. ASSUME NEW i \in DOMAIN s PROVE i \in DOMAIN s2 /\ s2[i] = s[i]
    BY <1>1, <2>2
  <2>3. ASSUME NEW i \in DOMAIN s2, s2[i].type = t PROVE s2[i].index \in (last + 1)..count
    BY <2>1, <2>3 DEF Follow
  <2>4. ASSUME NEW n \in (last + 1)..count
        PROVE  \E i \in DOMAIN s2 : s2[i].type = t /\ s2[i].index = n
    <3>1. PICK i \in DOMAIN s : s[i].type = t /\ s[i].index = n
      BY DEF Follow
    <3> QED BY <2>2, <3>1
  <2>5. ASSUME NEW i \in DOMAIN s2, NEW k \in DOMAIN s2, s2[i].type = t, s2[k].type = t, i < k
        PROVE  s2[i].index < s2[k].index
    BY <2>1, <2>5 DEF Follow
  <2>6. last <= count
    BY DEF Follow
  <2> QED BY <2>3, <2>4, <2>5, <2>6 DEF Follow
<1>3. ASSUME e.type = t, e.index = count + 1 PROVE Follow(s2, t, last, count + 1)
  <2>1. ASSUME NEW i \in DOMAIN s2, s2[i].type = t PROVE s2[i].index \in (last + 1)..(count + 1)
    BY <1>1, <1>3, <2>1 DEF Follow
  <2>2. ASSUME NEW n \in (last + 1)..(count + 1)
        PROVE  \E i \in DOMAIN s2 : s2[i].type = t /\ s2[i].index = n
    <3>1. CASE n = count + 1
      BY <1>1, <1>3, <3>1
    <3>2. CASE n # count + 1
      <4>1. n \in (last + 1)..count
        BY <3>2
      <4>2. PICK i \in DOMAIN s : s[i].type = t /\ s[i].index = n
        BY <4>1 DEF Follow
      <4> QED BY <1>1, <4>2
    <3> QED BY <3>1, <3>2
  <2>3. ASSUME NEW i \in DOMAIN s2, NEW k \in DOMAIN s2, s2[i].type = t, s2[k].type = t, i < k
        PROVE  s2[i].index < s2[k].index
    <3>1. i \in 1..Len(s) /\ s[i] = s2[i]
      BY <1>1, <2>3
    <3>2. CASE k = Len(s) + 1
      <4>1. s[i].index \in (last + 1)..count
        BY <1>1, <2>3, <3>1 DEF Follow
      <4> QED BY <1>1, <1>3, <3>1, <3>2, <4>1
    <3>3. CASE k # Len(s) + 1
      <4>1. k \in 1..Len(s) /\ s[k] = s2[k]
        BY <1>1, <3>3
      <4> QED BY <1>1, <2>3, <3>1, <4>1 DEF Follow
    <3> QED BY <3>2, <3>3
  <2>4. last <= count + 1
    BY DEF Follow
  <2> QED BY <2>1, <2>2, <2>3, <2>4 DEF Follow
<1> QED BY <1>2, <1>3 DEF s2

\* The first of them is the one after the last that was seen.
LEMMA FollowTail ==
  ASSUME NEW s \in Seq(Event), s # <<>>, NEW t, NEW last \in Nat, NEW count \in Nat,
         Follow(s, t, last, count)
  PROVE  /\ Head(s).type # t => Follow(Tail(s), t, last, count)
         /\ Head(s).type = t => Follow(Tail(s), t, Head(s).index, count)
<1> DEFINE r == Tail(s)
<1>1. /\ Len(s) \in Nat \ {0} /\ DOMAIN r = 1..(Len(s) - 1) /\ DOMAIN s = 1..Len(s)
      /\ \A i \in 1..(Len(s) - 1) : r[i] = s[i + 1]
      /\ Head(s) = s[1]
  OBVIOUS
<1>2. ASSUME NEW i \in DOMAIN s PROVE s[i].index \in Nat
  <2>1. s[i] \in Event
    OBVIOUS
  <2> QED BY <2>1 DEF Event
<1>3. ASSUME NEW i \in DOMAIN r PROVE i + 1 \in DOMAIN s /\ r[i] = s[i + 1]
  BY <1>1
<1>4. ASSUME NEW i \in DOMAIN r, NEW k \in DOMAIN r, r[i].type = t, r[k].type = t, i < k
      PROVE  r[i].index < r[k].index
  <2>1. i \in Int /\ k \in Int
    BY <1>1
  <2>2. /\ i + 1 \in DOMAIN s /\ k + 1 \in DOMAIN s /\ i + 1 < k + 1
        /\ r[i] = s[i + 1] /\ r[k] = s[k + 1]
    BY <1>3, <1>4, <2>1
  <2> QED BY <1>4, <2>2 DEF Follow
<1> HIDE DEF r
<1>5. ASSUME Head(s).type # t PROVE Follow(r, t, last, count)
  <2>1. ASSUME NEW n \in (last + 1)..count
        PROVE  \E i \in DOMAIN r : r[i].type = t /\ r[i].index = n
    <3>1. PICK i \in DOMAIN s : s[i].type = t /\ s[i].index = n
      BY DEF Follow
    <3>2. i # 1
      BY <1>1, <1>5, <3>1
    <3>3. i - 1 \in DOMAIN r /\ r[i - 1] = s[i]
      BY <1>1, <3>2
    <3> QED BY <3>1, <3>3
  <2>2. ASSUME NEW i \in DOMAIN r, r[i].type = t PROVE r[i].index \in (last + 1)..count
    BY <1>3, <2>2 DEF Follow
  <2>3. last <= count
    BY DEF Follow
  <2> QED BY <1>4, <2>1, <2>2, <2>3 DEF Follow
<1>6. ASSUME Head(s).type = t PROVE Follow(r, t, Head(s).index, count)
  <2> DEFINE h == Head(s).index
  <2>1. h \in (last + 1)..count
    BY <1>1, <1>6 DEF Follow
  <2>2. ASSUME NEW i \in DOMAIN r, r[i].type = t PROVE r[i].index \in (h + 1)..count
    <3>1. i + 1 \in DOMAIN s /\ s[i + 1] = r[i] /\ 1 < i + 1 /\ 1 \in DOMAIN s
      BY <1>1
    <3>2. s[1].index < s[i + 1].index
      BY <1>1, <1>6, <2>2, <3>1 DEF Follow
    <3>3. s[i + 1].index \in (last + 1)..count
      BY <2>2, <3>1 DEF Follow
    <3> QED BY <1>1, <1>2, <2>1, <3>1, <3>2, <3>3
  <2>3. ASSUME NEW n \in (h + 1)..count
        PROVE  \E i \in DOMAIN r : r[i].type = t /\ r[i].index = n
    <3>1. n \in (last + 1)..count
      BY <2>1
    <3>2. PICK i \in DOMAIN s : s[i].type = t /\ s[i].index = n
      BY <3>1 DEF Follow
    <3>3. i # 1
      BY <1>1, <2>1, <3>2
    <3>4. i - 1 \in DOMAIN r /\ r[i - 1] = s[i]
      BY <1>1, <3>3
    <3> QED BY <3>2, <3>4
  <2>4. h <= count
    BY <2>1
  <2> HIDE DEF h
  <2>5. Follow(r, t, h, count)
    BY <1>4, <2>2, <2>3, <2>4 DEF Follow
  <2> QED BY <2>5 DEF h
<1> QED BY <1>5, <1>6 DEF r

CountOf == [sent |-> sentCount, received |-> receivedCount]

\* Whatever the step, the events of a type stay in order up to their count; those
\* sent until the call has settled.
LEMMA OrderStep ==
  ASSUME IInv, Handed, [Next]_vars, NEW t \in {"sent", "received"},
         InOrder(t, CountOf[t]), conversionError' = "none", t = "sent" => ~settled'
  PROVE  Follow(Coming', t, seen'[t], CountOf'[t])
<1>1. /\ Coming \in Seq(Event) /\ seen \in [{"headers", "sent", "received"} -> Nat]
      /\ seen[t] \in Nat /\ CountOf[t] \in Nat
  BY DEF IInv, TypeOK, QueueTypes, SendTypes, Coming, CountOf
<1>2. Follow(Coming, t, seen[t], CountOf[t])
  BY DEF InOrder
<1>3. CASE Quiet
  <2>1. Coming' = Coming /\ seen' = seen /\ CountOf' = CountOf
    BY <1>3 DEF Quiet, Coming, CountOf
  <2> QED BY <1>2, <2>1
<1>4. CASE Pushes
  <2>1. PICK e \in Event : Push(e) /\ Counted(e)
    BY <1>4 DEF Pushes
  <2>2. seen' = seen /\ (settled => settled')
    BY <1>4 DEF Pushes
  <2>3. /\ e.type # t => CountOf'[t] = CountOf[t]
        /\ e.type = t => e.index = CountOf[t] + 1 /\ CountOf'[t] = CountOf[t] + 1
        /\ e.type = t /\ settled => t = "sent"
    BY <2>1 DEF Counted, CountOf, countVars
  <2>4. CASE Coming' = Append(Coming, e)
    BY <1>1, <1>2, <2>2, <2>3, <2>4, FollowAppend
  <2>5. CASE Coming' = Coming /\ settled
    <3>1. e.type # t
      BY <2>2, <2>3, <2>5
    <3> QED BY <1>2, <2>2, <2>3, <2>5, <3>1
  <2> QED BY <2>1, <2>4, <2>5, PushComing DEF IInv, Reading
<1>5. CASE Sees
  <2>1. /\ Coming # <<>> /\ Coming' = Tail(Coming) /\ CountOf' = CountOf
        /\ seen' = [seen EXCEPT ![Head(Coming).type] = Head(Coming).index]
    BY <1>5, SeesComing DEF IInv, Sees, CountOf
  <2>2. Head(Coming) \in Event
    BY <1>1, <2>1
  <2>3. Head(Coming).type \in {"headers", "sent", "received"}
    BY <2>2 DEF Event
  <2>4. seen'[t] = IF Head(Coming).type = t THEN Head(Coming).index ELSE seen[t]
    BY <1>1, <2>1, <2>3
  <2> QED BY <1>1, <1>2, <2>1, <2>4, FollowTail
<1> QED BY <1>3, <1>4, <1>5, StepShape

LEMMA AccountedStep == IInv /\ Handed /\ Accounted /\ [Next]_vars => Accounted'
<1> SUFFICES ASSUME IInv, Handed, Accounted, [Next]_vars, conversionError' = "none"
             PROVE  /\ Follow(Coming', "received", seen'["received"], receivedCount')
                    /\ ~settled' => Follow(Coming', "sent", seen'["sent"], sentCount')
  BY DEF Accounted, InOrder
<1>1. conversionError = "none" /\ (settled => settled')
  <2>1. ASSUME NEW e \in Event, Push(e) PROVE conversionError = "none"
    BY <2>1 DEF Push
  <2> QED BY <2>1, StepShape DEF Quiet, Pushes, Sees
<1>2. InOrder("received", CountOf.received) /\ (~settled' => InOrder("sent", CountOf.sent))
  BY <1>1 DEF Accounted, CountOf
<1>3. Follow(Coming', "received", seen'["received"], CountOf'["received"])
  BY <1>2, OrderStep
<1>4. ~settled' => Follow(Coming', "sent", seen'["sent"], CountOf'["sent"])
  BY <1>2, OrderStep
<1> QED BY <1>3, <1>4 DEF CountOf

LEMMA BoundedStep == IInv /\ Handed /\ Bounded /\ [Next]_vars => Bounded'
<1> SUFFICES ASSUME IInv, Handed, Bounded, [Next]_vars PROVE Bounded'
  OBVIOUS
<1> USE StreamAssumption DEF IInv, TypeOK, QueueTypes, Bounded
<1>1. CASE Quiet
  BY <1>1 DEF Quiet
<1>2. CASE Pushes
  <2>1. PICK e \in Event : Push(e)
    BY <1>2 DEF Pushes
  <2>2. e.bytes \in Int
    BY Bytes
  <2>3. CASE Accepts(e) /\ consumer # "waiting"
    <3>1. queue' = Append(queue, e) /\ buffered' = buffered + e.bytes
      BY <2>1, <2>3 DEF Push
    <3>2. Len(queue) < Capacity /\ buffered + e.bytes <= MaxBytes
      BY <2>3 DEF Accepts
    <3> QED BY <3>1, <3>2
  <2>4. CASE ~(Accepts(e) /\ consumer # "waiting")
    <3>1. queue' = queue /\ buffered' = buffered
      BY <2>1, <2>4 DEF Push, queueVars
    <3> QED BY <3>1
  <2> QED BY <2>3, <2>4
<1>3. CASE Sees
  <2>1. CASE UNCHANGED <<queue, buffered>>
    BY <2>1
  <2>2. CASE queue # <<>> /\ queue' = Tail(queue) /\ buffered' = buffered - Head(queue).bytes
    <3>1. Head(queue) \in Event /\ Len(queue') < Len(queue) /\ Len(queue') \in Nat
      BY <2>2
    <3>2. Head(queue).bytes \in Nat
      BY <3>1 DEF Event
    <3> QED BY <2>2, <3>1, <3>2
  <2> QED BY <1>3, <2>1, <2>2 DEF Sees
<1> QED BY <1>1, <1>2, <1>3, StepShape

-----------------------------------------------------------------------------
(***************************************************************************)
(* What the server sent, and when a stream succeeds.                       *)
(***************************************************************************)
\* A message of the server is in the readable or has been counted.
Credited == Readable /\ conversionError = "none" => receivedCount + arrived = total

\* A status settles a call that reads, and a success has found the readable empty
\* or paused.
Succeeded ==
  /\ Readable /\ finalStatus # "none" => settled
  /\ outcome = "success" =>
       /\ settled /\ conversionError = "none" /\ finalStatus = "OK"
       /\ Readable => arrived = 0 \/ paused

LEMMA CreditedStep == IInv /\ Credited /\ [Next]_vars => Credited'
<1> SUFFICES ASSUME IInv, Credited, [Next]_vars PROVE Credited'
  OBVIOUS
<1> USE StreamAssumption
        DEF IInv, TypeOK, QueueTypes, SendTypes, queueVars, callVars, endVars, sendVars,
            countVars, Credited, Readable
<1>1. ASSUME NEW e, Push(e) \/ PushOnly(e), conversionError' = "none" PROVE conversionError = "none"
  BY <1>1 DEF Push, PushOnly
<1>2. CASE OnMetadata
  BY <1>1, <1>2 DEF OnMetadata
<1>3. CASE Arrive
  BY <1>3 DEF Arrive
<1>4. CASE OnData
  <2>1. CASE receivedCount' = receivedCount + 1 /\ \E b \in Sizes :
          PushOnly([type |-> "received", index |-> receivedCount', bytes |-> b])
    BY <1>1, <1>4, <2>1 DEF OnData
  <2>2. CASE conversionError' = "bad"
    BY <1>4, <2>2
  <2> QED BY <1>4, <2>1, <2>2 DEF OnData
<1>5. ASSUME NEW s \in Status, OnStatus(s) PROVE Credited'
  BY <1>5 DEF OnStatus
<1>6. CASE OnError \/ OnEnd \/ OnWatchdog
  BY <1>6 DEF OnError, OnEnd, OnWatchdog
<1>7. CASE OnResponse
  BY <1>7 DEF OnResponse
<1>8. CASE Cancel \/ Send \/ WriteStart \/ FinishSending \/ HalfClose
  BY <1>8 DEF Cancel, Send, WriteStart, FinishSending, HalfClose
<1>9. CASE WriteDone
  BY <1>1, <1>9 DEF WriteDone
<1>10. CASE Take \/ Wait \/ Resume
  BY <1>10 DEF Take, Wait, Resume
<1>11. CASE UNCHANGED vars
  BY <1>11 DEF vars
<1> QED BY <1>2, <1>3, <1>4, <1>5, <1>6, <1>7, <1>8, <1>9, <1>10, <1>11 DEF Next, Consumer

\* finish() reports a success only with the status OK and no error.
LEMMA FinishSuccess ==
  ASSUME NEW force \in BOOLEAN, Finish(force), Succeeded, ~settled, outcome' = "success"
  PROVE  /\ settled' /\ conversionError' = "none" /\ finalStatus' = "OK"
         /\ ~callError' /\ ~explicitCancel
<1>1. outcome # "success"
  BY DEF Succeeded
<1>2. settled' = TRUE /\ Result(force) = "success"
  BY <1>1 DEF Finish, endVars
<1> QED BY <1>2 DEF Result

LEMMA SucceededStep == IInv /\ Succeeded /\ [Next]_vars => Succeeded'
<1> SUFFICES ASSUME IInv, Succeeded, [Next]_vars PROVE Succeeded'
  OBVIOUS
<1> USE DEF IInv, TypeOK, QueueTypes, CallTypes, SendTypes, queueVars, callVars, endVars,
            sendVars, countVars, Readable
<1>1. ASSUME ~settled, UNCHANGED <<kind, finalStatus, settled, outcome>> PROVE Succeeded'
  BY <1>1 DEF Succeeded
<1>2. ASSUME UNCHANGED <<kind, finalStatus, settled, outcome, conversionError, arrived>>,
             settled => paused' = paused
      PROVE  Succeeded'
  BY <1>2 DEF Succeeded
<1>3. CASE OnMetadata \/ OnData \/ Cancel
  BY <1>1, <1>3 DEF OnMetadata, OnData, Cancel
<1>4. CASE Arrive
  BY <1>4 DEF Arrive, Succeeded
<1>5. ASSUME NEW s \in Status, OnStatus(s) PROVE Succeeded'
  <2>1. /\ ~settled /\ Finish(FALSE) /\ finalStatus' = s
        /\ UNCHANGED <<kind, arrived, paused>>
        /\ s = "OK" => arrived = 0 \/ paused
    BY <1>5 DEF OnStatus
  <2>2. Readable /\ finalStatus' # "none" => settled'
    BY <2>1 DEF Finish, Complete
  <2> QED BY <2>1, <2>2, FinishSuccess DEF Succeeded
<1>6. CASE OnError
  <2>1. /\ ~settled /\ Finish(FALSE) /\ finalStatus' = finalStatus /\ callError'
        /\ UNCHANGED <<kind, arrived, paused>>
    BY <1>6 DEF OnError
  <2> QED BY <2>1, FinishSuccess DEF Succeeded
<1>7. CASE OnEnd
  <2>1. /\ ~settled /\ Finish(FALSE) /\ finalStatus' = finalStatus
        /\ UNCHANGED <<kind, arrived, paused, conversionError>>
        /\ explicitCancel \/ conversionError # "none"
    BY <1>7 DEF OnEnd
  <2> QED BY <2>1, FinishSuccess DEF Succeeded
<1>8. CASE OnResponse
  <2>1. /\ ~settled /\ Finish(FALSE) /\ kind = "clientStreaming" /\ kind' = kind
    BY <1>8 DEF OnResponse
  <2> QED BY <2>1, FinishSuccess DEF Succeeded
<1>9. CASE OnWatchdog
  <2>1. /\ ~settled /\ Finish(TRUE) /\ finalStatus' = finalStatus /\ kind' = kind
    BY <1>9 DEF OnWatchdog
  <2> QED BY <2>1, FinishSuccess DEF Succeeded
<1>10. CASE WriteDone
  <2>1. /\ UNCHANGED <<kind, finalStatus, settled, outcome, arrived>>
        /\ settled => UNCHANGED <<conversionError, paused>>
    <3>1. ASSUME NEW e, PushOnly(e), settled PROVE UNCHANGED <<conversionError, paused>>
      BY <3>1 DEF PushOnly, Push, Accepts
    <3> QED BY <1>10, <3>1 DEF WriteDone
  <2> QED BY <1>1, <1>2, <2>1
<1>11. CASE Send \/ WriteStart \/ FinishSending \/ HalfClose \/ Wait
  BY <1>2, <1>11 DEF Send, WriteStart, FinishSending, HalfClose, Wait
<1>12. CASE Take \/ Resume
  BY <1>2, <1>12 DEF Take, Resume, Drain
<1>13. CASE UNCHANGED vars
  BY <1>2, <1>13 DEF vars
<1> QED BY <1>3, <1>4, <1>5, <1>6, <1>7, <1>8, <1>9, <1>10, <1>11, <1>12, <1>13 DEF Next, Consumer

Delivering == Handed /\ Accounted /\ Bounded /\ Credited /\ Succeeded

LEMMA InitDelivering == Init => Delivering
<1> SUFFICES ASSUME Init PROVE Delivering
  OBVIOUS
<1>1. hand = <<>> /\ receivedCount = 0 /\ arrived = 0 /\ total = 0 /\ outcome = "none"
      /\ finalStatus = "none" /\ seen = [t \in {"headers", "sent", "received"} |-> 0]
  BY DEF Init
<1>2. Handed /\ Credited /\ Succeeded
  BY <1>1 DEF Handed, Credited, Succeeded
<1>3. CASE queue = <<>> /\ buffered = 0 /\ sentCount = 0
  <2>1. Coming = <<>>
    BY <1>1, <1>3 DEF Coming
  <2>2. Accounted
    BY <1>1, <1>3, <2>1 DEF Accounted, InOrder, Follow
  <2>3. Bounded
    BY <1>3, StreamAssumption DEF Bounded
  <2> QED BY <1>2, <2>2, <2>3 DEF Delivering
<1>4. CASE \E b \in Sizes :
             /\ b <= MaxBytes /\ queue = <<[type |-> "sent", index |-> 1, bytes |-> b]>>
             /\ buffered = b /\ sentCount = 1
  <2>1. PICK b \in Sizes :
             /\ b <= MaxBytes /\ queue = <<[type |-> "sent", index |-> 1, bytes |-> b]>>
             /\ buffered = b /\ sentCount = 1
    BY <1>4
  <2>2. Coming = <<[type |-> "sent", index |-> 1, bytes |-> b]>>
    BY <1>1, <2>1 DEF Coming
  <2>3. InOrder("received", receivedCount)
    BY <1>1, <2>2 DEF InOrder, Follow
  <2>4. InOrder("sent", sentCount)
    BY <1>1, <2>1, <2>2 DEF InOrder, Follow
  <2>5. Bounded
    BY <2>1, StreamAssumption DEF Bounded
  <2> QED BY <1>2, <2>3, <2>4, <2>5 DEF Delivering, Accounted
<1> QED BY <1>3, <1>4 DEF Init

\* For any capacity, watermarks, sizes and numbers of messages, however status,
\* errors, messages and reads interleave: what is counted reaches the consumer in
\* order and once, a success without a pause is complete, and what is retained for
\* a consumer that stopped is bounded (RpcStreamEventQueue, finish).
THEOREM AllDelivered == Spec => []Delivered
<1>1. IInv /\ Delivering => Delivered
  <2> SUFFICES ASSUME IInv, Delivering, outcome = "success", Readable, ~paused
               PROVE  InOrder("received", total)
    BY DEF Delivering, Delivered, CompleteUnlessPaused
  <2>1. conversionError = "none" /\ arrived = 0
    BY DEF Delivering, Succeeded
  <2>2. receivedCount = total
    BY <2>1 DEF Delivering, Credited, IInv, TypeOK, SendTypes, QueueTypes
  <2> QED BY <2>1, <2>2 DEF Delivering, Accounted
<1>2. IInv /\ Delivering /\ [Next]_vars => Delivering'
  BY HandedStep, AccountedStep, BoundedStep, CreditedStep, SucceededStep DEF Delivering
<1> QED BY <1>1, <1>2, Invariance, InitDelivering, PTL DEF Spec

-----------------------------------------------------------------------------
(***************************************************************************)
(* The bytes of the queue (RpcStreamEventQueue: bufferedBytes).            *)
(***************************************************************************)
\* Every set of numbers that is not empty has a least one.
LEMMA LeastElement ==
  ASSUME NEW T \in SUBSET Nat, T # {}
  PROVE  \E x \in T : \A y \in T : x <= y
<1>1. PICK x \in T : \A y \in T : <<y, x>> \notin OpToRel(<, Nat)
  BY WFMin, NatLessThanWellFounded, Zenon
<1>2. ASSUME NEW y \in T PROVE ~ (y < x)
  BY <1>1, Zenon DEF OpToRel
<1>3. \A y \in T : x <= y
  BY <1>2
<1> QED BY <1>3

\* Adding up the events of q one by one gives n.
AddUp(q, n) ==
  \E f \in [0 .. Len(q) -> Int] :
    /\ f[0] = 0 /\ f[Len(q)] = n
    /\ \A i \in 1 .. Len(q) : f[i] = f[i - 1] + q[i].bytes

\* It gives the bytes of q: there is one way to add up.
LEMMA AddUpIs ==
  ASSUME NEW q, Len(q) \in Nat, NEW n, AddUp(q, n)
  PROVE  n = BytesOf(q)
<1>1. PICK f \in [0 .. Len(q) -> Int] :
        /\ f[0] = 0 /\ f[Len(q)] = n
        /\ \A i \in 1 .. Len(q) : f[i] = f[i - 1] + q[i].bytes
  BY DEF AddUp
<1>2. f = [i \in 0 .. Len(q) |-> IF i = 0 THEN 0 ELSE f[i - 1] + q[i].bytes]
  <2>1. ASSUME NEW i \in 0 .. Len(q)
        PROVE  f[i] = IF i = 0 THEN 0 ELSE f[i - 1] + q[i].bytes
    BY <1>1
  <2> QED BY <1>1, <2>1
<1>3. PICK g : g = CHOOSE h : h = [i \in 0 .. Len(q) |-> IF i = 0 THEN 0 ELSE h[i - 1] + q[i].bytes]
  OBVIOUS
<1>4. g = [i \in 0 .. Len(q) |-> IF i = 0 THEN 0 ELSE g[i - 1] + q[i].bytes]
  BY <1>2, <1>3, Zenon
<1>5. g[0] = 0 /\ \A i \in 1 .. Len(q) : g[i] = g[i - 1] + q[i].bytes
  BY <1>4
<1>6. ASSUME f[Len(q)] # g[Len(q)] PROVE FALSE
  <2>1. PICK T : T = {i \in 0 .. Len(q) : f[i] # g[i]}
    OBVIOUS
  <2>2. T \in SUBSET Nat /\ Len(q) \in T
    BY <1>6, <2>1
  <2>3. PICK x \in T : \A y \in T : x <= y
    BY <2>2, LeastElement
  <2>4. x \in 1 .. Len(q) /\ f[x] # g[x]
    BY <1>1, <1>5, <2>1, <2>3
  <2>5. x - 1 \in 0 .. Len(q) /\ x - 1 \notin T
    BY <2>2, <2>3, <2>4
  <2>6. f[x - 1] = g[x - 1]
    BY <2>1, <2>5
  <2> QED BY <1>1, <1>5, <2>4, <2>6
<1>7. BytesOf(q) = g[Len(q)]
  BY <1>3, Zenon DEF BytesOf
<1> QED BY <1>1, <1>6, <1>7

\* An event is pushed.
LEMMA AddUpAppend ==
  ASSUME NEW q \in Seq(Event), NEW n \in Int, NEW e \in Event, AddUp(q, n)
  PROVE  AddUp(Append(q, e), n + e.bytes)
<1>0. e.bytes \in Int
  BY Bytes
<1>1. PICK f \in [0 .. Len(q) -> Int] :
        /\ f[0] = 0 /\ f[Len(q)] = n
        /\ \A i \in 1 .. Len(q) : f[i] = f[i - 1] + q[i].bytes
  BY DEF AddUp
<1>2. PICK r : r = Append(q, e)
  OBVIOUS
<1>3. /\ Len(r) = Len(q) + 1 /\ Len(q) \in Nat /\ r[Len(q) + 1] = e
      /\ \A i \in 1 .. Len(q) : r[i] = q[i]
  BY <1>2
<1>4. PICK g : g = [i \in 0 .. Len(r) |-> IF i = Len(r) THEN n + e.bytes ELSE f[i]]
  OBVIOUS
<1>5. g \in [0 .. Len(r) -> Int]
  BY <1>0, <1>1, <1>3, <1>4
<1>6. g[0] = 0 /\ g[Len(r)] = n + e.bytes
  BY <1>1, <1>3, <1>4
<1>7. ASSUME NEW i \in 1 .. Len(r) PROVE g[i] = g[i - 1] + r[i].bytes
  <2>1. CASE i = Len(r)
    BY <1>1, <1>3, <1>4, <2>1
  <2>2. CASE i # Len(r)
    <3>1. i \in 1 .. Len(q) /\ i - 1 \in 0 .. Len(q)
      BY <1>3, <2>2
    <3>2. g[i] = f[i] /\ g[i - 1] = f[i - 1]
      BY <1>3, <1>4, <2>2, <3>1
    <3> QED BY <1>1, <1>3, <3>1, <3>2
  <2> QED BY <2>1, <2>2
<1> QED BY <1>2, <1>5, <1>6, <1>7 DEF AddUp

\* The first event is taken.
LEMMA AddUpTail ==
  ASSUME NEW q \in Seq(Event), q # <<>>, NEW n \in Int, AddUp(q, n)
  PROVE  AddUp(Tail(q), n - Head(q).bytes)
<1>0. Head(q) \in Event /\ Head(q).bytes \in Int /\ Head(q) = q[1]
  <2>1. Head(q) \in Event /\ Head(q) = q[1]
    OBVIOUS
  <2> QED BY <2>1, Bytes
<1>1. PICK f \in [0 .. Len(q) -> Int] :
        /\ f[0] = 0 /\ f[Len(q)] = n
        /\ \A i \in 1 .. Len(q) : f[i] = f[i - 1] + q[i].bytes
  BY DEF AddUp
<1>2. PICK r : r = Tail(q)
  OBVIOUS
<1>3. /\ Len(r) = Len(q) - 1 /\ Len(q) \in Nat /\ Len(q) >= 1
      /\ \A i \in 1 .. Len(r) : r[i] = q[i + 1]
  BY <1>2
<1>4. f[1] = Head(q).bytes
  BY <1>0, <1>1, <1>3
<1>5. PICK g : g = [i \in 0 .. Len(r) |-> f[i + 1] - Head(q).bytes]
  OBVIOUS
<1>6. g \in [0 .. Len(r) -> Int]
  BY <1>0, <1>1, <1>3, <1>5
<1>7. g[0] = 0 /\ g[Len(r)] = n - Head(q).bytes
  BY <1>0, <1>1, <1>3, <1>4, <1>5
<1>8. ASSUME NEW i \in 1 .. Len(r) PROVE g[i] = g[i - 1] + r[i].bytes
  <2>1. i + 1 \in 1 .. Len(q) /\ i \in 0 .. Len(q) /\ i - 1 \in 0 .. Len(r)
    BY <1>3
  <2>2. g[i] = f[i + 1] - Head(q).bytes /\ g[i - 1] = f[i] - Head(q).bytes
    BY <1>5, <2>1
  <2>3. f[i + 1] = f[i] + q[i + 1].bytes
    BY <1>1, <2>1
  <2>4. q[i + 1] \in Event
    BY <2>1
  <2>5. q[i + 1].bytes \in Int
    BY <2>4, Bytes
  <2>6. f[i] \in Int
    BY <1>1, <2>1
  <2> QED BY <1>0, <1>3, <2>2, <2>3, <2>5, <2>6
<1> QED BY <1>2, <1>6, <1>7, <1>8 DEF AddUp

\* The bytes are counted at first.
LEMMA InitBytes == Init => AddUp(queue, buffered)
<1> SUFFICES ASSUME Init PROVE AddUp(queue, buffered)
  OBVIOUS
<1>1. CASE kind = "serverStreaming"
  <2>1. PICK b \in Sizes : queue = <<[type |-> "sent", index |-> 1, bytes |-> b]>> /\ buffered = b
    BY <1>1 DEF Init
  <2>2. b \in Int
    BY StreamAssumption
  <2>3. PICK e : e = [type |-> "sent", index |-> 1, bytes |-> b]
    OBVIOUS
  <2>4. queue = <<e>> /\ e.bytes = b
    BY <2>1, <2>3
  <2>5. Len(queue) = 1 /\ queue[1] = e
    BY <2>4
  <2>6. PICK g : g = [i \in 0 .. 1 |-> IF i = 0 THEN 0 ELSE b]
    OBVIOUS
  <2>7. g \in [0 .. 1 -> Int] /\ g[0] = 0 /\ g[1] = b
    BY <2>2, <2>6
  <2>8. \A i \in 1 .. Len(queue) : g[i] = g[i - 1] + queue[i].bytes
    BY <2>2, <2>4, <2>5, <2>7
  <2> QED BY <2>1, <2>5, <2>7, <2>8 DEF AddUp
<1>2. CASE kind # "serverStreaming"
  <2>1. queue = <<>> /\ buffered = 0
    BY <1>2 DEF Init
  <2>2. PICK g : g = [i \in 0 .. 0 |-> 0]
    OBVIOUS
  <2>3. Len(queue) = 0
    BY <2>1
  <2>4. g \in [0 .. Len(queue) -> Int] /\ g[0] = 0
    BY <2>2, <2>3
  <2> QED BY <2>1, <2>3, <2>4 DEF AddUp
<1> QED BY <1>1, <1>2

\* A push counts what it adds.
LEMMA PushBytes ==
  ASSUME TypeOK, NEW e \in Event, Push(e), AddUp(queue, buffered)
  PROVE  AddUp(queue', buffered')
<1>1. \/ queue' = queue /\ buffered' = buffered
      \/ queue' = Append(queue, e) /\ buffered' = buffered + e.bytes
  BY DEF Push, queueVars
<1>2. queue \in Seq(Event) /\ buffered \in Int
  BY DEF TypeOK, QueueTypes
<1> QED BY <1>1, <1>2, AddUpAppend

\* Every step counts the bytes it adds and takes.
LEMMA StepBytes ==
  ASSUME TypeOK, [Next]_vars, AddUp(queue, buffered)
  PROVE  AddUp(queue', buffered')
<1> USE DEF queueVars
<1>1. ASSUME UNCHANGED <<queue, buffered>> PROVE AddUp(queue', buffered')
  BY <1>1
<1>2. CASE OnMetadata
  <2>1. PICK b \in Sizes : PushOnly([type |-> "headers", index |-> 0, bytes |-> b])
    BY <1>2 DEF OnMetadata
  <2>2. [type |-> "headers", index |-> 0, bytes |-> b] \in Event
    BY DEF Event
  <2> QED BY <2>1, <2>2, PushBytes DEF PushOnly
<1>3. CASE OnData
  <2>1. CASE \E b \in Sizes : receivedCount' = receivedCount + 1
               /\ PushOnly([type |-> "received", index |-> receivedCount', bytes |-> b])
    <3>1. PICK b \in Sizes : receivedCount' = receivedCount + 1
            /\ PushOnly([type |-> "received", index |-> receivedCount', bytes |-> b])
      BY <2>1
    <3>2. [type |-> "received", index |-> receivedCount', bytes |-> b] \in Event
      BY <3>1 DEF Event, TypeOK, SendTypes
    <3> QED BY <3>1, <3>2, PushBytes DEF PushOnly
  <2>2. CASE UNCHANGED queueVars
    BY <1>1, <2>2
  <2> QED BY <1>3, <2>1, <2>2 DEF OnData
<1>4. CASE OnResponse
  <2>1. CASE \E b \in Sizes : receivedCount' = receivedCount + 1
               /\ Push([type |-> "received", index |-> receivedCount', bytes |-> b])
    <3>1. PICK b \in Sizes : receivedCount' = receivedCount + 1
            /\ Push([type |-> "received", index |-> receivedCount', bytes |-> b])
      BY <2>1
    <3>2. [type |-> "received", index |-> receivedCount', bytes |-> b] \in Event
      BY <3>1 DEF Event, TypeOK, SendTypes
    <3> QED BY <3>1, <3>2, PushBytes
  <2>2. CASE UNCHANGED queueVars
    BY <1>1, <2>2
  <2> QED BY <1>4, <2>1, <2>2 DEF OnResponse
<1>5. CASE WriteDone
  <2>1. CASE \E b \in Sizes : sentCount' = sentCount + 1
               /\ PushOnly([type |-> "sent", index |-> sentCount', bytes |-> b])
    <3>1. PICK b \in Sizes : sentCount' = sentCount + 1
            /\ PushOnly([type |-> "sent", index |-> sentCount', bytes |-> b])
      BY <2>1
    <3>2. [type |-> "sent", index |-> sentCount', bytes |-> b] \in Event
      BY <3>1 DEF Event, TypeOK, SendTypes
    <3> QED BY <3>1, <3>2, PushBytes DEF PushOnly
  <2>2. CASE UNCHANGED queueVars
    BY <1>1, <2>2
  <2> QED BY <1>5, <2>1, <2>2 DEF WriteDone
<1>6. CASE Take
  <2>1. /\ queue # <<>> /\ queue' = Tail(queue)
        /\ buffered' = buffered - Head(queue).bytes
    BY <1>6 DEF Take
  <2>2. queue \in Seq(Event) /\ buffered \in Int
    BY DEF TypeOK, QueueTypes
  <2> QED BY <2>1, <2>2, AddUpTail
<1>7. CASE Arrive \/ (\E s \in Status : OnStatus(s)) \/ OnError \/ OnEnd \/ OnWatchdog
  BY <1>1, <1>7 DEF Arrive, OnStatus, OnError, OnEnd, OnWatchdog
<1>8. CASE Cancel \/ Send \/ WriteStart \/ FinishSending \/ HalfClose \/ Wait \/ Resume
  BY <1>1, <1>8 DEF Cancel, Send, WriteStart, FinishSending, HalfClose, Wait, Resume
<1>9. CASE UNCHANGED vars
  BY <1>1, <1>9 DEF vars
<1> QED BY <1>2, <1>3, <1>4, <1>5, <1>6, <1>7, <1>8, <1>9 DEF Next, Consumer

-----------------------------------------------------------------------------
(***************************************************************************)
(* Unary calls (RpcUnary).                                                 *)
(***************************************************************************)
\* A call that is on its way has at most one of its callbacks, and one that is settled has
\* both; they agree on whether the call failed.
UnaryCallOk(c) ==
  /\ stage[c] \in {"idle", "refused", "sent", "settled"}
  /\ callback[c] \in {"none", "value", "empty", "error"} /\ final[c] \in {"none", "OK", "bad"}
  /\ conversion[c] => callback[c] = "value"
  /\ final[c] = "OK" => callback[c] # "error"
  /\ final[c] = "bad" => callback[c] \in {"none", "error"}
  /\ stage[c] \in {"idle", "refused"} => callback[c] = "none" /\ final[c] = "none"
  /\ stage[c] = "sent" => callback[c] = "none" \/ final[c] = "none"
  /\ stage[c] = "settled" =>
       /\ callback[c] # "none" /\ final[c] # "none" /\ settles[c] = 1
       /\ unaryOutcome[c].kind = (IF conversion[c] THEN "conversion" ELSE
                                  IF callback[c] = "error" THEN "status" ELSE "result")
       /\ unaryOutcome[c].contents = (callback[c] = "value" /\ ~conversion[c])
  /\ stage[c] # "settled" =>
       settles[c] = 0 /\ unaryOutcome[c] = [kind |-> "none", headers |-> FALSE, contents |-> FALSE]

UnaryInv ==
  /\ stage = [c \in UnaryCall |-> stage[c]] /\ callback = [c \in UnaryCall |-> callback[c]]
  /\ conversion = [c \in UnaryCall |-> conversion[c]] /\ final = [c \in UnaryCall |-> final[c]]
  /\ unaryOutcome = [c \in UnaryCall |-> unaryOutcome[c]]
  /\ settles = [c \in UnaryCall |-> settles[c]]
  /\ \A c \in UnaryCall : UnaryCallOk(c)

\* Nothing has been called.
LEMMA UnaryInit == Unary!Init => UnaryInv
BY DEF Unary!Init, Unary!NoOutcome, UnaryInv, UnaryCallOk

\* It is what executeUnary promises.
LEMMA UnaryHonest == UnaryInv => Unary!UnarySettlesOnce
<1> SUFFICES ASSUME UnaryInv, NEW c \in UnaryCall
             PROVE  /\ settles[c] = (IF callback[c] # "none" /\ final[c] # "none" THEN 1 ELSE 0)
                    /\ unaryOutcome[c].kind = "result" =>
                         /\ final[c] = "OK" /\ callback[c] \in {"value", "empty"} /\ ~conversion[c]
                         /\ unaryOutcome[c].contents = (callback[c] = "value")
                    /\ unaryOutcome[c].kind # "result" =>
                         ~(unaryOutcome[c].contents /\ final[c] = "OK")
                    /\ final[c] = "bad" => unaryOutcome[c].kind \in {"none", "status"}
  BY DEF Unary!UnarySettlesOnce
<1>1. UnaryCallOk(c)
  BY DEF UnaryInv
<1>2. CASE stage[c] = "settled"
  BY <1>1, <1>2 DEF UnaryCallOk
<1>3. CASE stage[c] # "settled"
  BY <1>1, <1>3 DEF UnaryCallOk
<1> QED BY <1>2, <1>3

\* A step of one call, after which that call is as it should be, keeps the invariant.
LEMMA UnaryOthers ==
  ASSUME UnaryInv, NEW c \in UnaryCall, UnaryCallOk(c)',
         stage' = [stage EXCEPT ![c] = stage'[c]],
         callback' = [callback EXCEPT ![c] = callback'[c]],
         conversion' = [conversion EXCEPT ![c] = conversion'[c]],
         final' = [final EXCEPT ![c] = final'[c]],
         unaryOutcome' = [unaryOutcome EXCEPT ![c] = unaryOutcome'[c]],
         settles' = [settles EXCEPT ![c] = settles'[c]]
  PROVE  UnaryInv'
<1>1. ASSUME NEW d \in UnaryCall, d # c PROVE UnaryCallOk(d)'
  <2>1. /\ stage'[d] = stage[d] /\ callback'[d] = callback[d] /\ conversion'[d] = conversion[d]
        /\ final'[d] = final[d] /\ unaryOutcome'[d] = unaryOutcome[d] /\ settles'[d] = settles[d]
    BY <1>1 DEF UnaryInv
  <2>2. UnaryCallOk(d)
    BY DEF UnaryInv
  <2> QED BY <2>1, <2>2 DEF UnaryCallOk
<1>2. \A d \in UnaryCall : UnaryCallOk(d)'
  BY <1>1
<1>3. /\ stage' = [d \in UnaryCall |-> stage'[d]] /\ callback' = [d \in UnaryCall |-> callback'[d]]
      /\ conversion' = [d \in UnaryCall |-> conversion'[d]] /\ final' = [d \in UnaryCall |-> final'[d]]
      /\ unaryOutcome' = [d \in UnaryCall |-> unaryOutcome'[d]]
      /\ settles' = [d \in UnaryCall |-> settles'[d]]
  BY DEF UnaryInv
<1> QED BY <1>2, <1>3 DEF UnaryInv

\* What finish does: the outcome is that of the callback and the status there are by then.
LEMMA UnaryFinish ==
  ASSUME UnaryInv, NEW c \in UnaryCall, stage[c] = "sent", NEW b, NEW x, NEW f,
         Unary!Finish(c, b, x, f)
  PROVE  /\ stage' = [stage EXCEPT ![c] = stage'[c]]
         /\ unaryOutcome' = [unaryOutcome EXCEPT ![c] = unaryOutcome'[c]]
         /\ settles' = [settles EXCEPT ![c] = settles'[c]]
         /\ \/ /\ b = "none" \/ f = "none"
               /\ stage'[c] = "sent" /\ UNCHANGED <<unaryOutcome, settles>>
            \/ /\ b # "none" /\ f # "none" /\ stage'[c] = "settled" /\ settles'[c] = 1
               /\ unaryOutcome'[c].kind = (IF x THEN "conversion" ELSE
                                           IF b = "error" \/ f # "OK" THEN "status" ELSE "result")
               /\ unaryOutcome'[c].contents = (b = "value" /\ ~x)
<1>1. settles[c] = 0
  BY DEF UnaryInv, UnaryCallOk
<1>2. CASE b = "none" \/ f = "none"
  <2>1. UNCHANGED <<stage, unaryOutcome, settles>>
    BY <1>2 DEF Unary!Finish, Unary!Ready
  <2> QED BY <1>2, <2>1 DEF UnaryInv
<1>3. CASE b # "none" /\ f # "none"
  <2>1. PICK o : o = [kind |-> IF x THEN "conversion" ELSE
                               IF b = "error" \/ f # "OK" THEN "status" ELSE "result",
                      headers |-> unaryHeaders[c], contents |-> b = "value" /\ ~x]
    OBVIOUS
  <2>2. /\ stage' = [stage EXCEPT ![c] = "settled"]
        /\ settles' = [settles EXCEPT ![c] = settles[c] + 1]
        /\ unaryOutcome' = [unaryOutcome EXCEPT ![c] = o]
    BY <1>3, <2>1 DEF Unary!Finish, Unary!Ready
  <2>3. stage'[c] = "settled" /\ settles'[c] = 1 /\ unaryOutcome'[c] = o
    BY <1>1, <2>2 DEF UnaryInv
  <2>4. o.contents = (b = "value" /\ ~x)
    BY Zenon, <2>1
  <2>5. o.kind = (IF x THEN "conversion" ELSE IF b = "error" \/ f # "OK" THEN "status" ELSE "result")
    BY <2>1
  <2> QED BY <1>3, <2>2, <2>3, <2>4, <2>5
<1> QED BY <1>2, <1>3

\* The answer comes.
LEMMA UnaryAnswer ==
  ASSUME UnaryInv, NEW c \in UnaryCall, NEW b \in {"value", "empty", "error"}, NEW x \in BOOLEAN,
         Unary!OnCallback(c, b, x)
  PROVE  UnaryInv'
<1>1. /\ stage[c] = "sent" /\ callback[c] = "none" /\ (x => b = "value")
      /\ final[c] = "OK" => b # "error"
      /\ final[c] = "bad" => b = "error"
      /\ callback' = [callback EXCEPT ![c] = b] /\ conversion' = [conversion EXCEPT ![c] = x]
      /\ Unary!Finish(c, b, x, final[c]) /\ final' = final
  BY DEF Unary!OnCallback
<1>2. callback'[c] = b /\ (conversion'[c] <=> x) /\ conversion' = [conversion EXCEPT ![c] = conversion'[c]]
  BY <1>1 DEF UnaryInv
<1>3. /\ stage' = [stage EXCEPT ![c] = stage'[c]]
      /\ unaryOutcome' = [unaryOutcome EXCEPT ![c] = unaryOutcome'[c]]
      /\ settles' = [settles EXCEPT ![c] = settles'[c]]
      /\ \/ /\ final[c] = "none" /\ stage'[c] = "sent" /\ UNCHANGED <<unaryOutcome, settles>>
         \/ /\ final[c] # "none" /\ stage'[c] = "settled" /\ settles'[c] = 1
            /\ unaryOutcome'[c].kind = (IF x THEN "conversion" ELSE
                                        IF b = "error" \/ final[c] # "OK" THEN "status" ELSE "result")
            /\ unaryOutcome'[c].contents = (b = "value" /\ ~x)
  BY <1>1, UnaryFinish
<1>4. UnaryCallOk(c)'
  <2>1. UnaryCallOk(c)
    BY DEF UnaryInv
  <2>2. CASE final[c] = "none" /\ stage'[c] = "sent" /\ UNCHANGED <<unaryOutcome, settles>>
    BY <1>1, <1>2, <2>1, <2>2 DEF UnaryCallOk
  <2>3. CASE final[c] # "none" /\ stage'[c] = "settled"
    BY <1>1, <1>2, <1>3, <2>1, <2>3 DEF UnaryCallOk
  <2> QED BY <1>3, <2>2, <2>3
<1> QED BY <1>1, <1>2, <1>3, <1>4, UnaryOthers DEF UnaryInv

\* The status comes.
LEMMA UnaryStatus ==
  ASSUME UnaryInv, NEW c \in UnaryCall, NEW f \in {"OK", "bad"}, Unary!OnStatus(c, f)
  PROVE  UnaryInv'
<1>1. /\ stage[c] = "sent" /\ final[c] = "none"
      /\ callback[c] = "error" => f = "bad"
      /\ callback[c] \in {"value", "empty"} => f = "OK"
      /\ final' = [final EXCEPT ![c] = f]
      /\ Unary!Finish(c, callback[c], conversion[c], f) /\ UNCHANGED <<callback, conversion>>
  BY DEF Unary!OnStatus
<1>2. final'[c] = f
  BY <1>1 DEF UnaryInv
<1>3. /\ stage' = [stage EXCEPT ![c] = stage'[c]]
      /\ unaryOutcome' = [unaryOutcome EXCEPT ![c] = unaryOutcome'[c]]
      /\ settles' = [settles EXCEPT ![c] = settles'[c]]
      /\ \/ /\ callback[c] = "none" /\ stage'[c] = "sent" /\ UNCHANGED <<unaryOutcome, settles>>
         \/ /\ callback[c] # "none" /\ stage'[c] = "settled" /\ settles'[c] = 1
            /\ unaryOutcome'[c].kind = (IF conversion[c] THEN "conversion" ELSE
                                        IF callback[c] = "error" \/ f # "OK" THEN "status" ELSE "result")
            /\ unaryOutcome'[c].contents = (callback[c] = "value" /\ ~conversion[c])
  BY <1>1, UnaryFinish
<1>4. UnaryCallOk(c)'
  <2>1. UnaryCallOk(c)
    BY DEF UnaryInv
  <2>2. CASE callback[c] = "none" /\ stage'[c] = "sent" /\ UNCHANGED <<unaryOutcome, settles>>
    BY <1>1, <1>2, <2>1, <2>2 DEF UnaryCallOk
  <2>3. CASE callback[c] # "none" /\ stage'[c] = "settled"
    BY <1>1, <1>2, <1>3, <2>1, <2>3 DEF UnaryCallOk
  <2> QED BY <1>3, <2>2, <2>3
<1> QED BY <1>1, <1>2, <1>3, <1>4, UnaryOthers DEF UnaryInv

\* Every step of a unary call keeps the invariant, and so does one of another part.
LEMMA UnaryStep == ASSUME UnaryInv, Unary!Next \/ UNCHANGED unaryVars PROVE UnaryInv'
<1>1. ASSUME UNCHANGED <<stage, callback, conversion, final, unaryOutcome, settles>> PROVE UnaryInv'
  BY <1>1 DEF UnaryInv, UnaryCallOk
<1>2. ASSUME NEW c \in UnaryCall, Unary!Invoke(c) PROVE UnaryInv'
  <2>1. /\ stage[c] = "idle" /\ \E s \in {"sent", "refused"} : stage' = [stage EXCEPT ![c] = s]
        /\ UNCHANGED <<callback, conversion, final, unaryOutcome, settles>>
    BY <1>2 DEF Unary!Invoke
  <2>2. stage'[c] \in {"sent", "refused"} /\ stage' = [stage EXCEPT ![c] = stage'[c]]
    BY <2>1 DEF UnaryInv
  <2>3. UnaryCallOk(c)'
    BY <2>1, <2>2 DEF UnaryInv, UnaryCallOk
  <2> QED BY <2>1, <2>2, <2>3, UnaryOthers DEF UnaryInv
<1>3. ASSUME NEW c \in UnaryCall, Unary!OnMetadata(c) PROVE UnaryInv'
  BY <1>1, <1>3 DEF Unary!OnMetadata
<1>4. ASSUME NEW c \in UnaryCall, NEW b \in {"value", "empty", "error"}, NEW x \in BOOLEAN,
             Unary!OnCallback(c, b, x)
      PROVE  UnaryInv'
  BY <1>4, UnaryAnswer
<1>5. ASSUME NEW c \in UnaryCall, NEW f \in {"OK", "bad"}, Unary!OnStatus(c, f) PROVE UnaryInv'
  BY <1>5, UnaryStatus
<1>6. ASSUME Unary!CloseClient PROVE UnaryInv'
  BY <1>1, <1>6 DEF Unary!CloseClient
<1>7. ASSUME UNCHANGED unaryVars PROVE UnaryInv'
  BY <1>1, <1>7 DEF unaryVars
<1> HIDE DEF UnaryInv
<1> QED BY <1>2, <1>3, <1>4, <1>5, <1>6, <1>7 DEF Unary!Next

-----------------------------------------------------------------------------
(***************************************************************************)
(* Reflection (RpcReflection).                                             *)
(***************************************************************************)
\* What has been collected by a call is a record of sets.
Job(j) == j = [names |-> j.names, left |-> j.left, files |-> j.files, todo |-> j.todo,
               requested |-> j.requested, arg |-> j.arg]

\* A request is under way.
Asks(c) == asking[c] \in {"list", "symbol", "file"}

\* One caller of reflection: what it has collected is of this server; a request that is sent
\* with v1alpha, or again, follows one that was refused with v1; one that was sent with v1
\* before another was refused is overtaken.
AskerOk(c) ==
  /\ asking[c] \in {"idle", "list", "symbol", "file", "done", "failed", "unimplemented"}
  /\ attempt[c].version \in {"v1", "v1alpha"}
  /\ ~attempt[c].first => attempt[c].version = "v1alpha"
  /\ Job(job[c])
  /\ Asks(c) => /\ attempt[c].version = "v1alpha" => "v1" \notin server.versions
                /\ attempt[c].version = "v1" /\ protocol = "v1alpha" => c \in overtaken
  /\ asking[c] = "unimplemented" => server.versions = {} \/ c \in overtaken
  /\ asking[c] \in {"symbol", "file"} => job[c].names = server.services
  /\ c = "connect" /\ Asks(c) => conn = "connecting"

\* The connection: the server is known from the first one on.
ServerOk ==
  /\ connects \in Nat /\ protocol \in {"v1", "v1alpha"}
  /\ server.versions \subseteq {"v1", "v1alpha"}
  /\ protocol = "v1alpha" => "v1" \notin server.versions
  /\ connects = 0 => /\ conn = "none" /\ protocol = "v1"
                     /\ \A c \in Verifier \union {"connect"} : asking[c] = "idle"
                     /\ \A v \in Verifier : tree[v] = {}

AskerTypes ==
  /\ asking = [c \in Verifier \union {"connect"} |-> asking[c]]
  /\ attempt = [c \in Verifier \union {"connect"} |-> attempt[c]]
  /\ job = [c \in Verifier \union {"connect"} |-> job[c]]
  /\ tree = [v \in Verifier |-> tree[v]]

\* The inductive invariant of RpcReflection.
ReflectionInv ==
  /\ AskerTypes /\ ServerOk /\ \A c \in Verifier \union {"connect"} : AskerOk(c)
  /\ Reflection!LoadedIsClosed /\ Reflection!TreeIsVerified

\* Nothing was asked for.
LEMMA ReflectionInit == Reflection!Init => ReflectionInv
<1> SUFFICES ASSUME Reflection!Init PROVE ReflectionInv
  OBVIOUS
<1>1. /\ server = [versions |-> {}, services |-> {}, differs |-> {}]
      /\ conn = "none" /\ connects = 0 /\ protocol = "v1"
      /\ asking = [c \in Verifier \union {"connect"} |-> "idle"]
      /\ attempt = [c \in Verifier \union {"connect"} |-> [version |-> "v1", first |-> TRUE]]
      /\ job = [c \in Verifier \union {"connect"} |->
                  [names |-> {}, left |-> {}, files |-> {}, todo |-> {}, requested |-> {},
                   arg |-> {}]]
      /\ tree = [v \in Verifier |-> {}]
  BY DEF Reflection!Init, Reflection!Asker, Reflection!Connector, Reflection!NoTry,
         Reflection!NoJob
<1>2. AskerTypes /\ ServerOk
  BY <1>1 DEF AskerTypes, ServerOk
<1>3. ASSUME NEW c \in Verifier \union {"connect"} PROVE AskerOk(c)
  BY <1>1 DEF AskerOk, Asks, Job
<1>4. Reflection!LoadedIsClosed /\ Reflection!TreeIsVerified
  BY <1>1 DEF Reflection!LoadedIsClosed, Reflection!TreeIsVerified
<1> QED BY <1>2, <1>3, <1>4 DEF ReflectionInv

\* It explains what is refused.
LEMMA ReflectionHonest ==
  ReflectionInv => /\ Reflection!LoadedIsClosed /\ Reflection!TreeIsVerified
                   /\ Reflection!UnimplementedExplained
BY DEF ReflectionInv, AskerOk, Reflection!UnimplementedExplained, Reflection!Asker,
       Reflection!Connector

\* A step of caller c alone.
Asking(c) ==
  /\ AskerTypes'
  /\ \A d \in (Verifier \union {"connect"}) \ {c} :
       asking'[d] = asking[d] /\ attempt'[d] = attempt[d] /\ job'[d] = job[d]

\* The other callers are as they should be after a step of c that leaves the server alone,
\* and the connection or ends it.
LEMMA OthersOk ==
  ASSUME ReflectionInv, NEW c \in Verifier \union {"connect"}, Asking(c), UNCHANGED server,
         protocol' = protocol \/ protocol' = "v1", overtaken \ {c} \subseteq overtaken',
         conn' = conn \/ c = "connect"
  PROVE  \A d \in (Verifier \union {"connect"}) \ {c} : AskerOk(d)'
<1> SUFFICES ASSUME NEW d \in (Verifier \union {"connect"}) \ {c} PROVE AskerOk(d)'
  OBVIOUS
<1>1. asking'[d] = asking[d] /\ attempt'[d] = attempt[d] /\ job'[d] = job[d]
  BY DEF Asking
<1>2. AskerOk(d)
  BY DEF ReflectionInv
<1>3. d \in overtaken => d \in overtaken'
  OBVIOUS
<1>4. Asks(d)' <=> Asks(d)
  BY <1>1 DEF Asks
<1>5. Job(job[d])'
  BY <1>1, <1>2 DEF AskerOk, Job
<1> QED BY <1>1, <1>2, <1>3, <1>4, <1>5 DEF AskerOk

\* What Ask does.
LEMMA AskIs ==
  ASSUME AskerTypes, NEW c \in Verifier \union {"connect"}, NEW kinds, NEW j,
         Reflection!Ask(c, kinds, j), tree' = [v \in Verifier |-> tree'[v]]
  PROVE  /\ Asking(c) /\ asking'[c] = kinds /\ job'[c] = j
         /\ attempt'[c].version = protocol' /\ attempt'[c].first = TRUE
         /\ overtaken' = overtaken \ {c}
BY DEF AskerTypes, Asking, Reflection!Ask

\* What Fail does.
LEMMA FailIs ==
  ASSUME AskerTypes, NEW c \in Verifier \union {"connect"}, NEW how, Reflection!Fail(c, how)
  PROVE  /\ Asking(c) /\ asking'[c] = how /\ Job(job'[c])
         /\ attempt'[c].version = "v1" /\ attempt'[c].first = TRUE /\ tree' = tree
         /\ \/ c = "connect" /\ conn' = "none" /\ protocol' = "v1"
            \/ c # "connect" /\ UNCHANGED <<conn, protocol, schema, loaded>>
<1>1. /\ asking' = [asking EXCEPT ![c] = how]
      /\ job' = [job EXCEPT ![c] = [names |-> {}, left |-> {}, files |-> {}, todo |-> {},
                                    requested |-> {}, arg |-> {}]]
      /\ attempt' = [attempt EXCEPT ![c] = [version |-> "v1", first |-> TRUE]]
      /\ UNCHANGED tree
  BY DEF Reflection!Fail, Reflection!NoJob, Reflection!NoTry
<1>2. \/ c = "connect" /\ conn' = "none" /\ protocol' = "v1"
      \/ c # "connect" /\ UNCHANGED <<conn, protocol, schema, loaded>>
  BY DEF Reflection!Fail, Reflection!Connector, Reflection!Close
<1>3. Job([names |-> {}, left |-> {}, files |-> {}, todo |-> {}, requested |-> {}, arg |-> {}])
  BY DEF Job
<1>4. job'[c] = [names |-> {}, left |-> {}, files |-> {}, todo |-> {}, requested |-> {}, arg |-> {}]
  BY <1>1 DEF AskerTypes
<1> QED BY <1>1, <1>2, <1>3, <1>4 DEF AskerTypes, Asking

\* A call that fails for a reason that is explained.
LEMMA ReflectionFails ==
  ASSUME ReflectionInv, NEW c \in Verifier \union {"connect"}, connects # 0,
         NEW how \in {"failed", "unimplemented"}, Reflection!Fail(c, how),
         how = "unimplemented" => server.versions = {} \/ c \in overtaken,
         UNCHANGED <<server, connects, discovery, overtaken>>
  PROVE  ReflectionInv'
<1>1. /\ Asking(c) /\ asking'[c] = how /\ Job(job'[c])
      /\ attempt'[c].version = "v1" /\ attempt'[c].first = TRUE /\ tree' = tree
      /\ \/ c = "connect" /\ conn' = "none" /\ protocol' = "v1"
         \/ c # "connect" /\ UNCHANGED <<conn, protocol, schema, loaded>>
  <2>1. AskerTypes
    BY DEF ReflectionInv
  <2> QED BY <2>1, FailIs
<1>2. ServerOk'
  BY <1>1 DEF ReflectionInv, ServerOk
<1>3. AskerOk(c)'
  <2>1. Job(job[c])' /\ ~Asks(c)'
    BY <1>1 DEF Job, Asks
  <2> QED BY <1>1, <2>1 DEF AskerOk
<1>4. \A d \in (Verifier \union {"connect"}) \ {c} : AskerOk(d)'
  <2>1. /\ protocol' = protocol \/ protocol' = "v1"
        /\ overtaken \ {c} \subseteq overtaken' /\ (conn' = conn \/ c = "connect")
    BY <1>1
  <2> QED BY <1>1, <2>1, OthersOk
<1>5. Reflection!LoadedIsClosed'
  BY <1>1 DEF ReflectionInv, Reflection!LoadedIsClosed
<1>6. Reflection!TreeIsVerified'
  BY <1>1 DEF ReflectionInv, Reflection!TreeIsVerified
<1>7. \A d \in Verifier \union {"connect"} : AskerOk(d)'
  BY <1>3, <1>4
<1> QED BY <1>1, <1>2, <1>5, <1>6, <1>7 DEF ReflectionInv, Asking

\* A request that is sent with the version the driver has by now.
LEMMA ReflectionAsks ==
  ASSUME ReflectionInv, NEW c \in Verifier \union {"connect"}, connects # 0,
         NEW request \in {"list", "symbol", "file"}, NEW j, Reflection!Ask(c, request, j), Job(j),
         request \in {"symbol", "file"} => j.names = server.services,
         c = "connect" => conn = "connecting",
         UNCHANGED <<server, conn, connects, discovery, protocol, schema, loaded>>,
         tree' = [v \in Verifier |-> tree'[v]],
         \A v \in Verifier : tree'[v] = tree[v] \/ tree'[v] = {}
  PROVE  ReflectionInv'
<1>1. /\ Asking(c) /\ asking'[c] = request /\ job'[c] = j
      /\ attempt'[c].version = protocol' /\ attempt'[c].first = TRUE
      /\ overtaken' = overtaken \ {c}
  <2>1. AskerTypes
    BY DEF ReflectionInv
  <2> QED BY <2>1, AskIs
<1>2. ServerOk'
  BY <1>1 DEF ReflectionInv, ServerOk
<1>3. AskerOk(c)'
  <2>1. Job(job[c])'
    BY <1>1 DEF Job
  <2>2. /\ protocol \in {"v1", "v1alpha"} /\ (protocol = "v1alpha" => "v1" \notin server.versions)
    BY DEF ReflectionInv, ServerOk
  <2> QED BY <1>1, <2>1, <2>2 DEF AskerOk
<1>4. \A d \in (Verifier \union {"connect"}) \ {c} : AskerOk(d)'
  <2>1. overtaken \ {c} \subseteq overtaken'
    BY <1>1
  <2> QED BY <1>1, <2>1, OthersOk
<1>5. Reflection!LoadedIsClosed'
  BY <1>1 DEF ReflectionInv, Reflection!LoadedIsClosed
<1>6. Reflection!TreeIsVerified'
  BY <1>1 DEF ReflectionInv, Reflection!TreeIsVerified
<1>7. \A d \in Verifier \union {"connect"} : AskerOk(d)'
  BY <1>3, <1>4
<1> QED BY <1>1, <1>2, <1>5, <1>6, <1>7 DEF ReflectionInv, Asking

\* A connection begins; what the server is, is known from the first one on.
LEMMA ReflectionConnect ==
  ASSUME ReflectionInv, NEW mode \in {"reflection", "verify"}, Reflection!Connect(mode)
  PROVE  ReflectionInv'
<1>1. /\ conn = "none" /\ connects' = connects + 1 /\ discovery' = mode
      /\ UNCHANGED <<protocol, loaded, tree>>
      /\ \/ connects = 0 /\ server' \in [versions : SUBSET {"v1", "v1alpha"},
                                         services : SUBSET Service, differs : SUBSET Service]
         \/ connects # 0 /\ server' = server
  BY DEF Reflection!Connect, Reflection!Version
<1>2. connects \in Nat /\ connects' # 0
  BY <1>1 DEF ReflectionInv, ServerOk
<1>3. server'.versions \subseteq {"v1", "v1alpha"} /\ (protocol = "v1alpha" => "v1" \notin server'.versions)
  BY <1>1 DEF ReflectionInv, ServerOk
<1>4. ServerOk'
  BY <1>1, <1>2, <1>3 DEF ReflectionInv, ServerOk
<1>5. Reflection!TreeIsVerified'
  <2>1. CASE connects = 0
    BY <1>1, <2>1 DEF ReflectionInv, ServerOk, Reflection!TreeIsVerified
  <2>2. CASE connects # 0
    BY <1>1, <2>2 DEF ReflectionInv, Reflection!TreeIsVerified
  <2> QED BY <2>1, <2>2
<1>6. ~Asks("connect")
  BY <1>1 DEF ReflectionInv, AskerOk
<1>7. ASSUME NEW d \in Verifier \union {"connect"}, d # "connect" \/ mode = "verify",
             asking'[d] = asking[d], attempt'[d] = attempt[d], job'[d] = job[d],
             d \in overtaken => d \in overtaken'
      PROVE  AskerOk(d)'
  <2>1. AskerOk(d) /\ (connects = 0 => asking[d] = "idle")
    BY DEF ReflectionInv, ServerOk
  <2>2. Job(job[d])' /\ (Asks(d)' <=> Asks(d)) /\ (asking[d] = "idle" => ~Asks(d))
    BY <1>7, <2>1 DEF AskerOk, Job, Asks
  <2>3. connects # 0 => server' = server
    BY <1>1
  <2>4. d = "connect" => ~Asks(d)'
    BY <1>6, <2>2
  <2>5. asking'[d] = "idle" \/ server' = server
    BY <1>7, <2>1, <2>3
  <2> QED BY <1>1, <1>7, <2>1, <2>2, <2>4, <2>5 DEF AskerOk
<1>8. CASE mode = "reflection"
  <2>1. PICK j : j = [names |-> {}, left |-> {}, files |-> {}, todo |-> {}, requested |-> {},
                      arg |-> {}]
    OBVIOUS
  <2>2. conn' = "connecting" /\ Reflection!Ask("connect", "list", j)
    BY <1>8, <2>1 DEF Reflection!Connect, Reflection!NoJob, Reflection!Connector
  <2>3. AskerTypes /\ tree' = [v \in Verifier |-> tree'[v]]
    BY <1>1 DEF ReflectionInv, AskerTypes
  <2>4. /\ Asking("connect") /\ asking'["connect"] = "list" /\ job'["connect"] = j
        /\ attempt'["connect"].version = protocol' /\ attempt'["connect"].first = TRUE
        /\ overtaken' = overtaken \ {"connect"}
    BY <2>2, <2>3, AskIs
  <2>5. AskerOk("connect")'
    <3>1. Job(job["connect"])'
      BY <2>1, <2>4 DEF Job
    <3>2. protocol' \in {"v1", "v1alpha"} /\ (protocol' = "v1alpha" => "v1" \notin server'.versions)
      BY <1>4 DEF ServerOk
    <3> QED BY <2>2, <2>4, <3>1, <3>2 DEF AskerOk
  <2>6. \A d \in Verifier \union {"connect"} : AskerOk(d)'
    BY <1>7, <2>4, <2>5 DEF Asking
  <2>7. Reflection!LoadedIsClosed'
    BY <2>2 DEF Reflection!LoadedIsClosed
  <2> QED BY <1>4, <1>5, <2>4, <2>6, <2>7 DEF ReflectionInv, Asking
<1>9. CASE mode = "verify"
  <2>1. UNCHANGED <<asking, attempt, job, overtaken>>
    BY <1>9 DEF Reflection!Connect
  <2>2. \A d \in Verifier \union {"connect"} : AskerOk(d)'
    BY <1>7, <1>9, <2>1
  <2>3. AskerTypes'
    BY <1>1, <2>1 DEF ReflectionInv, AskerTypes
  <2>4. Reflection!LoadedIsClosed'
    BY <1>1, <1>9 DEF Reflection!LoadedIsClosed
  <2> QED BY <1>4, <1>5, <2>2, <2>3, <2>4 DEF ReflectionInv
<1> QED BY <1>8, <1>9

\* The connection is closed.
LEMMA ReflectionDisconnect == ASSUME ReflectionInv, Reflection!Disconnect PROVE ReflectionInv'
<1>1. /\ conn = "up" /\ conn' = "none" /\ protocol' = "v1"
      /\ UNCHANGED <<server, connects, discovery, asking, attempt, job, overtaken, tree>>
  BY DEF Reflection!Disconnect, Reflection!Close
<1>2. AskerTypes' /\ ServerOk'
  BY <1>1 DEF ReflectionInv, AskerTypes, ServerOk
<1>3. ASSUME NEW d \in Verifier \union {"connect"} PROVE AskerOk(d)'
  <2>1. AskerOk(d)
    BY DEF ReflectionInv
  <2>2. Job(job[d])' /\ (Asks(d)' <=> Asks(d))
    BY <1>1, <2>1 DEF AskerOk, Job, Asks
  <2> QED BY <1>1, <2>1, <2>2 DEF AskerOk
<1>4. Reflection!LoadedIsClosed' /\ Reflection!TreeIsVerified'
  BY <1>1 DEF ReflectionInv, Reflection!LoadedIsClosed, Reflection!TreeIsVerified
<1> QED BY <1>2, <1>3, <1>4 DEF ReflectionInv

\* A tree is asked for.
LEMMA ReflectionGet ==
  ASSUME ReflectionInv, NEW v \in Verifier, Reflection!GetInfomationSchemas(v)
  PROVE  ReflectionInv'
<1>1. PICK j : j = [names |-> {}, left |-> {}, files |-> {}, todo |-> {}, requested |-> {},
                    arg |-> {}]
  OBVIOUS
<1>2. /\ conn = "up" /\ Reflection!Ask(v, "list", j) /\ tree' = [tree EXCEPT ![v] = {}]
      /\ UNCHANGED <<server, conn, connects, discovery, protocol, schema, loaded>>
  BY <1>1 DEF Reflection!GetInfomationSchemas, Reflection!NoJob
<1>3. /\ connects # 0 /\ tree' = [w \in Verifier |-> tree'[w]]
      /\ \A w \in Verifier : tree'[w] = tree[w] \/ tree'[w] = {}
  BY <1>2 DEF ReflectionInv, ServerOk, AskerTypes
<1>4. Job(j)
  BY <1>1 DEF Job
<1>5. v # "connect"
  BY VerifierAssumption
<1> QED BY <1>2, <1>3, <1>4, <1>5, ReflectionAsks

\* A request is refused, and sent again with v1alpha or not.
LEMMA ReflectionUnimplemented ==
  ASSUME ReflectionInv, NEW c \in Verifier \union {"connect"}, Reflection!Unimplemented(c)
  PROVE  ReflectionInv'
<1>1. /\ Asks(c) /\ attempt[c].version \notin server.versions
      /\ UNCHANGED <<server, connects, discovery>>
  BY DEF Reflection!Unimplemented, Reflection!Pending, Asks
<1>2. connects # 0 /\ AskerOk(c) /\ ServerOk
  BY <1>1 DEF ReflectionInv, ServerOk, Asks
<1>3. CASE attempt[c].first /\ protocol = "v1"
  <2>1. PICK older : older = {d \in Reflection!Pending \ {c} : attempt[d].version = "v1"}
    OBVIOUS
  <2>2. /\ protocol' = "v1alpha"
        /\ attempt' = [attempt EXCEPT ![c] = [version |-> "v1alpha", first |-> FALSE]]
        /\ overtaken' = overtaken \union older
        /\ UNCHANGED <<conn, schema, loaded, asking, job, tree>>
    BY <1>3, <2>1 DEF Reflection!Unimplemented
  <2>3. attempt[c].version = "v1alpha" => "v1" \notin server.versions
    BY <1>1, <1>2 DEF AskerOk
  <2>4. "v1" \notin server.versions
    BY <1>1, <1>2, <2>3 DEF AskerOk
  <2>5. ServerOk'
    BY <1>1, <1>2, <2>2, <2>4 DEF ServerOk
  <2>6. /\ attempt'[c].version = "v1alpha" /\ attempt'[c].first = FALSE
        /\ \A d \in (Verifier \union {"connect"}) \ {c} : attempt'[d] = attempt[d]
        /\ AskerTypes'
    BY <2>2 DEF ReflectionInv, AskerTypes
  <2>7. \A d \in Verifier \union {"connect"} :
          Asks(d) /\ d # c /\ attempt[d].version = "v1" => d \in overtaken'
    BY <2>1, <2>2 DEF Reflection!Pending, Asks, Reflection!Asker, Reflection!Connector
  <2>8. ASSUME NEW d \in Verifier \union {"connect"} PROVE AskerOk(d)'
    <3>1. AskerOk(d)
      BY DEF ReflectionInv
    <3>2. Job(job[d])' /\ (Asks(d)' <=> Asks(d)) /\ (d \in overtaken => d \in overtaken')
      BY <2>2, <3>1 DEF AskerOk, Job, Asks
    <3>3. CASE d = c
      BY <1>1, <2>2, <2>4, <2>6, <3>1, <3>2, <3>3 DEF AskerOk
    <3>4. CASE d # c
      BY <1>1, <2>2, <2>4, <2>6, <2>7, <3>1, <3>2, <3>4 DEF AskerOk
    <3> QED BY <3>3, <3>4
  <2>9. Reflection!LoadedIsClosed' /\ Reflection!TreeIsVerified'
    BY <1>1, <2>2 DEF ReflectionInv, Reflection!LoadedIsClosed, Reflection!TreeIsVerified
  <2> QED BY <2>5, <2>6, <2>8, <2>9 DEF ReflectionInv
<1>4. CASE ~(attempt[c].first /\ protocol = "v1")
  <2>1. Reflection!Fail(c, "unimplemented") /\ UNCHANGED overtaken
    BY <1>4 DEF Reflection!Unimplemented
  <2>2. server.versions = {} \/ c \in overtaken
    <3>1. CASE attempt[c].version = "v1alpha"
      <4>1. "v1" \notin server.versions
        BY <1>1, <1>2, <3>1 DEF AskerOk
      <4> QED BY <1>1, <1>2, <3>1, <4>1 DEF ServerOk
    <3>2. CASE attempt[c].version = "v1"
      BY <1>1, <1>2, <1>4, <3>2 DEF AskerOk, ServerOk
    <3> QED BY <1>2, <3>1, <3>2 DEF AskerOk
  <2> QED BY <1>1, <1>2, <2>1, <2>2, ReflectionFails
<1> QED BY <1>3, <1>4

\* A request breaks.
LEMMA ReflectionBroken ==
  ASSUME ReflectionInv, NEW c \in Verifier \union {"connect"}, Reflection!Broken(c)
  PROVE  ReflectionInv'
<1>1. /\ Asks(c) /\ Reflection!Fail(c, "failed")
      /\ UNCHANGED <<server, connects, discovery, overtaken>>
  BY DEF Reflection!Broken, Reflection!Pending, Asks
<1>2. connects # 0
  BY <1>1 DEF ReflectionInv, ServerOk, Asks
<1> QED BY <1>1, <1>2, ReflectionFails

\* A step that brings a caller to its end.
LEMMA ReflectionDone ==
  ASSUME ReflectionInv, NEW c \in Verifier \union {"connect"}, connects # 0,
         asking' = [asking EXCEPT ![c] = "done"],
         attempt' = [attempt EXCEPT ![c] = [version |-> "v1", first |-> TRUE]],
         job' = [job EXCEPT ![c] = [names |-> {}, left |-> {}, files |-> {}, todo |-> {},
                                    requested |-> {}, arg |-> {}]],
         UNCHANGED <<server, connects, discovery, protocol, overtaken>>,
         conn' = conn \/ c = "connect",
         tree' = [v \in Verifier |-> tree'[v]],
         Reflection!LoadedIsClosed', Reflection!TreeIsVerified'
  PROVE  ReflectionInv'
<1>1. /\ asking'[c] = "done" /\ attempt'[c].version = "v1" /\ attempt'[c].first = TRUE
      /\ job'[c] = [names |-> {}, left |-> {}, files |-> {}, todo |-> {}, requested |-> {},
                    arg |-> {}]
      /\ Asking(c)
  BY DEF ReflectionInv, AskerTypes, Asking
<1>2. ServerOk'
  BY DEF ReflectionInv, ServerOk
<1>3. AskerOk(c)'
  <2>1. Job(job[c])' /\ ~Asks(c)'
    BY <1>1 DEF Job, Asks
  <2> QED BY <1>1, <2>1 DEF AskerOk
<1>4. \A d \in (Verifier \union {"connect"}) \ {c} : AskerOk(d)'
  <2>1. /\ protocol' = protocol \/ protocol' = "v1"
        /\ overtaken \ {c} \subseteq overtaken'
    OBVIOUS
  <2> QED BY <1>1, <2>1, OthersOk
<1>5. \A d \in Verifier \union {"connect"} : AskerOk(d)'
  BY <1>3, <1>4
<1> QED BY <1>1, <1>2, <1>5 DEF ReflectionInv, Asking

\* The connection goes on loading: a request, an error, or a schema that is closed.
LEMMA ReflectionProceeds ==
  ASSUME ReflectionInv, Asks("connect"), NEW j, Job(j), j.names = server.services,
         Reflection!Proceed(j), UNCHANGED <<server, connects, discovery>>
  PROVE  ReflectionInv'
<1>1. connects # 0 /\ conn = "connecting"
  <2>1. AskerOk("connect") /\ ServerOk
    BY DEF ReflectionInv
  <2> QED BY <2>1 DEF AskerOk, ServerOk, Asks
<1>2. PICK services : services = {s \in j.left : FileOf(s) \notin j.files}
  OBVIOUS
<1>3. PICK round : round = IF j.todo \ j.files # {} THEN j.todo \ j.files
                           ELSE Reflection!Missing(j)
  OBVIOUS
<1>4. tree = [v \in Verifier |-> tree[v]]
  BY DEF ReflectionInv, AskerTypes
<1>5. CASE /\ UNCHANGED <<conn, protocol, schema, loaded, cut, tree>>
           /\ \E s \in services :
                Reflection!Ask("connect", "symbol",
                               [j EXCEPT !.left = services \ {s}, !.arg = {s}])
  <2>1. PICK s \in services : Reflection!Ask("connect", "symbol",
                               [j EXCEPT !.left = services \ {s}, !.arg = {s}])
    BY <1>5
  <2>2. PICK i : i = [j EXCEPT !.left = services \ {s}, !.arg = {s}]
    OBVIOUS
  <2>3. Job(i) /\ i.names = server.services
    BY <2>2 DEF Job
  <2>4. Reflection!Ask("connect", "symbol", i)
    BY <2>1, <2>2
  <2> QED BY <1>1, <1>4, <1>5, <2>3, <2>4, ReflectionAsks
<1>6. CASE /\ UNCHANGED <<conn, protocol, schema, loaded, cut, tree>>
           /\ \E f \in round \ j.requested :
                Reflection!Ask("connect", "file",
                  [j EXCEPT !.left = {}, !.todo = round \ {f}, !.arg = {},
                            !.requested = @ \union {f}])
  <2>1. PICK f : Reflection!Ask("connect", "file",
                  [j EXCEPT !.left = {}, !.todo = round \ {f}, !.arg = {},
                            !.requested = @ \union {f}])
    BY <1>6
  <2>2. PICK i : i = [j EXCEPT !.left = {}, !.todo = round \ {f}, !.arg = {},
                            !.requested = @ \union {f}]
    OBVIOUS
  <2>3. Job(i) /\ i.names = server.services
    BY <2>2 DEF Job
  <2>4. Reflection!Ask("connect", "file", i)
    BY <2>1, <2>2
  <2> QED BY <1>1, <1>4, <1>6, <2>3, <2>4, ReflectionAsks
<1>7. CASE Reflection!Fail("connect", "failed") /\ UNCHANGED overtaken
  BY <1>1, <1>7, ReflectionFails
<1>8. CASE /\ round = {} /\ UNCHANGED <<overtaken, protocol, cut, tree>>
           /\ \A s \in j.names : FileOf(s) \in j.files
           /\ conn' = "up" /\ schema' = j.names /\ loaded' = j.files
           /\ asking' = [asking EXCEPT !["connect"] = "done"]
           /\ job' = [job EXCEPT !["connect"] = Reflection!NoJob]
           /\ attempt' = [attempt EXCEPT !["connect"] = Reflection!NoTry]
  <2>1. Reflection!Missing(j) = {}
    BY <1>3, <1>8
  <2>2. \A f \in j.files : Deps(f) \subseteq j.files
    BY <2>1, Zenon DEF Reflection!Missing
  <2>3. Reflection!LoadedIsClosed'
    BY <1>8, <2>2 DEF Reflection!LoadedIsClosed
  <2>4. Reflection!TreeIsVerified'
    BY <1>8 DEF ReflectionInv, Reflection!TreeIsVerified
  <2>5. /\ attempt' = [attempt EXCEPT !["connect"] = [version |-> "v1", first |-> TRUE]]
        /\ job' = [job EXCEPT !["connect"] = [names |-> {}, left |-> {}, files |-> {},
                                              todo |-> {}, requested |-> {}, arg |-> {}]]
    BY <1>8 DEF Reflection!NoJob, Reflection!NoTry
  <2>6. tree' = [v \in Verifier |-> tree'[v]]
    BY <1>4, <1>8
  <2> QED BY <1>1, <1>8, <2>3, <2>4, <2>5, <2>6, ReflectionDone
<1> QED BY <1>2, <1>3, <1>5, <1>6, <1>7, <1>8, Zenon DEF Reflection!Proceed, Reflection!Connector

\* The services are listed, or files come.
LEMMA ReflectionLoads ==
  ASSUME ReflectionInv, Reflection!LoadServices \/ Reflection!LoadFiles
  PROVE  ReflectionInv'
<1>1. CASE Reflection!LoadServices
  <2>1. PICK j : j = [[names |-> {}, left |-> {}, files |-> {}, todo |-> {}, requested |-> {},
                       arg |-> {}] EXCEPT !.names = server.services, !.left = server.services]
    OBVIOUS
  <2>2. /\ Reflection!Proceed(j) /\ UNCHANGED <<server, connects, discovery>>
        /\ asking["connect"] = "list"
    BY <1>1, <2>1 DEF Reflection!LoadServices, Reflection!Answers, Reflection!Connector,
       Reflection!NoJob
  <2>3. Job(j) /\ j.names = server.services /\ Asks("connect")
    BY <2>1, <2>2 DEF Job, Asks
  <2> QED BY <2>2, <2>3, ReflectionProceeds
<1>2. CASE Reflection!LoadFiles
  <2>1. PICK F : Reflection!Proceed([job["connect"] EXCEPT !.files = @ \union F])
    BY <1>2, Zenon DEF Reflection!LoadFiles, Reflection!Connector
  <2>2. PICK j : j = [job["connect"] EXCEPT !.files = @ \union F]
    OBVIOUS
  <2>3. /\ Reflection!Proceed(j) /\ UNCHANGED <<server, connects, discovery>>
        /\ asking["connect"] \in {"symbol", "file"}
    BY <1>2, <2>1, <2>2 DEF Reflection!LoadFiles, Reflection!Answers, Reflection!Connector
  <2>4. AskerOk("connect")
    BY DEF ReflectionInv
  <2>5. Job(j) /\ j.names = server.services /\ Asks("connect")
    BY <2>2, <2>3, <2>4 DEF Job, Asks, AskerOk
  <2> QED BY <2>3, <2>5, ReflectionProceeds
<1> QED BY <1>1, <1>2

\* The services are compared one by one; the tree has those the server lists.
LEMMA ReflectionCompares ==
  ASSUME ReflectionInv, NEW v \in Verifier, Asks(v), NEW j, Job(j), j.names = server.services,
         Reflection!Compare(v, j), UNCHANGED <<server, connects, discovery>>
  PROVE  ReflectionInv'
<1>1. connects # 0 /\ v # "connect"
  <2>1. ServerOk
    BY DEF ReflectionInv
  <2> QED BY <2>1, VerifierAssumption DEF ServerOk, Asks
<1>2. PICK known : known = j.left \intersect schema
  OBVIOUS
<1>4. tree = [w \in Verifier |-> tree[w]]
  BY DEF ReflectionInv, AskerTypes
<1>5. CASE Reflection!Fail(v, "failed") /\ UNCHANGED overtaken
  BY <1>1, <1>5, ReflectionFails
<1>6. CASE /\ UNCHANGED <<conn, protocol, schema, loaded, cut, tree>>
           /\ \E s \in known : Reflection!Ask(v, "symbol",
                                              [j EXCEPT !.left = known \ {s}, !.arg = {s}])
  <2>1. PICK s \in known : Reflection!Ask(v, "symbol",
                               [j EXCEPT !.left = known \ {s}, !.arg = {s}])
    BY <1>6
  <2>2. PICK i : i = [j EXCEPT !.left = known \ {s}, !.arg = {s}]
    OBVIOUS
  <2>3. Job(i) /\ i.names = server.services
    BY <2>2 DEF Job
  <2>4. Reflection!Ask(v, "symbol", i)
    BY <2>1, <2>2
  <2> QED BY <1>1, <1>4, <1>6, <2>3, <2>4, ReflectionAsks
<1>7. CASE /\ Reflection!Tree(j) \intersect server.differs = {}
           /\ asking' = [asking EXCEPT ![v] = "done"]
           /\ tree' = [tree EXCEPT ![v] = Reflection!Tree(j)]
           /\ job' = [job EXCEPT ![v] = Reflection!NoJob]
           /\ attempt' = [attempt EXCEPT ![v] = Reflection!NoTry]
           /\ UNCHANGED <<conn, protocol, schema, loaded, cut, overtaken>>
  <2>1. Reflection!LoadedIsClosed'
    BY <1>7 DEF ReflectionInv, Reflection!LoadedIsClosed
  <2>2. Reflection!Tree(j) \subseteq server.services \ server.differs
    BY <1>7 DEF Reflection!Tree
  <2>3. tree' = [w \in Verifier |-> tree'[w]] /\ tree'[v] = Reflection!Tree(j)
        /\ \A w \in Verifier \ {v} : tree'[w] = tree[w]
    BY <1>4, <1>7
  <2>4. Reflection!TreeIsVerified'
    BY <2>2, <2>3 DEF ReflectionInv, Reflection!TreeIsVerified
  <2>5. /\ attempt' = [attempt EXCEPT ![v] = [version |-> "v1", first |-> TRUE]]
        /\ job' = [job EXCEPT ![v] = [names |-> {}, left |-> {}, files |-> {},
                                      todo |-> {}, requested |-> {}, arg |-> {}]]
    BY <1>7 DEF Reflection!NoJob, Reflection!NoTry
  <2> QED BY <1>1, <1>7, <2>1, <2>3, <2>4, <2>5, ReflectionDone
<1> QED BY <1>2, <1>5, <1>6, <1>7, Zenon DEF Reflection!Compare

\* A server answers a call that compares.
LEMMA ReflectionVerifies ==
  ASSUME ReflectionInv, NEW v \in Verifier,
         Reflection!VerifyServices(v) \/ Reflection!VerifyService(v)
  PROVE  ReflectionInv'
<1>1. CASE Reflection!VerifyServices(v)
  <2>1. PICK j : j = [[names |-> {}, left |-> {}, files |-> {}, todo |-> {}, requested |-> {},
                       arg |-> {}] EXCEPT !.names = server.services, !.left = server.services]
    OBVIOUS
  <2>2. /\ Reflection!Compare(v, j) /\ UNCHANGED <<server, connects, discovery>>
        /\ asking[v] = "list"
    BY <1>1, <2>1 DEF Reflection!VerifyServices, Reflection!Answers, Reflection!NoJob
  <2>3. Job(j) /\ j.names = server.services /\ Asks(v)
    BY <2>1, <2>2 DEF Job, Asks
  <2> QED BY <2>2, <2>3, ReflectionCompares
<1>2. CASE Reflection!VerifyService(v)
  <2>1. /\ Reflection!Compare(v, job[v]) \/ (Reflection!Fail(v, "failed") /\ UNCHANGED overtaken)
        /\ UNCHANGED <<server, connects, discovery>> /\ asking[v] = "symbol"
    BY <1>2 DEF Reflection!VerifyService, Reflection!Answers
  <2>2. AskerOk(v) /\ ServerOk
    BY DEF ReflectionInv
  <2>3. Job(job[v]) /\ job[v].names = server.services /\ Asks(v) /\ connects # 0
    BY <2>1, <2>2 DEF Asks, AskerOk, ServerOk
  <2>4. CASE Reflection!Compare(v, job[v])
    BY <2>1, <2>3, <2>4, ReflectionCompares
  <2>5. CASE Reflection!Fail(v, "failed") /\ UNCHANGED overtaken
    BY <2>1, <2>3, <2>5, ReflectionFails
  <2> QED BY <2>1, <2>4, <2>5
<1> QED BY <1>1, <1>2

\* Every step of RpcReflection preserves the invariant.
LEMMA ReflectionStep ==
  ASSUME ReflectionInv, Reflection!Next \/ UNCHANGED reflectionVars
  PROVE  ReflectionInv'
<1>1. CASE Reflection!Next
  <2>1. ASSUME NEW c \in Verifier \union {"connect"},
               Reflection!Unimplemented(c) \/ Reflection!Broken(c)
        PROVE  ReflectionInv'
    BY <2>1, ReflectionUnimplemented, ReflectionBroken
  <2>2. ASSUME NEW v \in Verifier,
               Reflection!GetInfomationSchemas(v) \/ Reflection!VerifyServices(v)
                 \/ Reflection!VerifyService(v)
        PROVE  ReflectionInv'
    BY <2>2, ReflectionGet, ReflectionVerifies
  <2>3. ASSUME \E mode \in {"reflection", "verify"} : Reflection!Connect(mode)
        PROVE  ReflectionInv'
    BY <2>3, ReflectionConnect
  <2>4. ASSUME Reflection!Disconnect \/ Reflection!LoadServices \/ Reflection!LoadFiles
        PROVE  ReflectionInv'
    BY <2>4, ReflectionDisconnect, ReflectionLoads
  <2> QED BY <1>1, <2>1, <2>2, <2>3, <2>4, Zenon DEF Reflection!Next, Reflection!Asker,
             Reflection!Connector
<1>2. CASE UNCHANGED reflectionVars
  <2>1. UNCHANGED <<server, conn, connects, discovery, protocol, schema, loaded,
                    asking, attempt, job, cut, overtaken, tree>>
    BY <1>2 DEF reflectionVars
  <2>2. AskerTypes' /\ ServerOk' /\ Reflection!LoadedIsClosed' /\ Reflection!TreeIsVerified'
    BY <2>1 DEF ReflectionInv, AskerTypes, ServerOk, Reflection!LoadedIsClosed,
       Reflection!TreeIsVerified
  <2>3. ASSUME NEW c \in Verifier \union {"connect"} PROVE AskerOk(c)'
    <3>1. AskerOk(c)
      BY DEF ReflectionInv
    <3>2. Job(job[c])' /\ (Asks(c)' <=> Asks(c))
      BY <2>1, <3>1 DEF AskerOk, Job, Asks
    <3> QED BY <2>1, <3>1, <3>2 DEF AskerOk
  <2> QED BY <2>2, <2>3 DEF ReflectionInv
<1> QED BY <1>1, <1>2

-----------------------------------------------------------------------------
\* The parts of MC_Rpc, each by its own invariant.
CallsInv == IInv /\ AddUp(queue, buffered) /\ UnaryInv /\ ReflectionInv

\* A step of MC_Rpc is a step of one part; the others stand still.
LEMMA CallsStep ==
  CallsInv /\ [MCNext]_<<on, vars, reflectionVars, unaryVars>> => CallsInv'
<1> SUFFICES ASSUME CallsInv, [MCNext]_<<on, vars, reflectionVars, unaryVars>>
             PROVE  CallsInv'
  OBVIOUS
<1>1. /\ [Next]_vars
      /\ Unary!Next \/ UNCHANGED unaryVars
      /\ Reflection!Next \/ UNCHANGED reflectionVars
  BY Zenon DEF MCNext
<1>2. IInv'
  BY <1>1, Typing, FlowingStep, ReaderStep, ClosingStep DEF CallsInv, IInv
<1>3. AddUp(queue', buffered')
  BY <1>1, StepBytes DEF CallsInv, IInv
<1>4. UnaryInv' /\ ReflectionInv'
  BY <1>1, UnaryStep, ReflectionStep DEF CallsInv
<1> QED BY <1>2, <1>3, <1>4 DEF CallsInv

\* What is asked is answered truthfully.
LEMMA CallsHonest == CallsInv => Answered
<1> SUFFICES ASSUME CallsInv PROVE Answered
  OBVIOUS
<1>1. Len(queue) \in Nat
  BY DEF CallsInv, IInv, TypeOK, QueueTypes
<1>2. BytesCounted
  BY <1>1, AddUpIs DEF CallsInv, BytesCounted
<1>3. Unary!UnarySettlesOnce
  BY UnaryHonest DEF CallsInv
<1>4. /\ Reflection!LoadedIsClosed /\ Reflection!TreeIsVerified
      /\ Reflection!UnimplementedExplained
  BY ReflectionHonest DEF CallsInv
<1> QED BY <1>2, <1>3, <1>4 DEF Answered

\* For any services, files and imports, any server, and any calls of
\* getInfomationSchemas and connect() at once: a schema that was loaded by
\* reflection is complete and closed under imports, a tree shows what the server
\* lists, and "does not implement" is said of a server without reflection or by a
\* request another one overtook; for any unary calls, each is settled once, by its
\* callback and its status; and the bytes a stream counts are those of its queue.
THEOREM CallsAreAnswered == MCSpec => []Answered
<1>1. MCInit => CallsInv
  BY InitInv, InitBytes, UnaryInit, ReflectionInit DEF MCInit, CallsInv
<1> QED BY <1>1, CallsStep, CallsHonest, PTL DEF MCSpec
=============================================================================
