------------------------------ MODULE RpcStream ------------------------------
(***************************************************************************)
(* A streaming call of RPCDriver: openProtoJsonStream with its bounded     *)
(* RpcStreamEventQueue, the consumer that iterates over the events, and    *)
(* the gRPC client underneath.                                             *)
(*                                                                         *)
(* gRPC is external.  It delivers metadata, messages, the response         *)
(* callback, an error and the status in any order it may use; it keeps up  *)
(* to Prefetch messages in the readable while that is paused, and emits    *)
(* the status once it has received the last message, delivered or not.     *)
(***************************************************************************)
EXTENDS Integers, Sequences, SequencesExt

CONSTANTS Kinds,       \* the kinds of call checked
          Capacity,    \* 256 events
          MaxBytes,    \* 8 MiB
          PauseAt,     \* 128 events
          ResumeAt,    \* 64 events
          Prefetch,    \* messages a paused readable may hold
          Sizes,       \* sizes of an event
          MaxMessages, \* bound: messages of the server
          MaxSends     \* bound: calls of send()

ASSUME StreamAssumption ==
  /\ Kinds \subseteq {"serverStreaming", "clientStreaming", "bidiStreaming"}
  /\ Capacity \in Nat \ {0} /\ MaxBytes \in Nat
  /\ PauseAt \in Nat /\ ResumeAt \in Nat /\ Prefetch \in Nat
  /\ MaxMessages \in Nat /\ MaxSends \in Nat
  /\ Sizes \subseteq Nat \ {0}
  /\ ResumeAt < PauseAt

VARIABLES kind,
          queue, buffered,      \* RpcStreamEventQueue: items, bufferedBytes
          consumer, hand, seen, \* its reader, and the last index it saw
          paused, arrived, total,         \* the readable
          headers, finalStatus, callError, callbackDone,
          conversionError, settled, explicitCancel, watchdog, outcome,
          sendingClosed, accepted, begun, writing, closing,
          sentCount, receivedCount

queueVars == <<queue, buffered, hand>>
callVars  == <<headers, finalStatus, callError, callbackDone>>
endVars   == <<settled, outcome>>
sendVars  == <<sendingClosed, accepted, begun, writing, closing>>
countVars == <<sentCount, receivedCount>>
vars == <<kind, queueVars, consumer, seen, paused, arrived, total, callVars,
          conversionError, endVars, explicitCancel, watchdog, sendVars, countVars>>

Event == [type : {"headers", "sent", "received"}, index : Nat, bytes : Sizes]
Status == {"OK", "DEADLINE_EXCEEDED", "other"}

QueueTypes ==
  /\ kind \in Kinds
  /\ queue \in Seq(Event) /\ hand \in Seq(Event) /\ Len(hand) <= 1
  /\ buffered \in Int
  /\ consumer \in {"idle", "waiting", "handed", "done"}
  /\ seen \in [{"headers", "sent", "received"} -> Nat]
  /\ paused \in BOOLEAN /\ arrived \in 0..Prefetch /\ total \in 0..MaxMessages

CallTypes ==
  /\ headers \in BOOLEAN /\ callError \in BOOLEAN /\ callbackDone \in BOOLEAN
  /\ finalStatus \in Status \union {"none"}
  /\ conversionError \in {"none", "full", "bad"}
  /\ settled \in BOOLEAN /\ explicitCancel \in BOOLEAN /\ watchdog \in BOOLEAN
  /\ outcome \in {"none", "success", "error", "cancelled", "timeout"}

SendTypes ==
  /\ sendingClosed \in BOOLEAN /\ writing \in BOOLEAN
  /\ accepted \in 0..MaxSends /\ begun \in 0..MaxSends
  /\ closing \in {"no", "waiting", "ended", "skipped"}
  /\ sentCount \in Nat /\ receivedCount \in Nat

TypeOK == QueueTypes /\ CallTypes /\ SendTypes

Readable == kind # "clientStreaming"
Writable == kind # "serverStreaming"

\* A server stream has sent its one request when the session is returned.
Init ==
  /\ kind \in Kinds
  /\ IF kind = "serverStreaming"
     THEN \E b \in Sizes :
            /\ b <= MaxBytes
            /\ queue = <<[type |-> "sent", index |-> 1, bytes |-> b]>>
            /\ buffered = b /\ sentCount = 1
     ELSE queue = <<>> /\ buffered = 0 /\ sentCount = 0
  /\ consumer = "idle" /\ hand = <<>>
  /\ seen = [t \in {"headers", "sent", "received"} |-> 0]
  /\ paused = (Readable /\ Len(queue) >= PauseAt)
  /\ arrived = 0 /\ total = 0
  /\ headers = FALSE /\ finalStatus = "none"
  /\ callError = FALSE /\ callbackDone = FALSE
  /\ conversionError = "none" /\ settled = FALSE /\ explicitCancel = FALSE
  /\ watchdog = FALSE /\ outcome = "none"
  /\ sendingClosed = FALSE /\ accepted = 0 /\ begun = 0 /\ writing = FALSE
  /\ closing = "no"
  /\ receivedCount = 0

-----------------------------------------------------------------------------
(***************************************************************************)
(* The queue.  It is closed by finish(), so ended is settled.              *)
(***************************************************************************)

\* Whether push returns true.
Accepts(e) ==
  /\ ~settled
  /\ e.bytes <= MaxBytes
  /\ \/ consumer = "waiting"
     \/ Len(queue) < Capacity /\ buffered + e.bytes <= MaxBytes

\* Mutant: the result of push is ignored.
Push_Ignored(e) ==
  /\ IF Accepts(e) /\ consumer = "waiting"
     THEN hand' = <<e>> /\ UNCHANGED <<queue, buffered>>
     ELSE IF Accepts(e)
     THEN /\ queue' = Append(queue, e) /\ buffered' = buffered + e.bytes
          /\ UNCHANGED hand
     ELSE UNCHANGED queueVars
  /\ paused' = (paused \/ (Accepts(e) /\ Readable /\ Len(queue') >= PauseAt))
  /\ UNCHANGED conversionError

\* push() and what the session's push makes of its result: a full readable is
\* paused, and an event that does not fit fails the call.
Push(e) ==
  /\ IF Accepts(e) /\ consumer = "waiting"
     THEN hand' = <<e>> /\ UNCHANGED <<queue, buffered>>
     ELSE IF Accepts(e)
     THEN /\ queue' = Append(queue, e) /\ buffered' = buffered + e.bytes
          /\ UNCHANGED hand
     ELSE UNCHANGED queueVars
  /\ paused' = (paused \/ (Accepts(e) /\ Readable /\ Len(queue') >= PauseAt))
  /\ conversionError' =
       IF Accepts(e) \/ settled \/ conversionError # "none"
       THEN conversionError ELSE "full"

\* Mutant: close() does not wake the reader.
Reader_NotWoken(handed, closed) ==
  IF consumer = "waiting" /\ handed THEN "handed" ELSE consumer

\* The waiting reader after a push (or none) and, when the call settles, close().
Reader(handed, closed) ==
  IF consumer # "waiting" THEN consumer
  ELSE IF handed THEN "handed"
  ELSE IF closed THEN "done" ELSE "waiting"

PushOnly(e) ==
  /\ Push(e)
  /\ consumer' = Reader(Accepts(e), FALSE)
  /\ watchdog' = (watchdog \/ conversionError' # conversionError)

-----------------------------------------------------------------------------
(***************************************************************************)
(* finish(force), with what the handler that calls it has just set.        *)
(***************************************************************************)
Result(force) ==
  LET failed == \/ conversionError' # "none" \/ callError'
                \/ force /\ kind = "clientStreaming" /\ ~callbackDone'
  IN  IF explicitCancel THEN "cancelled"
      ELSE IF finalStatus' = "DEADLINE_EXCEEDED" THEN "timeout"
      ELSE IF failed \/ finalStatus' # "OK" THEN "error" ELSE "success"

Complete(force) ==
  \/ force
  \/ finalStatus' # "none" /\ (kind = "clientStreaming" => callbackDone')

Finish(force) ==
  IF Complete(force)
  THEN settled' = TRUE /\ outcome' = Result(force)
  ELSE UNCHANGED endVars

\* if (!settled) armWatchdog(); settling clears it.
Arm == watchdog' = ~settled'

-----------------------------------------------------------------------------
(***************************************************************************)
(* What gRPC calls                                                         *)
(***************************************************************************)
OnMetadata ==
  /\ ~headers /\ ~settled
  /\ headers' = TRUE
  /\ \E b \in Sizes : PushOnly([type |-> "headers", index |-> 0, bytes |-> b])
  /\ UNCHANGED <<kind, seen, arrived, total, finalStatus, callError,
                 callbackDone, endVars, explicitCancel, sendVars, countVars>>

\* A message reaches the readable.
Arrive ==
  /\ Readable /\ finalStatus = "none"
  /\ arrived < Prefetch /\ total < MaxMessages
  /\ arrived' = arrived + 1 /\ total' = total + 1
  /\ UNCHANGED <<kind, queueVars, consumer, seen, paused, callVars,
                 conversionError, endVars, explicitCancel, watchdog, sendVars,
                 countVars>>

\* Mutant: the event is pushed before it is counted.
OnData_CountsAfter ==
  /\ Readable /\ arrived > 0 /\ ~paused /\ ~settled
  /\ arrived' = arrived - 1
  /\ \/ /\ receivedCount' = receivedCount + 1
        /\ \E b \in Sizes :
             PushOnly([type |-> "received", index |-> receivedCount, bytes |-> b])
     \/ /\ conversionError' = "bad" /\ watchdog' = TRUE
        /\ UNCHANGED <<queueVars, consumer, paused, receivedCount>>
  /\ UNCHANGED <<kind, seen, total, callVars, endVars, explicitCancel,
                 sendVars, sentCount>>

OnData ==
  /\ Readable /\ arrived > 0 /\ ~paused /\ ~settled
  /\ arrived' = arrived - 1
  /\ \/ /\ receivedCount' = receivedCount + 1
        /\ \E b \in Sizes :
             PushOnly([type |-> "received", index |-> receivedCount', bytes |-> b])
     \/ /\ conversionError' = "bad" /\ watchdog' = TRUE
        /\ UNCHANGED <<queueVars, consumer, paused, receivedCount>>
  /\ UNCHANGED <<kind, seen, total, callVars, endVars, explicitCancel,
                 sendVars, sentCount>>

\* A readable that is not paused has delivered what it received.
OnStatus(s) ==
  /\ finalStatus = "none" /\ ~settled
  /\ s = "OK" => ~callError /\ (arrived = 0 \/ paused)
  /\ finalStatus' = s
  /\ UNCHANGED <<headers, callError, callbackDone, conversionError, queueVars>>
  /\ Finish(FALSE) /\ Arm
  /\ consumer' = Reader(FALSE, settled')
  /\ UNCHANGED <<kind, seen, paused, arrived, total, explicitCancel, sendVars,
                 countVars>>

OnError ==
  /\ ~callError /\ ~settled /\ finalStatus # "OK"
  /\ callError' = TRUE
  /\ UNCHANGED <<headers, finalStatus, callbackDone, conversionError, queueVars>>
  /\ Finish(FALSE) /\ Arm
  /\ consumer' = Reader(FALSE, settled')
  /\ UNCHANGED <<kind, seen, paused, arrived, total, explicitCancel, sendVars,
                 countVars>>

\* The readable of a cancelled call ends.
OnEnd ==
  /\ Readable /\ arrived = 0 /\ ~paused /\ ~settled
  /\ explicitCancel \/ conversionError # "none"
  /\ UNCHANGED <<callVars, conversionError, queueVars>>
  /\ Finish(FALSE) /\ Arm
  /\ consumer' = Reader(FALSE, settled')
  /\ UNCHANGED <<kind, seen, paused, arrived, total, explicitCancel, sendVars,
                 countVars>>

\* The callback of a client stream, with an error or the one response.
OnResponse ==
  /\ kind = "clientStreaming" /\ ~callbackDone /\ ~settled
  /\ callbackDone' = TRUE
  /\ \/ /\ finalStatus # "OK" /\ callError' = TRUE
        /\ UNCHANGED <<queueVars, paused, conversionError, receivedCount>>
     \/ /\ finalStatus \in {"none", "OK"} /\ ~callError
        /\ receivedCount' = receivedCount + 1
        /\ \E b \in Sizes :
             Push([type |-> "received", index |-> receivedCount', bytes |-> b])
        /\ UNCHANGED callError
     \/ /\ finalStatus \in {"none", "OK"} /\ ~callError
        /\ conversionError' = "bad"
        /\ UNCHANGED <<queueVars, paused, callError, receivedCount>>
  /\ UNCHANGED <<headers, finalStatus>>
  /\ Finish(FALSE)
  /\ watchdog' = (~settled' /\ (watchdog \/ (conversionError' = "full"
                                              /\ conversionError = "none")))
  /\ consumer' = Reader(hand' # <<>>, settled')
  /\ UNCHANGED <<kind, seen, arrived, total, explicitCancel, sendVars, sentCount>>

\* The second after armWatchdog has passed: finish(true).
OnWatchdog ==
  /\ watchdog /\ ~settled
  /\ UNCHANGED <<callVars, conversionError, queueVars>>
  /\ Finish(TRUE)
  /\ watchdog' = FALSE
  /\ consumer' = Reader(FALSE, TRUE)
  /\ UNCHANGED <<kind, seen, paused, arrived, total, explicitCancel, sendVars,
                 countVars>>

-----------------------------------------------------------------------------
(***************************************************************************)
(* What the user of the session calls                                      *)
(***************************************************************************)
\* Mutant: cancel() leaves the rest to gRPC.
Cancel_NoWatchdog ==
  /\ ~settled /\ ~explicitCancel
  /\ explicitCancel' = TRUE /\ sendingClosed' = TRUE
  /\ UNCHANGED <<kind, queueVars, consumer, seen, paused, arrived, total,
                 callVars, conversionError, endVars, watchdog, accepted, begun,
                 writing, closing, countVars>>

Cancel ==
  /\ ~settled /\ ~explicitCancel
  /\ explicitCancel' = TRUE /\ sendingClosed' = TRUE /\ watchdog' = TRUE
  /\ UNCHANGED <<kind, queueVars, consumer, seen, paused, arrived, total,
                 callVars, conversionError, endVars, accepted, begun, writing,
                 closing, countVars>>

\* send() appends to the chain of writes.
Send ==
  /\ Writable /\ accepted < MaxSends
  /\ ~sendingClosed /\ ~settled /\ ~explicitCancel
  /\ accepted' = accepted + 1
  /\ UNCHANGED <<kind, queueVars, consumer, seen, paused, arrived, total,
                 callVars, conversionError, endVars, explicitCancel, watchdog,
                 sendingClosed, begun, writing, closing, countVars>>

\* The next write of the chain starts, or is rejected after the end.
WriteStart ==
  /\ begun < accepted /\ ~writing
  /\ begun' = begun + 1
  /\ writing' = (~settled /\ ~explicitCancel)
  /\ UNCHANGED <<kind, queueVars, consumer, seen, paused, arrived, total,
                 callVars, conversionError, endVars, explicitCancel, watchdog,
                 sendingClosed, accepted, closing, countVars>>

\* gRPC calls back, with an error or without.
WriteDone ==
  /\ writing
  /\ writing' = FALSE
  /\ \/ UNCHANGED <<queueVars, consumer, paused, conversionError, watchdog, sentCount>>
     \/ /\ sentCount' = sentCount + 1
        /\ \E b \in Sizes :
             PushOnly([type |-> "sent", index |-> sentCount', bytes |-> b])
  /\ UNCHANGED <<kind, seen, arrived, total, callVars, endVars, explicitCancel,
                 sendingClosed, accepted, begun, closing, receivedCount>>

\* Mutant: send() is still accepted while finishSending awaits the writes.
FinishSending_StillOpen ==
  /\ Writable /\ ~sendingClosed /\ ~settled /\ closing = "no"
  /\ closing' = "waiting"
  /\ UNCHANGED <<kind, queueVars, consumer, seen, paused, arrived, total,
                 callVars, conversionError, endVars, explicitCancel, watchdog,
                 sendingClosed, accepted, begun, writing, countVars>>

FinishSending ==
  /\ Writable /\ ~sendingClosed /\ ~settled
  /\ sendingClosed' = TRUE /\ closing' = "waiting"
  /\ UNCHANGED <<kind, queueVars, consumer, seen, paused, arrived, total,
                 callVars, conversionError, endVars, explicitCancel, watchdog,
                 accepted, begun, writing, countVars>>

\* await writeChain, then writable.end() unless the call has ended meanwhile.
HalfClose ==
  /\ closing = "waiting" /\ begun = accepted /\ ~writing
  /\ closing' = IF settled \/ explicitCancel THEN "skipped" ELSE "ended"
  /\ UNCHANGED <<kind, queueVars, consumer, seen, paused, arrived, total,
                 callVars, conversionError, endVars, explicitCancel, watchdog,
                 sendingClosed, accepted, begun, writing, countVars>>

-----------------------------------------------------------------------------
(***************************************************************************)
(* The consumer: one iteration over session.events                         *)
(***************************************************************************)

\* Mutant: only the reader that waited calls onDrain.
Drain_OnlyWaiting ==
  paused' = (paused /\ (consumer = "idle" \/ settled \/ Len(queue') > ResumeAt))

\* onDrain, called with the queue as it is then.
Drain == paused' = (paused /\ (settled \/ Len(queue') > ResumeAt))

Take ==
  /\ consumer = "idle" /\ queue # <<>>
  /\ queue' = Tail(queue) /\ buffered' = buffered - Head(queue).bytes
  /\ seen' = [seen EXCEPT ![Head(queue).type] = Head(queue).index]
  /\ Drain
  /\ UNCHANGED <<kind, hand, consumer, arrived, total, callVars, conversionError,
                 endVars, explicitCancel, watchdog, sendVars, countVars>>

Wait ==
  /\ consumer = "idle" /\ queue = <<>>
  /\ consumer' = IF settled THEN "done" ELSE "waiting"
  /\ UNCHANGED <<kind, queueVars, seen, paused, arrived, total, callVars,
                 conversionError, endVars, explicitCancel, watchdog, sendVars,
                 countVars>>

\* The reader that push resolved goes on; more may have been pushed by now.
Resume ==
  /\ consumer = "handed"
  /\ consumer' = "idle" /\ hand' = <<>>
  /\ seen' = [seen EXCEPT ![Head(hand).type] = Head(hand).index]
  /\ UNCHANGED <<queue, buffered>>
  /\ Drain
  /\ UNCHANGED <<kind, arrived, total, callVars, conversionError, endVars,
                 explicitCancel, watchdog, sendVars, countVars>>

Consumer == Take \/ Wait \/ Resume

Next ==
  \/ OnMetadata \/ Arrive \/ OnData \/ (\E s \in Status : OnStatus(s))
  \/ OnError \/ OnEnd \/ OnResponse \/ OnWatchdog
  \/ Cancel \/ Send \/ WriteStart \/ WriteDone \/ FinishSending \/ HalfClose
  \/ Consumer

Spec == Init /\ [][Next]_vars

\* Timers fire, promise chains go on and the consumer goes on iterating; gRPC
\* and the server may stop at any point.
Fairness == WF_vars(OnWatchdog) /\ WF_vars(WriteStart) /\ WF_vars(Consumer)

FairSpec == Spec /\ Fairness
-----------------------------------------------------------------------------
(***************************************************************************)
(* Properties                                                              *)
(***************************************************************************)

\* The bytes of the events of q.
BytesOf(q) ==
  LET sum[i \in 0 .. Len(q)] == IF i = 0 THEN 0 ELSE sum[i - 1] + q[i].bytes
  IN  sum[Len(q)]

\* BytesCounted: the queue's byte count is that of its items.
BytesCounted == buffered = BytesOf(queue)

\* Bounded: a consumer that stops reading retains a bounded number of events
\* and bytes.
Bounded == Len(queue) <= Capacity /\ buffered <= MaxBytes

\* Flowing: a readable that is paused will be resumed, because the consumer has
\* still to take the event that resumes it.
Flowing == paused /\ ~settled => Len(queue) > ResumeAt

\* NoReaderLost: nobody waits for an event that is in the queue, or on a queue
\* that was closed.
NoReaderLost == consumer = "waiting" => queue = <<>> /\ ~settled

\* The events of type t are those with the indices after last up to count, in
\* order and each once.
Follow(events, t, last, count) ==
  LET places == {i \in DOMAIN events : events[i].type = t}
  IN  /\ last <= count
      /\ \A i \in places : events[i].index \in (last + 1)..count
      /\ \A n \in (last + 1)..count : \E i \in places : events[i].index = n
      /\ \A i, k \in places : i < k => events[i].index < events[k].index

\* What the consumer is still to see completes what it has seen.
Coming == hand \o queue
InOrder(t, count) == Follow(Coming, t, seen[t], count)

\* Accounted: as long as no event failed to fit and no message to convert, every
\* message the completion counts as received reaches the consumer, in order and
\* once; so does every one counted as sent by then.
Accounted ==
  conversionError = "none" =>
    /\ InOrder("received", receivedCount)
    /\ ~settled => InOrder("sent", sentCount)

\* CompleteUnlessPaused: a stream that succeeds has delivered every message the
\* server sent, unless the readable was paused when the status came.
CompleteUnlessPaused ==
  outcome = "success" /\ Readable => paused \/ InOrder("received", total)

\* Delivered: every message is counted once and in order, a call whose readable
\* was never paused has all the messages the server sent, and a consumer that
\* stops reading retains a bounded number of events and bytes.
Delivered == Accounted /\ CompleteUnlessPaused /\ Bounded

\* NothingAfterEnd: once the sending side is closed nothing is written to it,
\* and every message accepted before has been.
NothingAfterEnd == closing = "ended" => begun = accepted /\ ~writing

\* Settles: completion settles after cancel(), a status or an overflow, whatever
\* gRPC still delivers.
Settles ==
  (explicitCancel \/ finalStatus # "none" \/ conversionError = "full") ~> settled

\* ConsumerEnds: once the completion has settled, the iteration over the events
\* ends.
ConsumerEnds == settled ~> consumer = "done"

\* SuccessIsComplete: a stream that succeeds has received every message the
\* server sent.
SuccessIsComplete == outcome = "success" /\ Readable => receivedCount = total
=============================================================================
