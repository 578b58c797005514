------------------------------ MODULE RpcUnary ------------------------------
(***************************************************************************)
(* RPCDriver.executeUnary: the promise of a unary call, which is settled   *)
(* from two callbacks of grpc-js, the answer and the status, that come in  *)
(* either order, with the metadata anywhere between them.                  *)
(***************************************************************************)
EXTENDS Naturals

CONSTANT UnaryCall

VARIABLES open,        \* is the driver connected?
          stage,       \* "idle", "sent", "settled" or "refused"
          headers,     \* the metadata came
          callback,    \* "none", "value", "empty" or "error"
          conversion,  \* did the conversion of the answer fail?
          final,       \* the code of the status: "none", "OK" or "bad"
          outcome,     \* how the promise was settled, and what it says
          settles      \* history: how often it was settled

uvars == <<open, stage, headers, callback, conversion, final, outcome, settles>>

NoOutcome == [kind |-> "none", headers |-> FALSE, contents |-> FALSE]

Init ==
  /\ open = TRUE
  /\ stage = [c \in UnaryCall |-> "idle"]
  /\ headers = [c \in UnaryCall |-> FALSE]
  /\ callback = [c \in UnaryCall |-> "none"]
  /\ conversion = [c \in UnaryCall |-> FALSE]
  /\ final = [c \in UnaryCall |-> "none"]
  /\ outcome = [c \in UnaryCall |-> NoOutcome]
  /\ settles = [c \in UnaryCall |-> 0]

-----------------------------------------------------------------------------
\* invokeUnary, invokeUnaryProtoJson: refused without a connection, for an
\* unknown or streaming method, or for a request that does not fit its type.
Invoke(c) ==
  /\ stage[c] = "idle"
  /\ \/ open /\ stage' = [stage EXCEPT ![c] = "sent"]
     \/ stage' = [stage EXCEPT ![c] = "refused"]
  /\ UNCHANGED <<open, headers, callback, conversion, final, outcome, settles>>

\* Mutant: the status alone decides, as soon as it has come.
Ready_AtStatus(b, f) == f # "none"

\* Both callbacks have come.
Ready(b, f) == b # "none" /\ f # "none"

\* finish, with the callback, conversion error and status by now.
Finish(c, b, x, f) ==
  IF stage[c] = "settled" \/ ~Ready(b, f)
  THEN UNCHANGED <<stage, outcome, settles>>
  ELSE /\ stage' = [stage EXCEPT ![c] = "settled"]
       /\ settles' = [settles EXCEPT ![c] = @ + 1]
       /\ outcome' = [outcome EXCEPT ![c] =
            [kind |-> IF x THEN "conversion" ELSE
                      IF b = "error" \/ f # "OK" THEN "status" ELSE "result",
             headers |-> headers[c], contents |-> b = "value" /\ ~x]]

OnMetadata(c) ==
  /\ stage[c] \in {"sent", "settled"} /\ ~headers[c]
  /\ headers' = [headers EXCEPT ![c] = TRUE]
  /\ UNCHANGED <<open, stage, callback, conversion, final, outcome, settles>>

\* The callback of makeUnaryRequest; grpc-js reports an error just when the
\* status is not OK.
OnCallback(c, b, x) ==
  /\ stage[c] = "sent" /\ callback[c] = "none"
  /\ x => b = "value"
  /\ final[c] = "OK" => b # "error"
  /\ final[c] = "bad" => b = "error"
  /\ callback' = [callback EXCEPT ![c] = b]
  /\ conversion' = [conversion EXCEPT ![c] = x]
  /\ Finish(c, b, x, final[c])
  /\ UNCHANGED <<open, headers, final>>

OnStatus(c, f) ==
  /\ stage[c] = "sent" /\ final[c] = "none"
  /\ callback[c] = "error" => f = "bad"
  /\ callback[c] \in {"value", "empty"} => f = "OK"
  /\ final' = [final EXCEPT ![c] = f]
  /\ Finish(c, callback[c], conversion[c], f)
  /\ UNCHANGED <<open, headers, callback, conversion>>

\* closeSub: the calls under way end with their status.
CloseClient ==
  /\ open /\ open' = FALSE
  /\ UNCHANGED <<stage, headers, callback, conversion, final, outcome, settles>>

Next ==
  \/ \E c \in UnaryCall :
       \/ Invoke(c) \/ OnMetadata(c)
       \/ \E b \in {"value", "empty", "error"}, x \in BOOLEAN : OnCallback(c, b, x)
       \/ \E f \in {"OK", "bad"} : OnStatus(c, f)
  \/ CloseClient

-----------------------------------------------------------------------------
\* Whatever the order of its callbacks, a call is settled once, when both have
\* come; it resolves only with an answer and a status that are both good, and
\* it never shows the contents of an answer that could not be converted.
UnarySettlesOnce ==
  \A c \in UnaryCall :
    /\ settles[c] = (IF callback[c] # "none" /\ final[c] # "none" THEN 1 ELSE 0)
    /\ outcome[c].kind = "result" =>
         /\ final[c] = "OK" /\ callback[c] \in {"value", "empty"} /\ ~conversion[c]
         /\ outcome[c].contents = (callback[c] = "value")
    /\ outcome[c].kind # "result" => ~(outcome[c].contents /\ final[c] = "OK")
    /\ final[c] = "bad" => outcome[c].kind \in {"none", "status"}
=============================================================================
