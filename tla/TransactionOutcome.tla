------------------------ MODULE TransactionOutcome ------------------------
(***************************************************************************)
(* What flowTransaction promises, whatever database is behind it: the      *)
(* writes of the callback take effect together or not at all, only when    *)
(* the transaction control type allows it for the way the callback ended,  *)
(* and never once the promise has settled.                                 *)
(***************************************************************************)
EXTENDS Naturals

CONSTANT MaxWrites       \* bound: how many writes the callback makes

VARIABLES control,       \* the transactionControlType of the call
          wrote,         \* how many writes the callback made
          ended,         \* "no", or how the callback ended
          effect,        \* how many of its writes took effect
          reply          \* how the promise settled, "none" before

avars == <<control, wrote, ended, effect, reply>>

ControlType == {"alwaysCommit", "alwaysRollback", "rollbackOnError"}

\* May the writes of a callback that ended like this take effect?
Allowed(c, e) == \/ c = "alwaysCommit" /\ e # "no"
                 \/ c = "rollbackOnError" /\ e = "returned"

AInit == /\ control \in ControlType
         /\ wrote = 0
         /\ ended = "no"
         /\ effect = 0
         /\ reply = "none"

Write == /\ reply = "none" /\ ended = "no"
         /\ wrote < MaxWrites
         /\ wrote' = wrote + 1
         /\ UNCHANGED <<control, ended, effect, reply>>

End == /\ reply = "none" /\ ended = "no"
       /\ ended' \in {"returned", "threw"}
       /\ UNCHANGED <<control, wrote, effect, reply>>

\* All writes at once, and once.
Effect == /\ reply = "none" /\ effect = 0
          /\ Allowed(control, ended)
          /\ effect' = wrote
          /\ UNCHANGED <<control, wrote, ended, reply>>

\* A promise that resolves with ok has a callback that returned.
Reply == /\ reply = "none"
         /\ reply' \in {"ok", "error", "rejected"}
         /\ reply' = "ok" => ended = "returned"
         /\ UNCHANGED <<control, wrote, ended, effect>>

ANext == Write \/ End \/ Effect \/ Reply

ASpec == AInit /\ [][ANext]_avars
===========================================================================
