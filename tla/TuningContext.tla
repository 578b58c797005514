--------------------------- MODULE TuningContext ---------------------------
(***************************************************************************)
(* RDSBaseDriver.getPerformanceTuningContext: what becomes of the answers  *)
(* of a provider's stages.  The plan comes first and names the tables; four*)
(* sections are collected of each at the same time; then the version, the  *)
(* status and the payload budget.  Every stage has a deadline and listens  *)
(* to the signal of the call.                                              *)
(***************************************************************************)
EXTENDS Naturals, FiniteSets, FiniteSetsExt

CONSTANTS MaxResolved, \* bound: tables that plan and targets name
          MaxTables,   \* limits.maxTables
          Payload      \* bound: the values of limits.maxPayloadBytes

Sections == {"tableDefinition", "tableStatistics", "columnStatistics", "physicalHealth"}

\* Payload sizes, in units: what is always there, the plan, a section of a
\* table, an entry of unavailableSections, a diagnostic.
BaseSize == 1
PlanSize == 3
PartSize == 2
NoteSize == 1

VARIABLES stage,       \* where the call is
          resolved,    \* how many tables plan and targets name
          maxPayload,  \* limits.maxPayloadBytes of the call
          pending,     \* the sections that have not settled
          full,        \* sections collected as a whole
          partial,     \* ... with a message or cut to a limit
          missing,     \* unavailableSections: sections of tables, and the plan
          notes,       \* how many diagnostics affect completeness
          version,     \* is the version of the database known?
          context      \* the result of the call

tvars == <<stage, resolved, maxPayload, pending, full, partial, missing, notes,
           version, context>>

Least(a, b) == IF a < b THEN a ELSE b
Tables      == 1 .. Least(resolved, MaxTables)
PlanPart    == <<0, "executionPlan">>
NoContext   == [ok |-> FALSE, status |-> "none", tables |-> 0, plan |-> FALSE,
                missing |-> {}, size |-> 0]

Init ==
  /\ stage = "idle" /\ resolved = 0 /\ maxPayload = 0
  /\ pending = {} /\ full = {} /\ partial = {} /\ missing = {}
  /\ notes = 0 /\ version = TRUE /\ context = NoContext

-----------------------------------------------------------------------------
Call ==
  /\ stage = "idle"
  /\ maxPayload' \in Payload
  /\ stage' = "plan"
  /\ UNCHANGED <<resolved, pending, full, partial, missing, notes, version, context>>

End == stage' = "done" /\ context' = NoContext

\* Without a plan there is no context: the provider refused, threw, missed the
\* deadline, or the call was aborted.
PlanFails ==
  /\ stage = "plan"
  /\ End
  /\ UNCHANGED <<resolved, maxPayload, pending, full, partial, missing, notes, version>>

\* The plan may come with diagnostics.  More tables than maxTables are left out.
Planned ==
  /\ stage = "plan"
  /\ resolved' \in 0 .. MaxResolved
  /\ \E d \in 0 .. 1 :
       notes' = IF resolved' > MaxTables THEN d + 1 ELSE d
  /\ pending' = (1 .. Least(resolved', MaxTables)) \X Sections
  /\ stage' = "sections"
  /\ UNCHANGED <<maxPayload, full, partial, missing, version, context>>

\* Mutant: a message that comes with a result is not reported.
Collected_Silent(x) ==
  \/ full' = full \union {x} /\ UNCHANGED <<partial, notes, missing>>
  \/ partial' = partial \union {x} /\ UNCHANGED <<full, notes, missing>>
  \/ missing' = missing \union {x} /\ UNCHANGED <<full, partial, notes>>

\* A section is taken as a whole, or with a message or cut to a limit, which is
\* a diagnostic, or it is unavailable.
Collected(x) ==
  \/ full' = full \union {x} /\ UNCHANGED <<partial, notes, missing>>
  \/ partial' = partial \union {x} /\ notes' = notes + 1 /\ UNCHANGED <<full, missing>>
  \/ missing' = missing \union {x} /\ UNCHANGED <<full, partial, notes>>

\* The stages of all sections run at the same time and do not depend on each
\* other: their answers are taken in one order.
Collect ==
  /\ stage = "sections" /\ pending # {}
  /\ LET x == CHOOSE y \in pending : \A z \in pending : y[1] <= z[1] IN
       /\ Collected(x)
       /\ pending' = pending \ {x}
  /\ UNCHANGED <<stage, resolved, maxPayload, version, context>>

\* The timers of the sections were started together; a signal reaches them all.
Deadline ==
  /\ stage = "sections" /\ pending # {}
  /\ missing' = missing \union pending
  /\ pending' = {}
  /\ UNCHANGED <<stage, resolved, maxPayload, full, partial, notes, version, context>>

\* getVersion is best effort.
Version ==
  /\ stage = "sections" /\ pending = {}
  /\ \/ UNCHANGED <<version, notes>>
     \/ version' = FALSE /\ notes' = notes + 1
  /\ stage' = "budget"
  /\ UNCHANGED <<resolved, maxPayload, pending, full, partial, missing, context>>

-----------------------------------------------------------------------------
(***************************************************************************)
(* enforcePayloadBudget                                                    *)
(***************************************************************************)
\* The sections listed as unavailable once only the first n tables are kept: a
\* section that was unavailable is listed again when its table is dropped.
Dropped(n) == {t \in Tables : t > n} \X Sections

\* The size of a context with the first n tables, k more notes and maybe a plan.
SizeOf(n, plan, k) ==
  BaseSize + (IF plan THEN PlanSize ELSE 0)
  + PartSize * Cardinality({x \in full \union partial : x[1] <= n})
  + NoteSize * (Cardinality(missing) + Cardinality(Dropped(n))
                + (IF plan THEN 0 ELSE 1) + notes + k)

Fits(n, plan) == SizeOf(n, plan, 0) <= maxPayload

\* Tables are dropped from the end, one by one, until the rest fits.
Kept == LET N == Cardinality(Tables)
            M == {n \in 0 .. N : Fits(n, TRUE)}
        IN  IF M = {} THEN 0 ELSE Max(M)

\* Mutant: a result that had to be cut is not marked.
Status_Uncut(cut) == IF missing # {} \/ notes > 0 THEN "partial" ELSE "complete"

Status(cut) == IF missing # {} \/ notes > 0 \/ cut THEN "partial" ELSE "complete"

\* Mutant: the size is not looked at again after the diagnostic was added.
TooLarge_Before(n, plan, k) == SizeOf(n, plan, 0) > maxPayload

TooLarge(n, plan, k) == SizeOf(n, plan, k) > maxPayload

\* The plan goes after the last table.  A cut, or a result that is still too
\* large, adds a diagnostic; what is larger than the limit then is not returned.
Finish ==
  /\ stage = "budget"
  /\ LET n    == Kept
         plan == Fits(n, TRUE)
         k    == IF n = Cardinality(Tables) /\ plan THEN 0 ELSE 1
     IN  context' =
           IF TooLarge(n, plan, k) THEN NoContext
           ELSE [ok |-> TRUE, status |-> Status(k = 1), tables |-> n, plan |-> plan,
                 missing |-> missing \union Dropped(n)
                             \union (IF plan THEN {} ELSE {PlanPart}),
                 size |-> SizeOf(n, plan, k)]
  /\ stage' = "done"
  /\ UNCHANGED <<resolved, maxPayload, pending, full, partial, missing, notes, version>>

Next == \/ Call \/ PlanFails \/ Planned \/ Collect \/ Deadline \/ Version \/ Finish

-----------------------------------------------------------------------------
\* A context that calls itself complete lacks nothing: all tables the plan and
\* the targets name, every section as a whole, the plan and the version.
CompleteIsComplete ==
  context.ok /\ context.status = "complete" =>
    /\ context.plan /\ version
    /\ context.tables = resolved
    /\ full = (1 .. resolved) \X Sections

\* Every section of a table that was to be collected, and the plan, is either in
\* the context or listed as unavailable, and a table is given up before the plan.
NothingUnaccounted ==
  context.ok =>
    /\ \A x \in Tables \X Sections :
         (x[1] <= context.tables /\ x \in full \union partial) # (x \in context.missing)
    /\ context.plan # (PlanPart \in context.missing)
    /\ ~context.plan => context.tables = 0

\* A context that is returned is not larger than the call allowed, the
\* diagnostic about its being cut included.
WithinPayload == context.ok => context.size <= maxPayload
=============================================================================
