--------------------------- MODULE DynamoContext ---------------------------
(***************************************************************************)
(* DynamoDbPerformanceTuningProvider.collect: one context, collected stage *)
(* by stage.  What is required and fails ends the call; what is optional   *)
(* and fails makes the context partial; a measured read is made only when  *)
(* the host has allowed it; at the end the indexes and the payload are cut *)
(* to their limits.                                                        *)
(***************************************************************************)
EXTENDS Naturals, FiniteSets, FiniteSetsExt

CONSTANTS Gsi, Lsi,    \* the indexes of the table
          NoIndex,     \* the target is the table itself
          Series,      \* the series of CloudWatch metrics
          Priority(_), \* 0 of an operation, 1 of the table, 2 of an index
          IndexLimits, \* bound: the values of limits.maxIndexes
          Payloads     \* bound: the values of limits.maxPayloadBytes

Index == Gsi \union Lsi
Modes == {"static", "executeOnce", "executeComplete"}

\* Payload sizes, in units: what is always there, an index, its approximate
\* sizes, a series, its datapoints before the last 60, a diagnostic.
BaseSize == 2
IndexSize == 1
ApproxSize == 1
SeriesSize == 1
OldSize == 1
NoteSize == 1

VARIABLES at,          \* the stage that comes next
          call,        \* the arguments, as far as they matter
          gaps,        \* unavailableSections
          notes,       \* the diagnostics that affect completeness
          series,      \* the series of the context, {} without monitoring
          read,        \* the measured read: "none", "made" or "failed"
          shown,       \* the indexes the context shows
          answer       \* the result of the call

cvars == <<at, call, gaps, notes, series, read, shown, answer>>

Refused == [ok |-> FALSE, status |-> "none", size |-> 0, old |-> FALSE,
            approx |-> FALSE, series |-> {}]
NoCall  == [target |-> NoIndex, mode |-> "static", allowed |-> FALSE,
            execution |-> FALSE, marker |-> FALSE, monitoring |-> FALSE,
            indexes |-> 0, max |-> 0]

Init ==
  /\ at = "start" /\ call = NoCall
  /\ gaps = {} /\ notes = {} /\ series = {} /\ read = "none" /\ shown = {}
  /\ answer = Refused

-----------------------------------------------------------------------------
Refuse == /\ at' = "end"
          /\ UNCHANGED <<call, gaps, notes, series, read, shown, answer>>

\* The statement is parsed and compared with the explicit target; then the
\* table is described.  Each of them can refuse the call.
Start ==
  /\ at = "start"
  /\ \/ Refuse
     \/ /\ at' = "metadata"
        /\ call' \in [target : Index \union {NoIndex}, mode : Modes,
                      allowed : BOOLEAN, execution : BOOLEAN, marker : BOOLEAN,
                      monitoring : BOOLEAN, indexes : IndexLimits, max : Payloads]
        /\ UNCHANGED <<gaps, notes, series, read, shown, answer>>

Gap(g) == gaps' = gaps \union {g} /\ notes' = notes \union {g}

\* The time to live, and with monitoring the Contributor Insights of the table
\* and of every global index, all of them at once: what fails is a gap.
Metadata ==
  /\ at = "metadata"
  /\ \E failed \in SUBSET ({"ttl", NoIndex} \union Gsi) :
       /\ ~call.monitoring => failed \subseteq {"ttl"}
       /\ gaps' = failed /\ notes' = failed
  /\ at' = "pattern"
  /\ UNCHANGED <<call, series, read, shown, answer>>

\* A target the table does not have refuses the call; an access pattern that
\* cannot be told is a gap.
Pattern ==
  /\ at = "pattern"
  /\ \/ Refuse
     \/ /\ at' = "metrics"
        /\ Gap("accessPattern") \/ UNCHANGED <<gaps, notes>>
        /\ UNCHANGED <<call, series, read, shown, answer>>

Metrics ==
  /\ at = "metrics"
  /\ \/ ~call.monitoring /\ UNCHANGED <<gaps, notes, series>>
     \/ call.monitoring /\ series' = Series /\ UNCHANGED <<gaps, notes>>
     \/ call.monitoring /\ Gap("cloudWatch") /\ UNCHANGED series
  /\ at' = "observe"
  /\ UNCHANGED <<call, read, shown, answer>>

\* Mutant: a parameterised statement is executed with what parameters there are.
Eligible_Always == TRUE

\* A PartiQL statement with a bind marker is not executed.
Eligible == ~call.marker

\* executeOnce and executeComplete need the host's permission and its execution
\* options; a read that fails fails the call.
Observe ==
  /\ at = "observe"
  /\ IF call.mode = "static" THEN at' = "limit" /\ UNCHANGED read
     ELSE IF ~call.allowed \/ ~call.execution \/ ~Eligible
     THEN at' = "end" /\ UNCHANGED read
     ELSE \/ read' = "made" /\ at' = "limit"
          \/ read' = "failed" /\ at' = "end"
  /\ UNCHANGED <<call, gaps, notes, series, shown, answer>>

\* limitIndexes: the target comes first, then the global indexes.
Order(i) == IF i = call.target THEN 0 ELSE IF i \in Gsi THEN 1 ELSE 2

LimitIndexes ==
  /\ at = "limit"
  /\ IF Cardinality(Index) <= call.indexes
     THEN shown' = Index /\ UNCHANGED notes
     ELSE /\ \E S \in kSubset(call.indexes, Index) :
               /\ \A i \in S, j \in Index \ S : Order(i) <= Order(j)
               /\ shown' = S
          /\ notes' = notes \union {"indexes"}
  /\ at' = "payload"
  /\ UNCHANGED <<call, gaps, series, read, answer>>

-----------------------------------------------------------------------------
(***************************************************************************)
(* applyPayloadLimit                                                       *)
(***************************************************************************)
SizeOf(S, old, approx) ==
  BaseSize + NoteSize * (Cardinality(gaps) + Cardinality(notes))
  + IndexSize * Cardinality(shown)
  + ApproxSize * Cardinality({i \in shown : approx \/ i = call.target})
  + SeriesSize * Cardinality(S)
  + (IF old THEN OldSize * Cardinality(S) ELSE 0)

Fits(S, old, approx) == SizeOf(S, old, approx) <= call.max

\* Mutant: the series are dropped in the order they came in.
Cuts_AnyOrder == SUBSET series

\* What is left of the series after some are dropped, those of indexes first.
Cuts == {S \in SUBSET series :
           \A s \in S, t \in series \ S : Priority(s) <= Priority(t)}

Status(cut) == IF gaps # {} \/ notes # {} \/ cut THEN "partial" ELSE "complete"

\* A cut adds its diagnostic after the size was looked at.
Cut(S, approx) ==
  answer' = [ok |-> TRUE, status |-> Status(TRUE), old |-> FALSE, approx |-> approx,
             series |-> S, size |-> SizeOf(S, FALSE, approx) + NoteSize]

\* Mutant: datapoints are cut without a diagnostic.
Payload_Silent ==
  /\ at = "payload"
  /\ IF Fits(series, TRUE, TRUE)
     THEN answer' = [ok |-> TRUE, status |-> Status(FALSE), old |-> TRUE,
                     approx |-> TRUE, series |-> series,
                     size |-> SizeOf(series, TRUE, TRUE)]
     ELSE answer' = [ok |-> TRUE, status |-> Status(FALSE), old |-> FALSE,
                     approx |-> TRUE, series |-> series,
                     size |-> SizeOf(series, FALSE, TRUE)]
  /\ at' = "end"
  /\ UNCHANGED <<call, gaps, notes, series, read, shown>>

\* Old datapoints go first, then the approximate sizes of the other indexes,
\* then series, no more than needed.
Payload ==
  /\ at = "payload"
  /\ IF Fits(series, TRUE, TRUE)
     THEN answer' = [ok |-> TRUE, status |-> Status(FALSE), old |-> TRUE,
                     approx |-> TRUE, series |-> series,
                     size |-> SizeOf(series, TRUE, TRUE)]
     ELSE IF Fits(series, FALSE, TRUE)  THEN Cut(series, TRUE)
     ELSE IF Fits(series, FALSE, FALSE) THEN Cut(series, FALSE)
     ELSE LET enough == {S \in Cuts : Fits(S, FALSE, FALSE)} IN
          IF enough = {} THEN answer' = Refused
          ELSE \E S \in enough :
                 /\ \A T \in enough : Cardinality(T) <= Cardinality(S)
                 /\ Cut(S, FALSE)
  /\ at' = "end"
  /\ UNCHANGED <<call, gaps, notes, series, read, shown>>

Next == Start \/ Metadata \/ Pattern \/ Metrics \/ Observe \/ LimitIndexes \/ Payload

-----------------------------------------------------------------------------
\* A context that calls itself complete misses nothing of what the call asked
\* for: no description failed, no index, series or datapoint was left out.
CompleteMissesNothing ==
  answer.ok /\ answer.status = "complete" =>
    /\ gaps = {} /\ shown = Index
    /\ answer.old /\ answer.approx
    /\ call.monitoring => answer.series = Series

\* A read that costs capacity is made only for a call that asked for it, was
\* allowed to, and whose statement has no open parameter; a call that made one
\* and returns a context was not refused by anything before.
ReadsOnlyWhenAllowed ==
  read # "none" => /\ call.mode # "static" /\ call.allowed /\ call.execution
                   /\ ~call.marker

\* What a limit cuts is what matters least: the index that is analysed is shown
\* if any is, and no series is dropped while one of lower priority is kept.
LeastFirst ==
  answer.ok =>
    /\ call.target # NoIndex => call.target \in shown
    /\ \A s \in answer.series, t \in series \ answer.series :
         Priority(s) <= Priority(t)

\* "Reduce oversized contexts in evidence-priority order without exceeding the
\* payload limit" (the comment on applyPayloadLimit).
WithinPayloadLimit == answer.ok => answer.size <= call.max
=============================================================================
