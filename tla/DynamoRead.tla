----------------------------- MODULE DynamoRead -----------------------------
(***************************************************************************)
(* AwsDynamoServiceClient: the reads that follow a table page by page, and *)
(* the flag that kill() sets and the PartiQL reads look at before a page.  *)
(*                                                                         *)
(*   items      scanItems, queryItems                                      *)
(*   table      scanItemsAtClient, queryItemsAtClient                      *)
(*   statement  executeStatementAtClient and -AtDocClient, requestPartiql  *)
(*   once       observeNativeQueryRead, observePartiqlRead                 *)
(*   complete   observeNativeQueryReadComplete                             *)
(*   pages      observePartiqlReadComplete                                 *)
(*                                                                         *)
(* The service evaluates at most the limit of a request, and stops earlier *)
(* at the size of a page; what it returns is what passes the filter.       *)
(***************************************************************************)
EXTENDS Naturals, FiniteSets

CONSTANTS Reader, Kinds(_),
          Size,        \* the items of the table are 1 .. Size
          Matching,    \* the items that pass the filter of the reads
          Limits,      \* bound: the limits asked for; 0 is no limit
          PageLimit,   \* DYNAMODB_OBSERVED_READ_MAX_ITEMS
          MaxPages,    \* DYNAMODB_COMPLETE_READ_MAX_PAGES
          MaxEvaluated \* DYNAMODB_COMPLETE_READ_MAX_EVALUATED_ITEMS

VARIABLES reading,     \* "idle", "page", "done" or "failed"
          kind, limit, start,
          last,        \* the last item evaluated: LastEvaluatedKey
          hasMore,     \* hasMorePages
          items,       \* the items returned
          evaluated,   \* how many the service has evaluated
          pages,       \* how many pages it has sent
          flag,        \* this.interrupted
          struck,      \* history: reads a kill() came after
          spared,      \* history: ... and was undone by another read
          misfired     \* history: a read was interrupted, or not, against kill()

dvars == <<reading, kind, limit, start, last, hasMore, items, evaluated, pages, flag,
           struck, spared, misfired>>

Init ==
  /\ reading = [r \in Reader |-> "idle"]
  /\ kind = [r \in Reader |-> "items"]
  /\ limit = [r \in Reader |-> 0] /\ start = [r \in Reader |-> 0]
  /\ last = [r \in Reader |-> 0] /\ hasMore = [r \in Reader |-> FALSE]
  /\ items = [r \in Reader |-> {}]
  /\ evaluated = [r \in Reader |-> 0] /\ pages = [r \in Reader |-> 0]
  /\ flag = FALSE /\ struck = {} /\ spared = {} /\ misfired = FALSE

-----------------------------------------------------------------------------
Smaller(a, b) == IF a < b THEN a ELSE b
Statements    == {r \in Reader : reading[r] = "page" /\ kind[r] = "statement"}

\* A PartiQL read resets the flag: an earlier kill() is undone.
Resets == /\ flag' = FALSE
          /\ spared' = spared \union Statements

\* Mutant: the flag of an earlier kill() is left set.
Begin_KeepsFlag(r, k, n, s) ==
  /\ reading[r] # "page" /\ k \in Kinds(r)
  /\ reading' = [reading EXCEPT ![r] = "page"]
  /\ kind' = [kind EXCEPT ![r] = k]
  /\ limit' = [limit EXCEPT ![r] = n]
  /\ start' = [start EXCEPT ![r] = s] /\ last' = [last EXCEPT ![r] = s]
  /\ hasMore' = [hasMore EXCEPT ![r] = FALSE]
  /\ items' = [items EXCEPT ![r] = {}]
  /\ evaluated' = [evaluated EXCEPT ![r] = 0] /\ pages' = [pages EXCEPT ![r] = 0]
  /\ struck' = struck \ {r}
  /\ UNCHANGED <<flag, spared, misfired>>

\* A read of kind k begins after item s with limit n.
Begin(r, k, n, s) ==
  /\ reading[r] # "page" /\ k \in Kinds(r)
  /\ reading' = [reading EXCEPT ![r] = "page"]
  /\ kind' = [kind EXCEPT ![r] = k]
  /\ limit' = [limit EXCEPT ![r] = n]
  /\ start' = [start EXCEPT ![r] = s] /\ last' = [last EXCEPT ![r] = s]
  /\ hasMore' = [hasMore EXCEPT ![r] = FALSE]
  /\ items' = [items EXCEPT ![r] = {}]
  /\ evaluated' = [evaluated EXCEPT ![r] = 0] /\ pages' = [pages EXCEPT ![r] = 0]
  /\ struck' = struck \ {r}
  /\ IF k = "statement" THEN Resets ELSE UNCHANGED <<flag, spared>>
  /\ UNCHANGED misfired

Key == 0 .. Size - 1

ScanItems(r)         == \E n \in Limits, s \in Key : Begin(r, "items", n, s)
QueryItems(r)        == \E n \in Limits, s \in Key : Begin(r, "items", n, s)
ScanItemsAtClient(r) == \E n \in Limits, s \in Key : Begin(r, "table", n, s)

\* The start key of its caller is overwritten with its own, undefined at first.
QueryItemsAtClient(r) == \E n \in Limits : Begin(r, "table", n, 0)

\* The token of the caller is where a statement goes on ...
ExecuteStatementAtDocClient(r) == \E n \in Limits, s \in Key : Begin(r, "statement", n, s)
ExecuteStatementAtClient(r)    == \E n \in Limits, s \in Key : Begin(r, "statement", n, s)

\* ... and requestPartiql has none; LIMIT is cut out of its text.
RequestPartiql(r) == \E n \in Limits : Begin(r, "statement", n, 0)

\* Observed reads take no key, and those of a whole result no limit.
ObserveNativeQueryRead(r)         == \E n \in Limits : Begin(r, "once", n, 0)
ObservePartiqlRead(r)             == \E n \in Limits : Begin(r, "once", n, 0)
ObserveNativeQueryReadComplete(r) == Begin(r, "complete", 0, 0)
ObservePartiqlReadComplete(r)     == Begin(r, "pages", 0, 0)

\* Mutant: every page is asked for with the limit of the whole read.
Remaining_Whole(r) == limit[r]

\* The limit of the next request; 0 is none.
Remaining(r) ==
  CASE kind[r] = "complete" -> Smaller(PageLimit, MaxEvaluated - evaluated[r])
    [] kind[r] = "pages"    -> PageLimit
    [] kind[r] = "once"     -> IF limit[r] = 0 THEN PageLimit
                               ELSE Smaller(limit[r], PageLimit)
    [] OTHER -> IF limit[r] = 0 THEN 0 ELSE limit[r] - Cardinality(items[r])

Enough(r, I) == limit[r] > 0 /\ Cardinality(I) >= limit[r]

\* Mutant: the read is taken for complete when its bound is reached.
Stops_Off(r, I, e, p) ==
  \/ kind[r] = "complete" /\ e > MaxEvaluated
  \/ kind[r] \in {"complete", "pages"} /\ p >= MaxPages
  \/ kind[r] = "once"
  \/ kind[r] \in {"items", "table", "statement"} /\ Enough(r, I)

\* What ends a read although there is more.
Stops(r, I, e, p) ==
  \/ kind[r] = "complete" /\ e >= MaxEvaluated
  \/ kind[r] \in {"complete", "pages"} /\ p >= MaxPages
  \/ kind[r] = "once"
  \/ kind[r] \in {"items", "table", "statement"} /\ Enough(r, I)

\* The read that meets the flag takes it.
Interrupts(r) ==
  /\ misfired' = (misfired \/ r \notin struck)
  /\ flag' = FALSE
  /\ spared' = spared \union Statements

\* The answer to a request: n evaluated items, and a key unless they are the
\* last ones; a key may come with these, too, when the limit was reached there.
\* A PartiQL read looks at the flag before it asks for the next page.
Answered(r, n, key) ==
  LET m == last[r] + n
      I == items[r] \union (((last[r] + 1) .. m) \intersect Matching)
      e == evaluated[r] + n
      p == pages[r] + 1
      goesOn == key /\ ~Stops(r, I, e, p)
      cut    == goesOn /\ kind[r] = "statement" /\ flag
  IN  /\ last' = [last EXCEPT ![r] = m]
      /\ items' = [items EXCEPT ![r] = I]
      /\ evaluated' = [evaluated EXCEPT ![r] = e]
      /\ pages' = [pages EXCEPT ![r] = p]
      /\ hasMore' = [hasMore EXCEPT ![r] = key]
      /\ reading' = [reading EXCEPT ![r] = IF cut THEN "failed" ELSE
                                           IF goesOn THEN "page" ELSE "done"]
      /\ IF cut
         THEN Interrupts(r)
         ELSE /\ misfired' = (misfired \/ (goesOn /\ r \in struck \ spared))
              /\ UNCHANGED <<flag, spared>>

Page(r) ==
  /\ reading[r] = "page"
  /\ LET left == Size - last[r]
         cap  == IF Remaining(r) = 0 THEN left ELSE Smaller(Remaining(r), left)
     IN  \E n \in (IF left = 0 THEN {0} ELSE 1 .. cap) :
           \/ n < left /\ Answered(r, n, TRUE)
           \/ n = left /\ n = Remaining(r) /\ n > 0 /\ Answered(r, n, TRUE)
           \/ n = left /\ Answered(r, n, FALSE)
  /\ struck' = {q \in struck : reading'[q] = "page"}
  /\ UNCHANGED <<kind, limit, start>>

\* A request fails or the timer of an observed read rejects it; where the table
\* is gone, queryItemsAtClient and scanItemsAtClient keep what they have.
Fails(r) ==
  /\ reading[r] = "page"
  /\ reading' \in {[reading EXCEPT ![r] = "failed"]} \union
                  (IF kind[r] = "table"
                   THEN {[reading EXCEPT ![r] = "done"]} ELSE {})
  /\ struck' = struck \ {r}
  /\ UNCHANGED <<kind, limit, start, last, hasMore, items, evaluated, pages, flag,
                 spared, misfired>>

\* A kill() while the last page is under way has no effect.
KillReads ==
  /\ flag' = TRUE
  /\ struck' = struck \union Statements
  /\ spared' = {}
  /\ UNCHANGED <<reading, kind, limit, start, last, hasMore, items, evaluated, pages,
                 misfired>>

Next ==
  \/ \E r \in Reader :
       \/ ScanItems(r) \/ QueryItems(r) \/ ScanItemsAtClient(r) \/ QueryItemsAtClient(r)
       \/ ExecuteStatementAtDocClient(r) \/ ExecuteStatementAtClient(r)
       \/ RequestPartiql(r)
       \/ ObserveNativeQueryRead(r) \/ ObservePartiqlRead(r)
       \/ ObserveNativeQueryReadComplete(r) \/ ObservePartiqlReadComplete(r)
       \/ Page(r) \/ Fails(r)
  \/ KillReads

-----------------------------------------------------------------------------
\* A read that was not cut by an error returns each matching item between where
\* it began and the key it hands back, no more of them than were asked for, and
\* when it hands back no key there are no others.
NoGapNoRepeat ==
  \A r \in Reader : reading[r] = "done" =>
    /\ items[r] = ((start[r] + 1) .. last[r]) \intersect Matching
    /\ limit[r] > 0 /\ kind[r] \in {"items", "table", "statement"} =>
         Cardinality(items[r]) <= limit[r]

\* An observed read evaluates no more than its bounds allow; it says that
\* nothing remains only if it has evaluated the whole table.
ObservedWithinBounds ==
  \A r \in Reader : kind[r] \in {"once", "complete", "pages"} /\ reading[r] = "done" =>
    /\ kind[r] = "once"     => evaluated[r] <= PageLimit
    /\ kind[r] = "complete" => evaluated[r] <= MaxEvaluated /\ pages[r] <= MaxPages
    /\ kind[r] = "pages"    => pages[r] <= MaxPages
    /\ ~hasMore[r] => last[r] = Size

\* Only a read that kill() found under way is interrupted, and it is, before its
\* next page, unless another PartiQL read began or took the interrupt.
KillsReadsUnderWay == ~misfired
=============================================================================
