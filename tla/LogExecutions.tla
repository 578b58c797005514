--------------------------- MODULE LogExecutions ---------------------------
(***************************************************************************)
(* What the log parser makes of the classified events of a log: extractors *)
(* that collect fragments thread by thread (runExtractors, with the steps  *)
(* of the Hibernate preset), and the executions that are built from the    *)
(* fragments in the order of their lines (buildSqlExecutions).             *)
(***************************************************************************)
EXTENDS Naturals, FiniteSets, Sequences, SequencesExt

CONSTANTS Thread, MaxLines  \* bound: lines of the log

VARIABLE log  \* the events, in order

Types == {"SQL_START", "SQL_PARAMS", "SQL_ERROR", "SQL_ERROR_DETAIL", "FW_ERROR",
          "NORMAL"}
Starts == {"SQL_START", "SQL_ERROR", "FW_ERROR"}

Init == log = <<>>

LogLine(t, type) ==
  /\ Len(log) < MaxLines
  /\ log' = Append(log, [line |-> Len(log) + 1, thread |-> t, type |-> type])

Next == \E t \in Thread, type \in Types : LogLine(t, type)

-----------------------------------------------------------------------------
(***************************************************************************)
(* runExtractors                                                           *)
(***************************************************************************)
\* The preset's extractors: each starts with its first step; params may come
\* several times; what follows the first step is optional.
Extractors == {<<"SQL_START", "SQL_PARAMS">>, <<"SQL_ERROR", "SQL_ERROR_DETAIL">>,
               <<"FW_ERROR">>}

\* One extractor in one thread: idx counts its steps from 1, 0 is none.
Waiting == [idx |-> 0, buffer |-> {}, results |-> {}]

\* Mutant: a start that comes while collecting drops what was collected.
Restarted_Drops(s) == [idx |-> 1, buffer |-> {}, results |-> s.results]

\* A start that comes while collecting flushes what was collected.
Restarted(s) == [idx |-> 1, buffer |-> {}, results |-> s.results \union s.buffer]

\* The first step at or after idx that takes the event; steps that are passed
\* over are left behind for good.  Params leave the step where it is.
Taken(x, s, e) ==
  LET hits == {i \in s.idx .. Len(x) : x[i] = e.type} IN
  IF s.idx = 0 THEN s
  ELSE IF hits = {}
  THEN [s EXCEPT !.idx = IF s.idx = 1 THEN 1 ELSE Len(x) + 1]
  ELSE LET i == CHOOSE j \in hits : \A k \in hits : j <= k IN
       IF x[i] # "SQL_PARAMS" /\ i = Len(x)
       THEN [idx |-> 0, buffer |-> {}, results |-> s.results \union s.buffer \union {e}]
       ELSE [s EXCEPT !.buffer = @ \union {e},
                      !.idx = IF x[i] = "SQL_PARAMS" THEN i ELSE i + 1]

Extracted(x, events) ==
  LET Step(s, e) == Taken(x, IF e.type = x[1] THEN Restarted(s) ELSE s, e)
      s == FoldLeft(Step, Waiting, events)
  IN  s.results \union s.buffer

Of(t, events) == SelectSeq(events, LAMBDA e : e.thread = t)

\* Fragments, sorted by line; each line is taken by one extractor at most.
Fragments(events) ==
  SetToSortSeq(UNION {Extracted(x, Of(t, events)) : x \in Extractors, t \in Thread},
               LAMBDA a, b : a.line < b.line)

-----------------------------------------------------------------------------
(***************************************************************************)
(* buildSqlExecutions                                                      *)
(***************************************************************************)
None == [thread |-> "none", start |-> 0, end |-> 0, params |-> {}, detail |-> 0,
         failed |-> FALSE]
Begun(f) == [thread |-> f.thread, start |-> f.line, end |-> f.line, params |-> {},
             detail |-> 0, failed |-> f.type # "SQL_START"]

NoBuilders == [current |-> [t \in Thread |-> None], done |-> {}]

\* Mutant: one builder for all threads.
BuilderOf_Default(f) == CHOOSE t \in Thread : TRUE

\* getBuilder
BuilderOf(f) == f.thread

\* finalizeExecution
Finalized(done, x) == IF x = None THEN done ELSE done \union {x}

\* A fragment of a builder; an SQL_ERROR first moves the end of the execution
\* it ends.
Built(b, f) ==
  LET k == BuilderOf(f)
      c == b.current[k]
      moved == IF c = None THEN c ELSE [c EXCEPT !.end = f.line]
  IN  CASE f.type \in {"SQL_START", "FW_ERROR"} ->
             [current |-> [b.current EXCEPT ![k] = Begun(f)], done |-> Finalized(b.done, c)]
        [] f.type = "SQL_ERROR" ->
             [current |-> [b.current EXCEPT ![k] = Begun(f)], done |-> Finalized(b.done, moved)]
        [] f.type = "SQL_PARAMS" /\ c # None ->
             [b EXCEPT !.current[k] = [moved EXCEPT !.params = @ \union {f.line}]]
        [] f.type = "SQL_ERROR_DETAIL" /\ c # None ->
             [current |-> [b.current EXCEPT ![k] = None],
              done |-> Finalized(b.done, [moved EXCEPT !.detail = f.line, !.failed = TRUE])]
        [] OTHER -> b

Executions(events) ==
  LET b == FoldLeft(Built, NoBuilders, Fragments(events))
  IN  b.done \union {b.current[t] : t \in {u \in Thread : b.current[u] # None}}

-----------------------------------------------------------------------------
Line(S) == {e.line : e \in S}
Events  == ToSet(log)

\* Every statement and every error of the log begins exactly one execution, in
\* whatever order its threads write.
EachBeginsOne ==
  LET X == Executions(log) IN
  /\ {x.start : x \in X} = Line({e \in Events : e.type \in Starts})
  /\ Cardinality({x.start : x \in X}) = Cardinality(X)

\* The lines of other threads change nothing: a thread's executions are those of
\* its own lines ("interleaved logs from concurrent threads don't flush/overwrite
\* each other's in-progress SQL capture").
ThreadsApart ==
  \A t \in Thread :
    {x \in Executions(log) : x.thread = t} = Executions(Of(t, log))

\* An execution has the params that follow its statement at once, and no others'.
ParamsStay ==
  \A x \in Executions(log) :
    LET own   == {e \in Events : e.thread = x.thread /\ e.line > x.start}
        until == {e \in own : e.type # "SQL_PARAMS"}
    IN  /\ log[x.start].type = "SQL_START" =>
             x.params = {e.line : e \in {d \in own \ until :
                                           \A u \in until : d.line < u.line}}
        /\ x.end < MaxLines + 1
        /\ \A e \in own : e.type \in Starts => x.end <= e.line
=============================================================================
