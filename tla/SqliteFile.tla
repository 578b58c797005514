----------------------------- MODULE SqliteFile -----------------------------
(***************************************************************************)
(* SQLiteDriver: every driver reads the whole database file into memory    *)
(* when it connects and writes its copy back when it closes; kill() sets a *)
(* flag of the driver that a query looks at when it wakes from the sleep   *)
(* it takes at the first and then at every 2000th row.                     *)
(***************************************************************************)
EXTENDS Naturals, FiniteSets

CONSTANTS Driver, Query,
          On(_),       \* the driver a query is sent to
          ReadOnly(_)  \* conRes.readOnly

VARIABLES file,        \* the writes the database file holds
          memory,      \* the writes the copy of a connected driver holds
          connected,   \* this.db
          interrupted, \* this.interrupted
          asleep,      \* the queries suspended in their sleep
          freed,       \* ... whose statement a close has freed
          killed,      \* history: running queries a kill() came after
          excused,     \* history: ... and has since been spent on another query
          wrong,       \* history: a query was interrupted, or not, against kill()
          version,     \* history: how many copies have been written
          loaded,      \* history: the version a driver has read
          kept,        \* history: the writes of drivers that closed
          lost         \* history: what can lose a write that was kept

vars == <<file, memory, connected, interrupted, asleep, freed, killed, excused,
          wrong, version, loaded, kept, lost>>

MaxVersion == 2        \* bound: copies written

Init ==
  /\ file = {} /\ memory = [d \in Driver |-> {}]
  /\ connected = {} /\ interrupted = {} /\ asleep = {} /\ freed = {}
  /\ killed = {} /\ excused = {} /\ wrong = FALSE
  /\ version = 0 /\ loaded = [d \in Driver |-> 0]
  /\ kept = {} /\ lost = {}

-----------------------------------------------------------------------------
\* createConnection: the pragmas it sends reset the flag once more.
Connect(d) ==
  /\ d \notin connected
  /\ connected' = connected \union {d}
  /\ memory' = [memory EXCEPT ![d] = file]
  /\ loaded' = [loaded EXCEPT ![d] = version]
  /\ interrupted' = interrupted \ {d}
  /\ UNCHANGED <<file, asleep, freed, killed, excused, wrong, version, kept, lost>>

\* The copy written over the file is older than what it holds.
Overwritten(d) == IF loaded[d] = version THEN lost ELSE lost \union {"overwritten"}

\* The copies of these drivers are no more.
Gone(D) == /\ connected' = connected \ D
           /\ memory' = [d \in Driver |-> IF d \in D THEN {} ELSE memory[d]]
           /\ loaded' = [d \in Driver |-> IF d \in D THEN 0 ELSE loaded[d]]

Freed(d) == freed' = freed \union {q \in asleep : On(q) = d}

\* Mutant: a read-only driver writes its copy back as well.
Close_WritesAlways(d) ==
  /\ d \in connected /\ version < MaxVersion
  /\ Gone({d})
  /\ file' = memory[d] /\ version' = version + 1
  /\ kept' = kept \union memory[d]
  /\ lost' = IF ReadOnly(d) THEN lost ELSE Overwritten(d)
  /\ Freed(d)
  /\ interrupted' = interrupted \ {d}
  /\ UNCHANGED <<asleep, killed, excused, wrong>>

\* closeSub: the whole copy replaces the file, whatever the file is by now.
Close(d) ==
  /\ d \in connected /\ version < MaxVersion
  /\ Gone({d})
  /\ interrupted' = interrupted \ {d}
  /\ IF ReadOnly(d)
     THEN UNCHANGED <<file, version, kept, lost>>
     ELSE /\ file' = memory[d] /\ version' = version + 1
          /\ kept' = kept \union memory[d]
          /\ lost' = Overwritten(d)
  /\ Freed(d)
  /\ UNCHANGED <<asleep, killed, excused, wrong>>

\* The process ends: what was not written back is gone.  In the middle of
\* writeFileSync the file is gone as well.
Crash ==
  /\ connected # {}
  /\ Gone(Driver) /\ interrupted' = {}
  /\ asleep' = {} /\ freed' = {} /\ killed' = {} /\ excused' = {}
  /\ \/ UNCHANGED <<file, version, lost>>
     \/ /\ version < MaxVersion /\ \E d \in connected : ~ReadOnly(d)
        /\ file' = {} /\ version' = version + 1 /\ lost' = lost \union {"torn"}
  /\ UNCHANGED <<wrong, kept>>

\* kill() does not ask whether there is a connection.
Kill(d) ==
  /\ interrupted' = interrupted \union {d}
  /\ killed' = killed \union {q \in asleep : On(q) = d}
  /\ excused' = {q \in excused : On(q) # d}
  /\ UNCHANGED <<file, memory, connected, asleep, freed, wrong, version, loaded,
                 kept, lost>>

\* A request resets the flag: a kill() that was meant for others is lost.
Reset(d) == /\ interrupted' = interrupted \ {d}
            /\ excused' = excused \union {q \in asleep : On(q) = d}

\* Mutant: the flag is not reset.
Start_KeepsFlag(q) ==
  /\ q \notin asleep /\ On(q) \in connected
  /\ asleep' = asleep \union {q}
  /\ killed' = killed \ {q}
  /\ excused' = excused \ {q}
  /\ UNCHANGED <<file, memory, connected, interrupted, freed, wrong, version,
                 loaded, kept, lost>>

\* requestSqlSub of a query that returns rows, up to the sleep before the first.
Start(q) ==
  /\ q \notin asleep /\ On(q) \in connected
  /\ asleep' = asleep \union {q}
  /\ killed' = killed \ {q}
  /\ Reset(On(q))
  /\ UNCHANGED <<file, memory, connected, freed, wrong, version, loaded, kept, lost>>

\* Any other statement runs to its end in one step, so that exec() never meets
\* the flag.  A read-only connection has query_only on.
Write(d) ==
  /\ d \in connected
  /\ memory' = IF ReadOnly(d) THEN memory
               ELSE [memory EXCEPT ![d] = @ \union {<<d, loaded[d]>>}]
  /\ Reset(d)
  /\ UNCHANGED <<file, connected, asleep, freed, killed, wrong, version, loaded,
                 kept, lost>>

\* After the sleep: the flag is set, the statement was freed, or up to 2000 rows
\* more are read and the query sleeps again or returns.
Wake(q) ==
  /\ q \in asleep
  /\ \/ /\ On(q) \in interrupted
        /\ asleep' = asleep \ {q}
        /\ Reset(On(q))
        /\ wrong' = (wrong \/ q \notin killed)
     \/ /\ On(q) \notin interrupted /\ q \in freed
        /\ asleep' = asleep \ {q}
        /\ UNCHANGED <<interrupted, excused, wrong>>
     \/ /\ On(q) \notin interrupted /\ q \notin freed
        /\ asleep' \in {asleep, asleep \ {q}}
        /\ wrong' = (wrong \/ (q \in killed /\ q \notin excused))
        /\ UNCHANGED <<interrupted, excused>>
  /\ killed' = killed \intersect asleep' /\ freed' = freed \intersect asleep'
  /\ UNCHANGED <<file, memory, connected, version, loaded, kept, lost>>

Next ==
  \/ \E d \in Driver : Connect(d) \/ Close(d) \/ Kill(d) \/ Write(d)
  \/ \E q \in Query : Start(q) \/ Wake(q)
  \/ Crash

Spec == Init /\ [][Next]_vars

-----------------------------------------------------------------------------
\* A query is interrupted only by a kill() that came while it ran, and one that
\* such a kill() found is interrupted when it wakes, unless the kill() was spent
\* on another query or undone by the start of one.
KillsWhatRuns == ~wrong

\* A write of a driver that has closed is in the file, unless a driver that had
\* read the file before wrote its copy over it, or the process ended in the
\* middle of writing a copy (closeSub).
ClosedIsKept == lost = {} => kept \subseteq file

=============================================================================
