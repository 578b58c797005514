----------------------------- MODULE RedisScan -----------------------------
(***************************************************************************)
(* RedisDriver.scanStream: calls that select a database, scan it and read  *)
(* what they found, each command on the one client they share with every   *)
(* other caller.  The client answers commands in the order they were sent, *)
(* so that a command takes effect, in the database selected by then, when  *)
(* it is sent.                                                             *)
(***************************************************************************)
EXTENDS Naturals, FiniteSets, FiniteSetsExt

CONSTANTS Scanner, Db, Limit,
          Stored(_)    \* the keys a database has at first

VARIABLES selected,    \* the database the client has selected
          content,     \* the keys of each database
          scan,        \* where a scan is
          dbIndex,     \* the database it was asked for
          found,       \* the keys its stream has delivered, with their database
          typed,       \* the database it read the types from
          reply,       \* what it returned: keys with the database of their value
          moved,       \* history: somebody selected another database since
          changed      \* history: somebody deleted a key since

vars == <<selected, content, scan, dbIndex, found, typed, reply, moved, changed>>

Init ==
  /\ selected = CHOOSE d \in Db : TRUE
  /\ content = [d \in Db |-> Stored(d)]
  /\ scan = [s \in Scanner |-> "idle"]
  /\ dbIndex = [s \in Scanner |-> selected]
  /\ found = [s \in Scanner |-> {}]
  /\ typed = [s \in Scanner |-> selected]
  /\ reply = [s \in Scanner |-> {}]
  /\ moved = {} /\ changed = {}

-----------------------------------------------------------------------------
At(s, l) == scan[s] = l
Goto(s, l) == scan' = [scan EXCEPT ![s] = l]

Begun == {s \in Scanner : scan[s] # "idle"}

\* SELECT moves every scan that is meant for another database.
Moved(d) == moved \union {s \in Begun : dbIndex[s] # d}

\* Mutant: the database is taken for the one that was selected at connect.
Select_Skipped(s, d) ==
  /\ scan[s] \in {"idle", "done"}
  /\ dbIndex' = [dbIndex EXCEPT ![s] = d]
  /\ reply' = [reply EXCEPT ![s] = {}]
  /\ moved' = moved \ {s} /\ changed' = changed \ {s}
  /\ Goto(s, "scanning")
  /\ UNCHANGED <<selected, content, typed, found>>

Select(s, d) ==
  /\ scan[s] \in {"idle", "done"}
  /\ dbIndex' = [dbIndex EXCEPT ![s] = d]
  /\ reply' = [reply EXCEPT ![s] = {}]
  /\ selected' = d
  /\ moved' = Moved(d) \ {s}
  /\ changed' = changed \ {s}
  /\ Goto(s, "scanning")
  /\ UNCHANGED <<content, typed, found>>

\* One SCAN of the stream: some keys of the selected database.  The stream is
\* closed once there are more than limit keys; the end comes when there are no
\* keys left, or with the closed stream.
Batch(s) ==
  /\ At(s, "scanning")
  /\ \E B \in SUBSET content[selected] :
       LET all == found[s] \union (B \X {selected}) IN
       /\ found' = [found EXCEPT ![s] = all]
       /\ \/ /\ Cardinality(all) <= Limit
             /\ content[selected] \X {selected} \subseteq all
             /\ Goto(s, "ended")
          \/ Cardinality(all) > Limit /\ Goto(s, "ended")
          \/ /\ Cardinality(all) <= Limit /\ all # found[s]
             /\ ~(content[selected] \X {selected} \subseteq all)
             /\ UNCHANGED scan
  /\ UNCHANGED <<selected, content, dbIndex, typed, reply, moved, changed>>

\* Mutant: the splice that leaves limit keys is off by one.
Trimmed_OneMore(F) ==
  IF Cardinality(F) > Limit THEN kSubset(Limit + 1, F) ELSE {F}

\* The splice leaves limit keys: all but the last come from the front.
Trimmed(F) == IF Cardinality(F) > Limit THEN kSubset(Limit, F) ELSE {F}

\* TYPE and TTL of every key are sent in one step ...
Type(s) ==
  /\ At(s, "ended")
  /\ found' \in {[found EXCEPT ![s] = F] : F \in Trimmed(found[s])}
  /\ typed' = [typed EXCEPT ![s] = selected]
  /\ Goto(s, "typed")
  /\ UNCHANGED <<selected, content, dbIndex, reply, moved, changed>>

\* ... and the commands that read its value once the answers for a key are in:
\* those of some keys come together.
Read(s) ==
  /\ At(s, "typed")
  /\ \E F \in SUBSET found[s] :
       /\ F = {} => found[s] = {}
       /\ reply' = [reply EXCEPT ![s] =
                      @ \union {<<f[1], f[2], typed[s], selected>> : f \in F}]
       /\ found' = [found EXCEPT ![s] = @ \ F]
       /\ IF F = found[s] THEN Goto(s, "done") ELSE UNCHANGED scan
  /\ UNCHANGED <<selected, content, dbIndex, typed, moved, changed>>

\* executeCommand with SELECT.
Command(d) ==
  /\ d # selected
  /\ selected' = d
  /\ moved' = Moved(d)
  /\ UNCHANGED <<content, scan, dbIndex, found, typed, reply, changed>>

\* delete() of a key in the database that happens to be selected.
Delete(k) ==
  /\ content' = [content EXCEPT ![selected] = @ \ {k}]
  /\ changed' = changed \union Begun
  /\ UNCHANGED <<selected, scan, dbIndex, found, typed, reply, moved>>

Next ==
  \/ \E s \in Scanner : (\E d \in Db : Select(s, d)) \/ Batch(s) \/ Type(s) \/ Read(s)
  \/ \E d \in Db : Command(d)
  \/ \E k \in content[selected] : Delete(k)

-----------------------------------------------------------------------------
\* Every key a scan returns was found, typed and read in the database the scan
\* was asked for, unless another caller has selected a different one meanwhile.
ScanInOneDb ==
  \A s \in Scanner : At(s, "done") /\ s \notin moved =>
    \A r \in reply[s] : r[2] = dbIndex[s] /\ r[3] = dbIndex[s] /\ r[4] = dbIndex[s]

\* A scan never returns more than limit keys, and when nobody interferes it
\* returns that many or all there are.
ScanWithinLimit ==
  \A s \in Scanner : At(s, "done") =>
    /\ Cardinality(reply[s]) <= Limit
    /\ s \notin moved \union changed =>
         Cardinality(reply[s]) = Limit \/ {r[1] : r \in reply[s]} = content[dbIndex[s]]
=============================================================================
