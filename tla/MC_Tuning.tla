------------------------------ MODULE MC_Tuning ------------------------------
(***************************************************************************)
(* Performance tuning contexts: the capture of an Oracle plan              *)
(* (OracleSession, extended), the stages of an RDB context, those of a     *)
(* DynamoDB context, and what the latter says of its table and metrics.  A *)
(* provider's stages are a matter of the provider, so the parts share no   *)
(* state and a behaviour is one of one part.                               *)
(***************************************************************************)
EXTENDS OracleSession, FiniteSets

CONSTANTS Parts,     \* the parts checked: a subset of {"oracle", "rdb", "dynamo", "evidence"}
          MaxResolved, MaxTables, Sizes,             \* of TuningContext
          Gsi, Lsi, NoIndex, AllSeries, Priority(_), \* of DynamoContext
          IndexLimits, Payloads,
          Described, Requests, Points(_)             \* of DynamoEvidence

\* The limits of a call are numbers, of the indexes one at least (clamp).
ASSUME LimitsAssumption ==
  /\ MaxResolved \in Nat /\ MaxTables \in Nat /\ Sizes \subseteq Nat
  /\ IndexLimits \subseteq Nat \ {0}

VARIABLES on,
          stage, resolved, maxPayload, pending, full, partial, missing, notes,
          version, context,
          at, call, gaps, dynamoNotes, series, read, indexes, result,
          phase, wanted, table, target, measured, left, got, evidence

\* Of a series, those of an operation come first and those of an index last.
MCPriority(s) == CASE s = "op" -> 0 [] s = "tab" -> 1 [] OTHER -> 2

\* Two tables: a provisioned one with keys, a local index, a global one and one
\* without a name; one paid for by request, whose description lacks its keys.
Key(type, name) == [type |-> type, name |-> name]
Of(name, type) == [name |-> name, type |-> type]
Index(name, keys) == [name |-> <<name>>, keys |-> keys, count |-> <<1>>]
Whole == [name |-> "t", mode |-> <<>>, capacity |-> <<1>>, capped |-> FALSE, count |-> <<1>>,
          keys |-> <<Key("RANGE", "sk"), Key("HASH", "pk")>>,
          attributes |-> <<Of("pk", "S"), Of("sk", "N"), Of("b", "B")>>,
          local  |-> <<Index("l", <<Key("HASH", "pk"), Key("RANGE", "b")>>)>>,
          global |-> <<[Index("g", <<>>) EXCEPT !.name = <<>>], Index("g", <<Key("HASH", "b")>>)>>]
Bare == [Whole EXCEPT !.mode = <<"PAY_PER_REQUEST">>, !.capped = TRUE, !.count = <<>>,
         !.keys = <<>>, !.attributes = <<>>, !.local = <<>>, !.global[2].keys = <<Key("RANGE", "b")>>]
MCDescribed == {Whole, Bare}

\* Requests for the table and its indexes, one that is not there too; contexts that
\* are cut; reads of which a filter passes some, none evaluated, or not told.
Ask == [kind |-> "query", index |-> <<>>, monitoring |-> TRUE, way |-> "query",
        read |-> <<>>, cut |-> "none"]
Reading(scanned, returned) == [scanned |-> scanned, returned |-> returned, more |-> returned = 1]
MCRequests ==
  {[Ask EXCEPT !.index = i] : i \in {<<>>, <<"l">>, <<"g">>, <<"x">>}}
  \union {[Ask EXCEPT !.index = <<"g">>, !.cut = c] : c \in {"points", "sizes"}}
  \union {[Ask EXCEPT !.way = w, !.kind = k, !.monitoring = FALSE, !.read = r, !.index = i] :
            w \in {"scan", "unknown"}, k \in {"partiql", "query"}, i \in {<<>>, <<"g">>},
            r \in {<<>>, <<Reading(<<2>>, 1)>>, <<Reading(<<0>>, 0)>>, <<Reading(<<>>, 2)>>}}

\* Throttling of the table and of the index, and a latency, in two datapoints each.
Point(time, value) == [time |-> time, value |-> value]
MCPoints(spec) ==
  CASE spec.metric = "ReadThrottleEvents" -> IF spec.scope = "gsi" THEN {Point(1, 0), Point(2, 1)} ELSE {Point(1, 1)}
    [] spec.statistic = "p50" -> {Point(2, 1), Point(1, 2)}
    [] OTHER -> {}

Evidence == INSTANCE DynamoEvidence
Rdb == INSTANCE TuningContext WITH Payload <- Sizes
Dynamo == INSTANCE DynamoContext
          WITH Series <- AllSeries, notes <- dynamoNotes, shown <- indexes, answer <- result

\* What AWS guarantees: tables and keys have names and attributes a type, an
\* index without a name has none and not an empty one, a read returns no more than
\* it evaluates, and a datapoint has a time and a value; and what a call may ask for.
EvidenceAssumption ==
  /\ \A raw \in Described :
       /\ raw.name # ""
       /\ \A a \in Evidence!ToSet(raw.attributes) : a.type \in {"S", "N", "B"}
       /\ \A ix \in Evidence!ToSet(raw.local) \union Evidence!ToSet(raw.global) \union {raw} :
            /\ ix.keys \in Seq(Evidence!ToSet(ix.keys))
            /\ \A k \in Evidence!ToSet(ix.keys) : k.name # ""
       /\ \A ix \in Evidence!ToSet(raw.local) \union Evidence!ToSet(raw.global) :
            ix.name # <<>> => ix.name[1] # ""
  /\ \A r \in Requests :
       /\ r.kind \in {"partiql", "query"} /\ r.index # <<"">>
       /\ r.index # <<>> => r.index = <<r.index[1]>>
       /\ r.way \in {"query", "scan", "unknown"} /\ r.cut \in {"none", "points", "sizes"}
       /\ \A o \in Evidence!ToSet(r.read) :
            o.scanned # <<>> => /\ o.scanned = <<o.scanned[1]>> /\ o.scanned[1] \in Nat
                                /\ o.returned \in 0 .. o.scanned[1]
  /\ \A raw \in Described : \A type \in {"table", "LSI", "GSI"} :
       \A s \in Evidence!ToSet(Evidence!buildSeriesSpecs(Evidence!mapTableContext(raw), type)) :
         IsFiniteSet(Points(s)) /\ Points(s) \subseteq [time : Nat, value : Nat]
ASSUME EvidenceAssumption

rdbVars == <<stage, resolved, maxPayload, pending, full, partial, missing, notes,
             version, context>>
dynamoVars == <<at, call, gaps, dynamoNotes, series, read, indexes, result>>
evidenceVars == <<phase, wanted, table, target, measured, left, got, evidence>>

MCInit == /\ on \in Parts
          /\ Init /\ Rdb!Init /\ Dynamo!Init /\ Evidence!Init
          /\ on = "oracle" \/ {j \in Caller : pc[j] = "idle"} = CHOOSE c \in Casts : TRUE
          /\ on = "evidence" \/ (/\ wanted = CHOOSE r \in Requests : TRUE
                               /\ table = Evidence!mapTableContext(CHOOSE raw \in Described : TRUE))

MCNext ==
  \/ on = "oracle" /\ Next /\ UNCHANGED <<on, rdbVars, dynamoVars, evidenceVars>>
  \/ on = "rdb" /\ Rdb!Next /\ UNCHANGED <<on, vars, dynamoVars, evidenceVars>>
  \/ on = "dynamo" /\ Dynamo!Next /\ UNCHANGED <<on, vars, rdbVars, evidenceVars>>
  \/ on = "evidence" /\ Evidence!Next /\ UNCHANGED <<on, vars, rdbVars, dynamoVars>>

\* The fairness of OracleSession, for the capture.
MCFairness == /\ \A j \in Caller : WF_vars(on = "oracle" /\ Runs(j))
              /\ \A j \in Tuning : WF_vars(on = "oracle" /\ Deadline(j))

MCSpec == MCInit /\ [][MCNext]_<<on, vars, rdbVars, dynamoVars, evidenceVars>> /\ MCFairness

-----------------------------------------------------------------------------
\* A context that says it is complete lacks nothing, one that is partial says of
\* every section what became of it, what a limit cuts matters least, and a read
\* that costs is made only where it is allowed (TuningContext, DynamoContext).  The
\* context of a DynamoDB read is one its validator accepts, goes by the keys of what
\* is read, and tells of metrics and throttling what CloudWatch has (DynamoEvidence).
ContextsAreHonest ==
  /\ on = "rdb" => /\ Rdb!CompleteIsComplete /\ Rdb!NothingUnaccounted
                   /\ Rdb!WithinPayload
  /\ on = "dynamo" => /\ Dynamo!CompleteMissesNothing /\ Dynamo!ReadsOnlyWhenAllowed
                      /\ Dynamo!LeastFirst
  /\ on = "evidence" => /\ Evidence!EvidenceAccepted /\ Evidence!OwnDatapoints
                        /\ Evidence!ThrottlingTold /\ Evidence!GoesByItsKeys

\* A DynamoDB context is returned "without exceeding the payload limit" (the
\* comment on applyPayloadLimit).
WithinPayloadLimit == Dynamo!WithinPayloadLimit
=============================================================================
