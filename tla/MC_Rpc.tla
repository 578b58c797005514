-------------------------------- MODULE MC_Rpc --------------------------------
(***************************************************************************)
(* The calls of RPCDriver: streams (RpcStream, extended), reflection and   *)
(* unary calls.  They share no state, so a behaviour is one of one part.   *)
(***************************************************************************)
EXTENDS RpcStream, FiniteSets

CONSTANTS Parts,       \* the parts checked: a subset of {"stream", "reflection", "unary"}
          Verifier, Service, File, FileOf(_), Deps(_), \* of RpcReflection
          UnaryCall

\* A call of getInfomationSchemas is not that of connect().
ASSUME VerifierAssumption == "connect" \notin Verifier

VARIABLES on,
          server, conn, connects, discovery, protocol, schema, loaded, asking,
          attempt, job, cut, overtaken, tree,
          open, stage, unaryHeaders, callback, conversion, final, unaryOutcome,
          settles

\* Two services of files of their own, one of which imports the other.
MCFileOf(s) == IF s = "s1" THEN "f1" ELSE "f2"
MCDeps(f) == CASE f = "f1" -> {"f2"} [] f = "f2" -> {"f3"} [] OTHER -> {}

Reflection == INSTANCE RpcReflection
Unary == INSTANCE RpcUnary WITH headers <- unaryHeaders, outcome <- unaryOutcome

reflectionVars == <<server, conn, connects, discovery, protocol, schema, loaded,
                    asking, attempt, job, cut, overtaken, tree>>
unaryVars == <<open, stage, unaryHeaders, callback, conversion, final, unaryOutcome,
               settles>>

MCInit ==
  /\ on \in Parts
  /\ Init /\ (on # "stream" => kind = "clientStreaming")
  /\ Reflection!Init /\ Unary!Init

MCNext ==
  \/ on = "stream" /\ Next /\ UNCHANGED <<on, reflectionVars, unaryVars>>
  \/ on = "reflection" /\ Reflection!Next /\ UNCHANGED <<on, vars, unaryVars>>
  \/ on = "unary" /\ Unary!Next /\ UNCHANGED <<on, vars, reflectionVars>>

\* The fairness of RpcStream, for the streams.
MCFairness == /\ WF_vars(on = "stream" /\ OnWatchdog)
              /\ WF_vars(on = "stream" /\ WriteStart)
              /\ WF_vars(on = "stream" /\ Consumer)

MCSpec == MCInit /\ [][MCNext]_<<on, vars, reflectionVars, unaryVars>> /\ MCFairness

-----------------------------------------------------------------------------
\* A call settles when it is cancelled or its status has come, and a consumer
\* that goes on reading reaches the end (RpcStream).
Ends == Settles /\ ConsumerEnds

\* What reflection loads is complete, what it verifies is listed by the server, and
\* what it refuses is explained (RpcReflection); a unary call is settled once, by both
\* of its callbacks (RpcUnary); the bytes a stream counts are those it holds (RpcStream).
Answered ==
  /\ on = "reflection" => /\ Reflection!LoadedIsClosed
                          /\ Reflection!TreeIsVerified
                          /\ Reflection!UnimplementedExplained
  /\ on = "unary" => Unary!UnarySettlesOnce
  /\ on = "stream" => BytesCounted

\* "This server does not implement gRPC server reflection." is said only of a
\* server without it: a driver that "supports reflection v1 and v1alpha".
UnimplementedIsTrue == Reflection!UnimplementedIsTrue
=============================================================================
