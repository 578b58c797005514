--------------------------- MODULE RpcReflection ---------------------------
(***************************************************************************)
(* RPCDriver: how a connection gets its definitions from the server's      *)
(* reflection (discovery "reflection"), and how the services of a local    *)
(* proto are compared with it (discovery "verify").  Every request has a   *)
(* stream of its own; the version of the protocol, v1 or v1alpha, is one   *)
(* field of the driver that all requests share.                            *)
(***************************************************************************)
EXTENDS Naturals, FiniteSets

CONSTANTS Verifier,    \* calls of getInfomationSchemas
          Service, File,
          FileOf(_),   \* the file that declares a service
          Deps(_)      \* the files a file imports

Connector == "connect"  \* the call of connect() that is in progress
Asker == Verifier \union {Connector}

MaxConnects == 2        \* bound: calls of connect()

VARIABLES server,      \* what the server implements, lists and how it differs
          conn,        \* "none", "connecting" or "up"
          connects,    \* counter
          discovery,   \* rpc.discovery of the connection
          protocol,    \* this.reflectionVersion
          schema,      \* the services of this.root, {} without one
          loaded,      \* the files this.root was made of
          asking,      \* the kind of request that is under way, or where a call is
          attempt,     \* the version it was sent with, is it the first try?
          job,         \* what a call has collected
          cut,         \* calls whose request went to a client that was closed
          overtaken,   \* history: another request changed the version meanwhile
          tree         \* the services of the tree a verifier has returned

rvars == <<server, conn, connects, discovery, protocol, schema, loaded, asking,
           attempt, job, cut, overtaken, tree>>

Version == {"v1", "v1alpha"}
NoTry   == [version |-> "v1", first |-> TRUE]
NoJob   == [names |-> {}, left |-> {}, files |-> {}, todo |-> {}, requested |-> {},
            arg |-> {}]
Pending == {c \in Asker : asking[c] \in {"list", "symbol", "file"}}

Init ==
  /\ server = [versions |-> {}, services |-> {}, differs |-> {}]
  /\ conn = "none" /\ connects = 0 /\ discovery = "verify"
  /\ protocol = "v1" /\ schema = {} /\ loaded = {}
  /\ asking = [c \in Asker |-> "idle"]
  /\ attempt = [c \in Asker |-> NoTry]
  /\ job = [c \in Asker |-> NoJob]
  /\ cut = {} /\ overtaken = {}
  /\ tree = [v \in Verifier |-> {}]

-----------------------------------------------------------------------------
\* reflectionRequest: sent with the version the driver has by now.
Ask(c, kind, j) ==
  /\ asking' = [asking EXCEPT ![c] = kind]
  /\ attempt' = [attempt EXCEPT ![c] = [version |-> protocol', first |-> TRUE]]
  /\ job' = [job EXCEPT ![c] = j]
  /\ overtaken' = overtaken \ {c}

\* closeSub
Close == /\ conn' = "none" /\ protocol' = "v1"
         /\ schema' = {} /\ loaded' = {}
         /\ cut' = cut \union Pending

\* A call that fails; connect() closes what it has opened.
Fail(c, outcome) ==
  /\ asking' = [asking EXCEPT ![c] = outcome]
  /\ job' = [job EXCEPT ![c] = NoJob]
  /\ attempt' = [attempt EXCEPT ![c] = NoTry]
  /\ IF c = Connector
     THEN Close
     ELSE cut' = cut \ {c} /\ UNCHANGED <<conn, protocol, schema, loaded>>
  /\ UNCHANGED tree

-----------------------------------------------------------------------------
\* The server is what it is from the first connection on.
Connect(mode) ==
  /\ conn = "none" /\ connects < MaxConnects
  /\ connects' = connects + 1
  /\ discovery' = mode
  /\ IF connects = 0
     THEN server' \in [versions : SUBSET Version, services : SUBSET Service,
                       differs : SUBSET Service]
     ELSE UNCHANGED server
  /\ UNCHANGED <<protocol, loaded, cut, tree>>
  /\ IF mode = "reflection"
     THEN conn' = "connecting" /\ Ask(Connector, "list", NoJob) /\ UNCHANGED schema
     ELSE /\ conn' = "up" /\ schema' = Service
          /\ UNCHANGED <<asking, attempt, job, overtaken>>

Disconnect ==
  /\ conn = "up"
  /\ Close
  /\ UNCHANGED <<server, connects, discovery, asking, attempt, job, overtaken, tree>>

\* getInfomationSchemasSub in verify mode; in any other it sends nothing.
GetInfomationSchemas(v) ==
  /\ asking[v] \notin {"list", "symbol"}
  /\ conn = "up" /\ discovery = "verify"
  /\ UNCHANGED protocol
  /\ Ask(v, "list", NoJob)
  /\ tree' = [tree EXCEPT ![v] = {}]
  /\ UNCHANGED <<server, conn, connects, discovery, schema, loaded, cut>>

-----------------------------------------------------------------------------
(***************************************************************************)
(* reflectionRequest when it fails                                         *)
(***************************************************************************)
\* The first try with v1 is made again with v1alpha, and so is every request
\* that is sent later; when another request has changed the version meanwhile,
\* there is no second try.
Unimplemented(c) ==
  /\ c \in Pending \ cut /\ attempt[c].version \notin server.versions
  /\ IF attempt[c].first /\ protocol = "v1"
     THEN /\ protocol' = "v1alpha"
          /\ attempt' = [attempt EXCEPT ![c] = [version |-> "v1alpha", first |-> FALSE]]
          /\ overtaken' = overtaken \union
                          {d \in Pending \ {c} : attempt[d].version = "v1"}
          /\ UNCHANGED <<conn, schema, loaded, asking, job, cut, tree>>
     ELSE Fail(c, "unimplemented") /\ UNCHANGED overtaken
  /\ UNCHANGED <<server, connects, discovery>>

\* Any other error, the deadline, or a client that was closed.
Broken(c) ==
  /\ c \in Pending
  /\ Fail(c, "failed")
  /\ UNCHANGED <<server, connects, discovery, overtaken>>

-----------------------------------------------------------------------------
(***************************************************************************)
(* loadReflectedSchema                                                     *)
(***************************************************************************)
\* Mutant: only the imports of the first files are asked for.
Missing_Once(j) == IF j.requested = {} THEN (UNION {Deps(f) : f \in j.files}) \ j.files
                   ELSE {}

\* missingDependencies
Missing(j) == (UNION {Deps(f) : f \in j.files}) \ j.files

\* A service whose file has come with another one is not asked for; then the
\* imports that are missing, in rounds, none of them twice.
Proceed(j) ==
  LET services == {s \in j.left : FileOf(s) \notin j.files}
      round == IF j.todo \ j.files # {} THEN j.todo \ j.files ELSE Missing(j)
  IN  \/ /\ UNCHANGED <<conn, protocol, schema, loaded, cut, tree>>
         /\ \E s \in services :
              Ask(Connector, "symbol", [j EXCEPT !.left = services \ {s}, !.arg = {s}])
      \/ /\ services = {}
         /\ UNCHANGED <<conn, protocol, schema, loaded, cut, tree>>
         /\ \E f \in round \ j.requested :
              Ask(Connector, "file",
                  [j EXCEPT !.left = {}, !.todo = round \ {f}, !.arg = {},
                            !.requested = @ \union {f}])
      \/ /\ services = {} /\ round \intersect j.requested # {}
         /\ Fail(Connector, "failed") /\ UNCHANGED overtaken
      \/ /\ services = {} /\ round = {}
         /\ UNCHANGED overtaken
         /\ IF \A s \in j.names : FileOf(s) \in j.files
            THEN /\ conn' = "up" /\ schema' = j.names /\ loaded' = j.files
                 /\ asking' = [asking EXCEPT ![Connector] = "done"]
                 /\ job' = [job EXCEPT ![Connector] = NoJob]
                 /\ attempt' = [attempt EXCEPT ![Connector] = NoTry]
                 /\ UNCHANGED <<protocol, cut, tree>>
            ELSE Fail(Connector, "failed")

Answers(c, kind) == /\ asking[c] = kind /\ c \notin cut
                    /\ attempt[c].version \in server.versions

LoadServices ==
  /\ Answers(Connector, "list")
  /\ Proceed([NoJob EXCEPT !.names = server.services, !.left = server.services])
  /\ UNCHANGED <<server, connects, discovery>>

\* The server returns some files: the one that was asked for, with its imports
\* or without, or others.
LoadFiles ==
  /\ Answers(Connector, "symbol") \/ Answers(Connector, "file")
  /\ \E F \in SUBSET File \ {{}} :
       Proceed([job[Connector] EXCEPT !.files = @ \union F])
  /\ UNCHANGED <<server, connects, discovery>>

-----------------------------------------------------------------------------
(***************************************************************************)
(* advertisedServices, and the rest of getInfomationSchemasSub             *)
(***************************************************************************)
\* Mutant: a service the server does not list is shown as it is declared.
Tree_Declared(j) == schema

\* The services of the local proto that the server lists.
Tree(j) == schema \intersect j.names

\* Services the local proto does not know are skipped; without a root it throws,
\* and so it does when a signature differs.
Compare(v, j) ==
  LET known == j.left \intersect schema IN
  \/ /\ conn # "up" /\ Fail(v, "failed") /\ UNCHANGED overtaken
  \/ /\ conn = "up"
     /\ UNCHANGED <<conn, protocol, schema, loaded, cut, tree>>
     /\ \E s \in known : Ask(v, "symbol", [j EXCEPT !.left = known \ {s}, !.arg = {s}])
  \/ /\ conn = "up" /\ known = {}
     /\ IF Tree(j) \intersect server.differs # {}
        THEN Fail(v, "failed") /\ UNCHANGED overtaken
        ELSE /\ asking' = [asking EXCEPT ![v] = "done"]
             /\ tree' = [tree EXCEPT ![v] = Tree(j)]
             /\ job' = [job EXCEPT ![v] = NoJob]
             /\ attempt' = [attempt EXCEPT ![v] = NoTry]
             /\ UNCHANGED <<conn, protocol, schema, loaded, cut, overtaken>>

VerifyServices(v) ==
  /\ Answers(v, "list")
  /\ Compare(v, [NoJob EXCEPT !.names = server.services, !.left = server.services])
  /\ UNCHANGED <<server, connects, discovery>>

\* The answer declares the service or not.
VerifyService(v) ==
  /\ Answers(v, "symbol")
  /\ Compare(v, job[v]) \/ (Fail(v, "failed") /\ UNCHANGED overtaken)
  /\ UNCHANGED <<server, connects, discovery>>

Next ==
  \/ \E mode \in {"reflection", "verify"} : Connect(mode)
  \/ Disconnect \/ LoadServices \/ LoadFiles
  \/ \E c \in Asker : Unimplemented(c) \/ Broken(c)
  \/ \E v \in Verifier : GetInfomationSchemas(v) \/ VerifyServices(v) \/ VerifyService(v)

Spec == Init /\ [][Next]_rvars

-----------------------------------------------------------------------------
\* A connection that came up with reflection has every service the server lists
\* and, with each file, the files it imports, whatever the server chose to send
\* with an answer (loadReflectedSchema).
LoadedIsClosed ==
  conn = "up" /\ discovery = "reflection" =>
    /\ schema = server.services
    /\ \A s \in schema : FileOf(s) \in loaded
    /\ \A f \in loaded : Deps(f) \subseteq loaded

\* The tree of a verified connection shows only services the server lists, none
\* of them with another signature, whatever disconnects and connects meanwhile.
TreeIsVerified ==
  \A v \in Verifier : tree[v] \subseteq server.services \ server.differs

\* "This server does not implement gRPC server reflection" is said of a server
\* that implements neither version, or by a request that another one overtook.
UnimplementedExplained ==
  \A c \in Asker : asking[c] = "unimplemented" =>
    server.versions = {} \/ c \in overtaken

\* "This server does not implement gRPC server reflection."
\* (REFLECTION_UNIMPLEMENTED_MESSAGE), of a driver that supports "reflection v1
\* and v1alpha" (README).
UnimplementedIsTrue ==
  \A c \in Asker : asking[c] = "unimplemented" => server.versions = {}
=============================================================================
