-------------------------- MODULE IdentityProvider --------------------------
(***************************************************************************)
(* KeycloakDriver and Auth0Driver: the access token that every request     *)
(* takes from the driver, granted when there is none or it has expired,    *)
(* and the creation of a Keycloak role or group with attributes, which is  *)
(* a POST without them, a GET and a PUT, while another administrator works *)
(* on the same one.                                                        *)
(***************************************************************************)
EXTENDS Naturals, Sequences

CONSTANTS Callers,
          MaxCalls,      \* bound: calls made
          MaxGrants      \* bound: tokens granted

VARIABLES vendor,        \* "keycloak" or "auth0"
          kind,          \* what is created: a "role" or a "group"
          isConnected,
          issuer,        \* Keycloak: issuerClient is set
          cached,        \* cachedTokenSet, cachedAccessToken: a number, or None
          granted,       \* numbers the tokens
          expired,       \* the tokens that have expired
          calls,         \* calls made so far
          at, call, plan, seen,  \* of each caller: what it awaits, the call, the
                         \* requests still to send, the representation it has
          result,        \* how its last creation ended
          entity,        \* the role or group at the server, or Absent
          opened,        \* history: a connect was the last of connect and disconnect
          loose,         \* history: a call was in flight at a connect or disconnect,
                         \* or made without a connection, or a connect found a token
          left,          \* history: a test that connected was rejected
          newest,        \* history: the last description somebody asked for
          raced,         \* history: ... while a creation had read the one before
          deleted        \* history: somebody deleted it

ivars == <<vendor, kind, isConnected, issuer, cached, granted, expired, calls, at, call,
           plan, seen, result, entity, opened, loose, left, newest, raced, deleted>>
tokens  == <<cached, granted>>
server  == <<entity, newest, raced, deleted>>
session == <<isConnected, issuer, opened, loose, left>>
setting == <<vendor, kind>>

None   == 0
Absent == [description |-> None, attributes |-> None]

Init ==
  /\ vendor \in {"keycloak", "auth0"} /\ kind \in {"role", "group"}
  /\ vendor = "auth0" => kind = "role"
  /\ isConnected = FALSE /\ issuer = FALSE /\ cached = None /\ granted = 0 /\ expired = {}
  /\ calls = 0
  /\ at = [c \in Callers |-> "idle"] /\ call = [c \in Callers |-> "none"]
  /\ plan = [c \in Callers |-> <<>>] /\ seen = [c \in Callers |-> Absent]
  /\ result = [c \in Callers |-> "none"]
  /\ entity = Absent
  /\ opened = FALSE /\ loose = FALSE /\ left = FALSE
  /\ newest = None /\ raced = FALSE /\ deleted = FALSE

Quiet == \A c \in Callers : at[c] = "idle"

-----------------------------------------------------------------------------
\* A call begins: connect and test(true) connect first, the others ask for a
\* token at once.  A creation is without or with attributes.
Plans(o) == CASE o \in {"connect", "test"} -> {<<>>}
              [] o = "read"   -> {<<"get">>}
              [] o = "create" -> {<<"post">>, <<"post", "find", "put">>}
              [] o = "update" -> {<<"put">>}

Begin(c, o) ==
  /\ at[c] = "idle" /\ calls < MaxCalls
  /\ vendor = "auth0" => o \in {"connect", "test", "read"}
  /\ calls' = calls + 1
  /\ call' = [call EXCEPT ![c] = o]
  /\ \E p \in Plans(o) : plan' = [plan EXCEPT ![c] = p]
  /\ seen' = [seen EXCEPT ![c] = Absent] /\ result' = [result EXCEPT ![c] = "none"]
  /\ IF o \in {"connect", "test"}
     THEN /\ at' = [at EXCEPT ![c] = "connecting"]
          /\ isConnected' = FALSE
          /\ loose' = (loose \/ cached # None \/ \E d \in Callers \ {c} : at[d] # "idle")
     ELSE /\ at' = [at EXCEPT ![c] = "asking"]
          /\ loose' = (loose \/ ~isConnected) /\ UNCHANGED isConnected
  /\ UNCHANGED <<setting, issuer, tokens, expired, server, opened, left>>

Ends(c, how) ==
  /\ at' = [at EXCEPT ![c] = "idle"] /\ plan' = [plan EXCEPT ![c] = <<>>]
  /\ call' = [call EXCEPT ![c] = "none"] /\ seen' = [seen EXCEPT ![c] = Absent]
  /\ result' = [result EXCEPT ![c] = IF call[c] = "create" THEN how ELSE @]

\* connectSub: Keycloak discovers the issuer, Auth0 forgets its token; test goes on
\* to ask for a token.
Connect(c, ok) ==
  /\ at[c] = "connecting" /\ (vendor = "auth0" => ok)
  /\ isConnected' = ok
  /\ opened' = (ok /\ call[c] = "connect")
  /\ issuer' = (issuer \/ (ok /\ vendor = "keycloak"))
  /\ cached' = IF vendor = "auth0" THEN None ELSE cached
  /\ IF ok /\ call[c] = "test"
     THEN at' = [at EXCEPT ![c] = "asking"] /\ UNCHANGED <<call, plan, seen, result>>
     ELSE Ends(c, "rejected")
  /\ UNCHANGED <<setting, granted, expired, calls, server, loose, left>>

\* Mutant: Auth0 keeps the token of a connection that is closed.
Forgotten_Keycloak == IF vendor = "keycloak" THEN None ELSE cached

\* closeSub: the token is forgotten.
Forgotten == None

Closes(c) ==
  /\ cached' = IF isConnected THEN Forgotten ELSE cached
  /\ isConnected' = FALSE /\ opened' = FALSE
  /\ loose' = (loose \/ \E d \in Callers \ {c} : at[d] # "idle")

Disconnect(c) ==
  /\ at[c] = "idle" /\ isConnected
  /\ Closes(c)
  /\ UNCHANGED <<setting, issuer, granted, expired, calls, at, call, plan, seen, result,
                 server, left>>

-----------------------------------------------------------------------------
\* A rejected request or grant ends the call; test does not disconnect then.
Rejected(c) ==
  /\ Ends(c, "rejected")
  /\ left' = (left \/ call[c] = "test")
  /\ UNCHANGED <<isConnected, issuer, opened, loose>>

\* getTokenSet, getAvailableAccessToken: the token of the driver is taken if it has
\* not expired, or another one is asked for.
TokenTaken(c) ==
  /\ at[c] = "asking"
  /\ cached # None /\ cached \notin expired
  /\ IF call[c] = "test" THEN Ends(c, "resolved") /\ Closes(c) /\ UNCHANGED <<issuer, left>>
     ELSE /\ at' = [at EXCEPT ![c] = "sending"]
          /\ UNCHANGED <<call, plan, seen, result, cached, session>>
  /\ UNCHANGED <<setting, granted, expired, calls, server>>

TokenWanted(c) ==
  /\ at[c] = "asking"
  /\ cached = None \/ cached \in expired
  /\ IF vendor = "keycloak" /\ ~issuer THEN Rejected(c)
     ELSE /\ at' = [at EXCEPT ![c] = "granting"]
          /\ UNCHANGED <<call, plan, seen, result, session>>
  /\ UNCHANGED <<setting, tokens, expired, calls, server>>

Granted(c) ==
  /\ at[c] = "granting" /\ granted < MaxGrants
  /\ granted' = granted + 1
  /\ IF call[c] = "test"
     THEN /\ Ends(c, "resolved")
          /\ cached' = IF isConnected THEN Forgotten ELSE granted + 1
          /\ isConnected' = FALSE /\ opened' = FALSE
          /\ loose' = (loose \/ ~isConnected \/ \E d \in Callers \ {c} : at[d] # "idle")
          /\ UNCHANGED <<issuer, left>>
     ELSE /\ cached' = granted + 1
          /\ at' = [at EXCEPT ![c] = "sending"]
          /\ UNCHANGED <<call, plan, seen, result, session>>
  /\ UNCHANGED <<setting, expired, calls, server>>

GrantRefused(c) ==
  /\ at[c] = "granting"
  /\ Rejected(c)
  /\ UNCHANGED <<setting, tokens, expired, calls, server>>

Expires ==
  /\ cached # None /\ cached \notin expired
  /\ expired' = expired \union {cached}
  /\ UNCHANGED <<setting, session, tokens, calls, at, call, plan, seen, result, server>>

-----------------------------------------------------------------------------
\* A request is served and answered; the next one asks for a token of its own.
Goes(c) ==
  IF Len(plan[c]) = 1 THEN Ends(c, "resolved")
  ELSE /\ at' = [at EXCEPT ![c] = "asking"] /\ plan' = [plan EXCEPT ![c] = Tail(@)]
       /\ UNCHANGED <<call, result>>

Sends(c, r) == at[c] = "sending" /\ plan[c] # <<>> /\ Head(plan[c]) = r

Exists == entity.description # None

\* The other creations that have read the entity and are to write it.
Reading(c) == \E d \in Callers \ {c} : call[d] = "create" /\ plan[d] = <<"put">>

\* getUsers, getRole ... and all the others that are one request.
Get(c) ==
  /\ Sends(c, "get") /\ Goes(c)
  /\ seen' = [seen EXCEPT ![c] = Absent]
  /\ UNCHANGED <<setting, session, tokens, expired, calls, server>>

\* createRole, createGroup: without the attributes; the name must be free.
Post(c) ==
  /\ Sends(c, "post") /\ ~Exists
  /\ entity' = [description |-> calls, attributes |-> None] /\ newest' = calls
  /\ raced' = (raced \/ Reading(c))
  /\ Goes(c) /\ seen' = [seen EXCEPT ![c] = IF Len(plan[c]) = 1 THEN Absent ELSE entity']
  /\ UNCHANGED <<setting, session, tokens, expired, calls, deleted>>

\* Mutant: the representation that was posted is used, not the one at the server.
Read_Posted(c) == seen[c]

\* getRole by name; getGroup searches the groups and may find none.
Read(c) == entity

Find(c) ==
  /\ Sends(c, "find") /\ (kind = "role" => Exists)
  /\ Goes(c) /\ seen' = [seen EXCEPT ![c] = Read(c)]
  /\ UNCHANGED <<setting, session, tokens, expired, calls, server>>

\* updateRole, updateGroup: a creation writes back what it has read, with its
\* attributes; an update leaves the attributes alone.
Put(c) ==
  /\ Sends(c, "put") /\ Exists
  /\ IF call[c] = "create"
     THEN /\ seen[c] # Absent
          /\ entity' = [seen[c] EXCEPT !.attributes = 1]
          /\ UNCHANGED <<newest, raced>>
     ELSE /\ entity' = [entity EXCEPT !.description = calls]
          /\ newest' = calls /\ raced' = (raced \/ Reading(c))
  /\ Goes(c) /\ seen' = [seen EXCEPT ![c] = Absent]
  /\ UNCHANGED <<setting, session, tokens, expired, calls, deleted>>

\* Refused: the name is taken, the entity is gone, the token has expired, or an error.
Refused(c) ==
  /\ at[c] = "sending"
  /\ Rejected(c)
  /\ UNCHANGED <<setting, tokens, expired, calls, server>>

\* Somebody else deletes the entity.
Delete ==
  /\ Exists /\ ~deleted
  /\ entity' = Absent /\ deleted' = TRUE
  /\ UNCHANGED <<setting, session, tokens, expired, calls, at, call, plan, seen, result,
                 newest, raced>>

Next ==
  \/ \E c \in Callers :
       \/ \E o \in {"connect", "test", "read", "create", "update"} : Begin(c, o)
       \/ \E ok \in BOOLEAN : Connect(c, ok)
       \/ Disconnect(c)
       \/ TokenTaken(c) \/ TokenWanted(c) \/ Granted(c) \/ GrantRefused(c)
       \/ Get(c) \/ Post(c) \/ Find(c) \/ Put(c) \/ Refused(c)
  \/ Expires \/ Delete

Spec == Init /\ [][Next]_ivars

-----------------------------------------------------------------------------
\* A disconnected driver has no token any more, unless a call was still in flight
\* at a connect or disconnect or made without a connection, and brought one later, or
\* a connected driver was connected again and that failed: closeSub is not called then.
NoTokenLeft == Quiet /\ ~isConnected /\ ~loose => cached = None

\* A driver is connected because a connect was not followed by a disconnect, or
\* because a test that connects was rejected: it is not disconnected then.
ConnectedOnPurpose == isConnected /\ Quiet => opened \/ left

\* A description somebody asked for is not undone by a creation that did not have
\* the entity read before.
NoUpdateLost == Exists /\ ~raced /\ ~deleted => entity.description = newest
=============================================================================
