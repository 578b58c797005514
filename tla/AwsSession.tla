----------------------------- MODULE AwsSession -----------------------------
(***************************************************************************)
(* The connection of AwsDriver: one AwsServiceClient per selected service, *)
(* connected and closed one after another; the base region, looked up      *)
(* once; the CloudWatch and S3 clients of the metric panels, made when     *)
(* they are first asked for; and the tuning provider, made once.           *)
(*                                                                         *)
(* An SDK client is <<service, n>>: the one made for that service by the   *)
(* n-th connect or test, or <<endpoint, n>> for a metric panel.  A service *)
(* client makes its SDK client, and then asks the service for a first page:*)
(* a service that does not answer is not connected.                        *)
(***************************************************************************)
EXTENDS Naturals, FiniteSetsExt

CONSTANTS Selected,    \* the services of the connection setting
          Endpoints,   \* the endpoints of metric panels
          Users,       \* the callers that connect, disconnect and test
          MaxMade      \* bound: connects and tests, and panel clients

\* The orders of connectSub, closeSub and test.
ConnectOrder == <<"Cloudwatch", "SQS", "SES", "S3", "DynamoDB", "SSM",
                  "SecretsManager", "CloudFormation">>
CloseOrder   == <<"SES", "SQS", "Cloudwatch", "S3", "DynamoDB", "SSM",
                  "SecretsManager", "CloudFormation">>
TestOrder    == <<"Cloudwatch", "SES", "SQS", "S3", "DynamoDB", "SSM",
                  "SecretsManager", "CloudFormation">>

None == 0

VARIABLES isConnected,   \* of the driver
          field,         \* its cloudwatchClient, s3Client ...: n, or None
          answering,     \* the service clients whose own isConnected is true
          region,        \* "unasked", "asked", "found" or "failed"
          panels,        \* cloudWatchMetricsCollectors, s3MetricControlClients
          provider,      \* the DynamoDB client of the tuning provider
          open,          \* the SDK clients that are not destroyed
          made,          \* numbers the connects, tests and panel clients
          at, todo, mine, failed,   \* of each user: what it awaits, the services
                         \* or clients still to come, its n, and "is there a message?"
          lossy,         \* history: a service did not answer, the driver was
                         \* connected again, or calls overlapped
          offline        \* history: a panel was asked for on a driver that was
                         \* not connected

avars == <<isConnected, field, answering, region, panels, provider, open, made,
           at, todo, mine, failed, lossy, offline>>

\* Which of these services, and of these clients, comes first.
First(order, services) == order[Min({i \in DOMAIN order : order[i] \in services})]
FirstClient(clients) ==
  CHOOSE c \in clients : c[1] = First(CloseOrder, {d[1] : d \in clients})

Init ==
  /\ isConnected = FALSE /\ field = [s \in Selected |-> None] /\ answering = {}
  /\ region = "unasked" /\ panels = [e \in Endpoints |-> None] /\ provider = None
  /\ open = {} /\ made = 0
  /\ at = [u \in Users |-> "idle"] /\ todo = [u \in Users |-> {}]
  /\ mine = [u \in Users |-> None] /\ failed = [u \in Users |-> FALSE]
  /\ lossy = FALSE /\ offline = FALSE

Quiet == \A u \in Users : at[u] = "idle"

\* The SDK client of the next service is made before anything is awaited.
Upcoming(u, order, services) ==
  IF services = {} THEN {} ELSE {<<First(order, services), mine[u]>>}

-----------------------------------------------------------------------------
\* connect: initBaseStatus, and the first one to come looks up the region.
Connect(u) ==
  /\ at[u] = "idle" /\ made < MaxMade
  /\ lossy' = (lossy \/ isConnected \/ ~Quiet)
  /\ isConnected' = FALSE /\ made' = made + 1
  /\ mine' = [mine EXCEPT ![u] = made + 1]
  /\ IF region = "unasked"
     THEN region' = "asked" /\ open' = open \union {<<"region", None>>}
     ELSE UNCHANGED <<region, open>>
  /\ at' = [at EXCEPT ![u] = "region"]
  /\ UNCHANGED <<field, answering, panels, provider, todo, failed, offline>>

\* The lookup is answered or rejected, and its client destroyed; the promise
\* stays, so it is never asked again.
RegionAnswered(found) ==
  /\ region = "asked"
  /\ region' = IF found THEN "found" ELSE "failed"
  /\ open' = open \ {<<"region", None>>}
  /\ UNCHANGED <<isConnected, field, answering, panels, provider, made, at, todo, mine,
                 failed, lossy, offline>>

RegionAwaited(u) ==
  /\ at[u] = "region" /\ region \in {"found", "failed"}
  /\ at' = [at EXCEPT ![u] = "connecting"]
  /\ todo' = [todo EXCEPT ![u] = Selected]
  /\ open' = open \union Upcoming(u, ConnectOrder, Selected)
  /\ UNCHANGED <<isConnected, field, answering, region, panels, provider, made, mine,
                 failed, lossy, offline>>

\* Mutant: a field keeps the client it was given first.
Kept_First(s, n, ok) ==
  CASE field[s] # None -> field[s] [] field[s] = None /\ ok -> n [] OTHER -> None

\* The field of a service once its connect() has returned.
Kept(s, n, ok) == IF ok THEN n ELSE None

\* A service has answered, or not; the next one begins.
ServiceConnected(u, ok) ==
  /\ at[u] = "connecting" /\ todo[u] # {}
  /\ LET s == First(ConnectOrder, todo[u]) IN
     /\ field' = [field EXCEPT ![s] = Kept(s, mine[u], ok)]
     /\ answering' = IF ok THEN answering \union {<<s, mine[u]>>} ELSE answering
     /\ todo' = [todo EXCEPT ![u] = @ \ {s}]
     /\ open' = open \union Upcoming(u, ConnectOrder, todo[u] \ {s})
  /\ failed' = [failed EXCEPT ![u] = @ \/ ~ok]
  /\ lossy' = (lossy \/ ~ok)
  /\ UNCHANGED <<isConnected, region, panels, provider, made, at, mine, offline>>

\* Any message means that the driver is not connected.
Connected(u) ==
  /\ at[u] = "connecting" /\ todo[u] = {}
  /\ isConnected' = ~failed[u]
  /\ at' = [at EXCEPT ![u] = "idle"]
  /\ mine' = [mine EXCEPT ![u] = None] /\ failed' = [failed EXCEPT ![u] = FALSE]
  /\ UNCHANGED <<field, answering, region, panels, provider, open, made, todo, lossy, offline>>

-----------------------------------------------------------------------------
\* disconnect: closeSub only if the driver is connected; the clients to close
\* are read from the fields at once, and the fields keep them.
Disconnect(u) ==
  /\ at[u] = "idle" /\ isConnected
  /\ lossy' = (lossy \/ ~Quiet)
  /\ todo' = [todo EXCEPT ![u] = {<<s, field[s]>> : s \in {t \in Selected : field[t] # None}}]
  /\ at' = [at EXCEPT ![u] = "closing"]
  /\ UNCHANGED <<isConnected, field, answering, region, panels, provider, open, made,
                 mine, failed, offline>>

ServiceClosed(u) ==
  /\ at[u] = "closing" /\ todo[u] # {}
  /\ LET c == FirstClient(todo[u]) IN
     /\ open' = IF c \in answering THEN open \ {c} ELSE open
     /\ answering' = answering \ {c}
     /\ todo' = [todo EXCEPT ![u] = @ \ {c}]
  /\ UNCHANGED <<isConnected, field, region, panels, provider, made, at, mine, failed,
                 lossy, offline>>

\* Mutant: the panel clients are forgotten, not destroyed.
Shown_Forgotten == {}

\* The SDK clients of the metric panels.
Shown == {<<e, panels[e]>> : e \in {f \in Endpoints : panels[f] # None}}

Disconnected(u) ==
  /\ at[u] = "closing" /\ todo[u] = {}
  /\ open' = open \ Shown /\ panels' = [e \in Endpoints |-> None]
  /\ isConnected' = FALSE
  /\ at' = [at EXCEPT ![u] = "idle"]
  /\ UNCHANGED <<field, answering, region, provider, made, todo, mine, failed, lossy, offline>>

-----------------------------------------------------------------------------
\* test(true): service clients of its own, each connected, tested and closed.
Test(u) ==
  /\ at[u] = "idle" /\ made < MaxMade /\ Selected # {}
  /\ made' = made + 1 /\ mine' = [mine EXCEPT ![u] = made + 1]
  /\ at' = [at EXCEPT ![u] = "testing"]
  /\ todo' = [todo EXCEPT ![u] = Selected]
  /\ open' = open \union {<<First(TestOrder, Selected), made + 1>>}
  /\ UNCHANGED <<isConnected, field, answering, region, panels, provider, failed, lossy, offline>>

\* A service that does not answer the connect is not disconnected; one that
\* answers it is, whatever the test after it says.
ServiceTested(u, ok) ==
  /\ at[u] = "testing"
  /\ LET s == First(TestOrder, todo[u]) IN
     /\ open' = (IF ok THEN open \ {<<s, mine[u]>>} ELSE open)
                  \union Upcoming(u, TestOrder, todo[u] \ {s})
     /\ todo' = [todo EXCEPT ![u] = @ \ {s}]
  /\ lossy' = (lossy \/ ~ok)
  /\ IF todo'[u] = {}
     THEN at' = [at EXCEPT ![u] = "idle"] /\ mine' = [mine EXCEPT ![u] = None]
     ELSE UNCHANGED <<at, mine>>
  /\ UNCHANGED <<isConnected, field, answering, region, panels, provider, made, failed,
                 offline>>

\* getCloudWatchMetricsCollector, getS3MetricsControlClient: connected or not.
Panel(e) ==
  /\ panels[e] = None /\ made < MaxMade
  /\ made' = made + 1
  /\ panels' = [panels EXCEPT ![e] = made + 1]
  /\ open' = open \union {<<e, made + 1>>}
  /\ offline' = (offline \/ ~isConnected \/ ~Quiet)
  /\ UNCHANGED <<isConnected, field, answering, region, provider, at, todo, mine,
                 failed, lossy>>

\* A tuning context is refused without a DynamoDB client.
Tunable == "DynamoDB" \in Selected /\ field["DynamoDB"] # None

\* The provider keeps the client it was made with.
Tune ==
  /\ Tunable
  /\ provider' = IF provider = None THEN field["DynamoDB"] ELSE provider
  /\ UNCHANGED <<isConnected, field, answering, region, panels, open, made, at, todo,
                 mine, failed, lossy, offline>>

Next ==
  \/ \E u \in Users :
       \/ Connect(u) \/ RegionAwaited(u) \/ Connected(u)
       \/ Disconnect(u) \/ ServiceClosed(u) \/ Disconnected(u)
       \/ Test(u)
       \/ \E ok \in BOOLEAN : ServiceConnected(u, ok) \/ ServiceTested(u, ok)
  \/ \E found \in BOOLEAN : RegionAnswered(found)
  \/ \E e \in Endpoints : Panel(e)
  \/ Tune

Spec == Init /\ [][Next]_avars

-----------------------------------------------------------------------------
\* The SDK clients of the services.
OfServices == {c \in open : c[1] \in Selected}

\* When nothing is in flight, a connected driver has exactly the clients of its
\* fields open and a disconnected one has none, but for: a service that did not
\* answer (neither its client is destroyed, nor, as the driver counts as not
\* connected, are those of the services before and after it), a connect of a
\* driver that is connected, and calls that overlap.
Explained ==
  Quiet /\ ~lossy =>
    OfServices = IF isConnected THEN {<<s, field[s]>> : s \in Selected} ELSE {}

\* A panel's client is open as long as the driver has it, and destroyed when the
\* driver gives it up; none is left after a disconnect, unless a panel was asked
\* for while the driver was not connected.
PanelsExplained ==
  /\ Shown = {c \in open : c[1] \in Endpoints}
  /\ Quiet /\ ~isConnected /\ ~lossy /\ ~offline => Shown = {}

\* The region is asked for once, by a client that does not outlive the answer.
RegionOnce == <<"region", None>> \in open <=> region = "asked"

\* A tuning context is read from a client the driver has or had, never from one
\* that did not answer; a second connection is still read through the first.
TunedExplained ==
  provider # None /\ ~lossy =>
    \/ provider = field["DynamoDB"]
    \/ <<"DynamoDB", provider>> \notin open
=============================================================================
