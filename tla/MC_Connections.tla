--------------------------- MODULE MC_Connections ---------------------------
(***************************************************************************)
(* Connections: the registry of drivers with the lifecycle every driver    *)
(* inherits (DriverRegistry, extended), the services of an AwsDriver       *)
(* (AwsSession), and the tokens of Keycloak and Auth0 (IdentityProvider).  *)
(* They are connections of different drivers, so a behaviour is one of one *)
(* part.                                                                   *)
(***************************************************************************)
EXTENDS DriverRegistry

CONSTANTS Parts,       \* the parts checked: a subset of {"drivers", "aws", "identity"}
          Selected, Endpoints, Users, MaxMade,
          Callers, MaxCalls, MaxGrants

\* The services are those of AwsServiceType; a panel's client is told from theirs, and
\* from that of the region, by its endpoint.
ASSUME AwsAssumption ==
  /\ Selected \subseteq {"Cloudwatch", "SQS", "SES", "S3", "DynamoDB", "SSM",
                         "SecretsManager", "CloudFormation"}
  /\ Endpoints \intersect (Selected \union {"region"}) = {}

VARIABLES on,
          up, field, answering, region, panels, provider, open, made, awaits, todo,
          mine, failed, confused, offline,
          vendor, kind, granting, issuer, cached, granted, expired, calls, at, call,
          plan, seen, result, entity, opened, loose, left, newest, raced, deleted

Aws == INSTANCE AwsSession WITH isConnected <- up, at <- awaits, lossy <- confused
Identity == INSTANCE IdentityProvider WITH isConnected <- granting

awsVars == <<up, field, answering, region, panels, provider, open, made, awaits, todo,
             mine, failed, confused, offline>>
identityVars == <<vendor, kind, granting, issuer, cached, granted, expired, calls, at,
                  call, plan, seen, result, entity, opened, loose, left, newest, raced,
                  deleted>>

\* A part that is off stays in one state.
MCInit == /\ on \in Parts
          /\ Init /\ Aws!Init /\ Identity!Init
          /\ on = "drivers" \/ {j \in Caller : pc[j] = "idle"} = CHOOSE c \in Casts : TRUE
          /\ on = "identity" \/ (vendor = "keycloak" /\ kind = "role")

MCNext ==
  \/ on = "drivers" /\ Next /\ UNCHANGED <<on, awsVars, identityVars>>
  \/ on = "aws" /\ Aws!Next /\ UNCHANGED <<on, vars, identityVars>>
  \/ on = "identity" /\ Identity!Next /\ UNCHANGED <<on, vars, awsVars>>

\* The fairness of DriverRegistry, for the drivers.
MCFairness == \A j \in Caller : WF_vars(on = "drivers" /\ Resume(j))

MCSpec == MCInit /\ [][MCNext]_<<on, vars, awsVars, identityVars>> /\ MCFairness

-----------------------------------------------------------------------------
\* What a driver of a service keeps open, connected or cached is what its last
\* connect made, and goes with it, but for the cases the parts name: the SDK
\* clients, the panels, the region lookup and the tuning provider of AWS
\* (AwsSession), and the tokens of Keycloak and Auth0, with the role or group that
\* several requests create (IdentityProvider).
SessionsExplained ==
  /\ on = "aws" => /\ Aws!Explained /\ Aws!PanelsExplained
                   /\ Aws!RegionOnce /\ Aws!TunedExplained
  /\ on = "identity" => /\ Identity!NoTokenLeft /\ Identity!ConnectedOnPurpose
                        /\ Identity!NoUpdateLost
=============================================================================
