-------------------------- MODULE MqttSubscriptions --------------------------
(***************************************************************************)
(* MqttDriver: the map of subscriptions and their messages, next to what   *)
(* the MQTT broker has subscribed.                                         *)
(*                                                                         *)
(* client.subscribe, unsubscribe and end of mqtt.js return at once and not *)
(* a promise: awaiting them lets the rest of the method run in a microtask *)
(* (micro), before any event of the network, and nothing waits for the     *)
(* broker's answer.  mqtt.js and the broker are external: packets to and   *)
(* from a client stay in order, a lost link is opened again with the       *)
(* client's subscriptions, and a subscription may be refused.              *)
(***************************************************************************)
EXTENDS Integers, Sequences, FiniteSets

CONSTANTS Topic,      \* topics, each a sequence of levels
          Filter,     \* filters, each a sequence of levels, "+" and "#"
          Limit,      \* 1000 messages are kept for a filter
          MaxClient,  \* bound: calls of connect()
          MaxCalls,   \* bound: calls of the other methods
          MaxPublish  \* bound: messages published

ASSUME MqttAssumption ==
  /\ \A t \in Topic : t \in Seq(STRING) /\ t # <<>>
  /\ \A f \in Filter : /\ f \in Seq(STRING) /\ f # <<>>
                        /\ \A i \in DOMAIN f : f[i] = "#" => i = Len(f)
  /\ Limit \in Nat \ {0}
  /\ MaxClient \in Nat /\ MaxCalls \in Nat /\ MaxPublish \in Nat

Client == 1..MaxClient
Message == [id : 1..MaxPublish, topic : Topic]
State == {"absent", "subscribed", "unsubscribed"}
Packet == [type : {"subscribe", "unsubscribe", "disconnect"}, names : SUBSET Filter]
Rest == [after : {"subscribe", "unsubscribe", "disconnect"}, names : SUBSET Filter]
Cause == {"refused", "cleared", "unheard", "carried"}

VARIABLES client, isConnected,  \* the driver
          entry,                \* subscribedTopicMap
          micro,                \* methods that go on in a microtask
          link, resub,          \* mqtt.js: a client's link, its subscriptions
          out, in,              \* packets to the broker, messages from it
          broker,               \* the subscriptions the broker has of a client
          published, calls,     \* counters
          drift, strayed, due   \* history: see the properties

driverVars  == <<client, isConnected>>
netVars     == <<link, resub, out, in, broker>>
historyVars == <<drift, strayed, due>>
vars == <<driverVars, entry, micro, netVars, published, calls, historyVars>>

Absent == [state |-> "absent", messages |-> <<>>]
Marked(f) == entry[f].state = "subscribed"

DriverTypes ==
  /\ client \in Client \union {0} /\ isConnected \in BOOLEAN
  /\ entry \in [Filter -> [state : State, messages : Seq(Message)]]
  /\ \A f \in Filter : Len(entry[f].messages) <= Limit
  /\ micro \in Seq(Rest)

NetTypes ==
  /\ link \in [Client -> {"none", "opening", "up", "ending", "closed"}]
  /\ resub \in [Client -> SUBSET Filter] /\ broker \in [Client -> SUBSET Filter]
  /\ out \in [Client -> Seq(Packet)] /\ in \in [Client -> Seq(Message)]

HistoryTypes ==
  /\ published \in 0..MaxPublish /\ calls \in 0..MaxCalls
  /\ drift \subseteq Filter \X Cause /\ strayed \in BOOLEAN
  /\ due \in [Filter -> SUBSET (1..MaxPublish)]

TypeOK == DriverTypes /\ NetTypes /\ HistoryTypes

Init ==
  /\ client = 0 /\ isConnected = FALSE
  /\ entry = [f \in Filter |-> Absent]
  /\ micro = <<>>
  /\ link = [c \in Client |-> "none"]
  /\ resub = [c \in Client |-> {}] /\ broker = [c \in Client |-> {}]
  /\ out = [c \in Client |-> <<>>] /\ in = [c \in Client |-> <<>>]
  /\ published = 0 /\ calls = 0
  /\ drift = {} /\ strayed = FALSE
  /\ due = [f \in Filter |-> {}]

-----------------------------------------------------------------------------
(***************************************************************************)
(* Matching                                                                *)
(***************************************************************************)
\* Whether levels up to n match: a "+" matches whatever is there, or nothing.
LevelsMatch(topic, filter, n) ==
  \A i \in 1..n : filter[i] = "+" \/ (i <= Len(topic) /\ filter[i] = topic[i])

\* matchTopic: the first "#" matches the rest.
MatchTopic(topic, filter) ==
  \/ \E i \in DOMAIN filter : filter[i] = "#" /\ LevelsMatch(topic, filter, i - 1)
  \/ Len(topic) = Len(filter) /\ LevelsMatch(topic, filter, Len(filter))

\* What MQTT says: a "+" stands for one level, a "#" at the end for any number.
Matches(topic, filter) ==
  LET n == IF filter[Len(filter)] = "#" THEN Len(filter) - 1 ELSE Len(filter)
  IN  /\ IF n < Len(filter) THEN Len(topic) >= n ELSE Len(topic) = n
      /\ \A i \in 1..n : filter[i] \in {"+", topic[i]}

-----------------------------------------------------------------------------
(***************************************************************************)
(* Methods of the driver                                                   *)
(***************************************************************************)
Called == calls < MaxCalls /\ calls' = calls + 1

\* connect(): initBaseStatus, then connectAsync.
Connect(c) ==
  /\ link[c] = "none" /\ \A b \in Client : b < c => link[b] # "none"
  /\ link' = [link EXCEPT ![c] = "opening"]
  /\ isConnected' = FALSE
  /\ UNCHANGED <<client, entry, micro, resub, out, in, broker, published, calls,
                 historyVars>>

\* connectAsync resolves: the new client and its message handler.
Connected(c) ==
  /\ link[c] = "opening" /\ micro = <<>>
  /\ link' = [link EXCEPT ![c] = "up"]
  /\ client' = c /\ isConnected' = TRUE
  /\ drift' = drift \union {<<f, "carried">> : f \in {g \in Filter : Marked(g)}}
  /\ due' = [f \in Filter |-> {}]
  /\ UNCHANGED <<entry, micro, resub, out, in, broker, published, calls, strayed>>

ConnectFails(c) ==
  /\ link[c] = "opening" /\ micro = <<>>
  /\ link' = [link EXCEPT ![c] = "closed"]
  /\ isConnected' = FALSE
  /\ UNCHANGED <<client, entry, micro, resub, out, in, broker, published, calls,
                 historyVars>>

\* mqtt.js is given a packet; a client that is ending ignores it.
Sent(type, names) ==
  IF link[client] = "up"
  THEN /\ out' = [out EXCEPT ![client] = Append(@, [type |-> type, names |-> names])]
       /\ resub' = [resub EXCEPT ![client] =
            IF type = "subscribe" THEN @ \union names ELSE @ \ names]
       /\ drift' = {d \in drift : d[1] \notin names}
  ELSE /\ drift' = drift \union (IF type = "subscribe" THEN names \X {"unheard"} ELSE {})
       /\ UNCHANGED <<out, resub>>

Subscribe(f) ==
  /\ client # 0 /\ Called
  /\ Sent("subscribe", {f})
  /\ micro' = Append(micro, [after |-> "subscribe", names |-> {f}])
  /\ UNCHANGED <<driverVars, entry, link, in, broker, published, strayed, due>>

\* unsubscribe and unsubscribes.
Unsubscribe(names) ==
  /\ client # 0 /\ Called
  /\ Sent("unsubscribe", names)
  /\ micro' = Append(micro, [after |-> "unsubscribe", names |-> names])
  /\ UNCHANGED <<driverVars, entry, link, in, broker, published, strayed, due>>

ClearPayload(f) ==
  /\ entry[f] # Absent /\ Called
  /\ entry' = [entry EXCEPT ![f] = Absent]
  /\ due' = [due EXCEPT ![f] = {}]
  /\ drift' = IF client # 0 /\ f \in resub[client]
              THEN drift \union {<<f, "cleared">>} ELSE drift
  /\ UNCHANGED <<driverVars, micro, netVars, published, strayed>>

\* disconnect() of a connected driver: closeSub; initBaseStatus comes later.
Disconnect ==
  /\ isConnected /\ Called
  /\ entry' = [f \in Filter |-> Absent]
  /\ due' = [f \in Filter |-> {}]
  /\ IF link[client] = "up"
     THEN /\ link' = [link EXCEPT ![client] = "ending"]
          /\ out' = [out EXCEPT ![client] =
               Append(@, [type |-> "disconnect", names |-> {}])]
          /\ resub' = [resub EXCEPT ![client] = {}]
     ELSE UNCHANGED <<link, out, resub>>
  /\ micro' = Append(micro, [after |-> "disconnect", names |-> {}])
  /\ UNCHANGED <<driverVars, in, broker, published, drift, strayed>>

\* Mutant: unsubscribe leaves the topic marked.
Continued_StaysMarked(after, names) ==
  [f \in Filter |->
    IF f \in names /\ after = "subscribe"
    THEN [state |-> "subscribed", messages |-> <<>>]
    ELSE entry[f]]

\* The entries after the rest of a method.
Continued(after, names) ==
  [f \in Filter |->
    IF f \in names /\ after = "subscribe"
    THEN [state |-> "subscribed", messages |-> <<>>]
    ELSE IF f \in names /\ after = "unsubscribe" /\ entry[f] # Absent
    THEN [entry[f] EXCEPT !.state = "unsubscribed"]
    ELSE entry[f]]

Continue ==
  /\ micro # <<>>
  /\ micro' = Tail(micro)
  /\ entry' = Continued(Head(micro).after, Head(micro).names)
  /\ isConnected' = (isConnected /\ Head(micro).after # "disconnect")
  /\ due' = [f \in Filter |-> IF f \in Head(micro).names THEN {} ELSE due[f]]
  /\ UNCHANGED <<client, netVars, published, calls, drift, strayed>>

-----------------------------------------------------------------------------
(***************************************************************************)
(* The message handler                                                     *)
(***************************************************************************)
\* The first message makes room when there are Limit of them.
Kept(messages, m) ==
  Append(IF Len(messages) >= Limit THEN Tail(messages) ELSE messages, m)

\* Mutant: the newest message comes first.
Recorded_Front(m) ==
  [f \in Filter |->
    IF MatchTopic(m.topic, f) /\ Marked(f)
    THEN [entry[f] EXCEPT !.messages =
            IF Len(@) >= Limit THEN <<m>> \o SubSeq(@, 1, Limit - 1) ELSE <<m>> \o @]
    ELSE entry[f]]

\* Mutant: the handler returns at a topic that does not match.
Recorded_Stops(m) ==
  [f \in Filter |->
    IF /\ MatchTopic(m.topic, f) /\ Marked(f)
       /\ \A g \in Filter : entry[g] # Absent => MatchTopic(m.topic, g)
    THEN [entry[f] EXCEPT !.messages = Kept(@, m)] ELSE entry[f]]

\* A message goes to every marked topic of the map that matches.
Recorded(m) ==
  [f \in Filter |->
    IF MatchTopic(m.topic, f) /\ Marked(f)
    THEN [entry[f] EXCEPT !.messages = Kept(@, m)] ELSE entry[f]]

\* A message of a client, the driver's or one it no longer refers to.
OnMessage(c) ==
  /\ link[c] \in {"up", "ending"} /\ in[c] # <<>> /\ micro = <<>>
  /\ in' = [in EXCEPT ![c] = Tail(@)]
  /\ entry' = Recorded(Head(in[c]))
  /\ strayed' = (strayed \/ (c # client /\ entry' # entry))
  /\ UNCHANGED <<driverVars, micro, link, resub, out, broker, published, calls,
                 drift, due>>

-----------------------------------------------------------------------------
(***************************************************************************)
(* The network and the broker.  What they do while micro is not empty comes *)
(* to the same as what they do after it.                                   *)
(***************************************************************************)
\* The broker takes the next packet; it may refuse a subscription.
BrokerTakes(c) ==
  /\ link[c] \in {"up", "ending"} /\ out[c] # <<>> /\ micro = <<>>
  /\ out' = [out EXCEPT ![c] = Tail(@)]
  /\ LET p == Head(out[c])
     IN  \/ /\ p.type = "subscribe"
            /\ broker' = [broker EXCEPT ![c] = @ \union p.names]
            /\ UNCHANGED <<link, resub, drift>>
         \/ /\ p.type = "subscribe"
            /\ resub' = [resub EXCEPT ![c] = @ \ p.names]
            /\ broker' = [broker EXCEPT ![c] = @ \ p.names]
            /\ drift' = drift \union (p.names \X {"refused"})
            /\ UNCHANGED link
         \/ /\ p.type = "unsubscribe"
            /\ broker' = [broker EXCEPT ![c] = @ \ p.names]
            /\ UNCHANGED <<link, resub, drift>>
         \/ /\ p.type = "disconnect"
            /\ broker' = [broker EXCEPT ![c] = {}]
            /\ UNCHANGED <<link, resub, drift>>
  /\ UNCHANGED <<driverVars, entry, micro, in, published, calls, strayed, due>>

\* A message is published; each client with a matching subscription gets it once.
Publish(t) ==
  LET m == [id |-> published + 1, topic |-> t]
      hits(c) == {f \in broker[c] : Matches(t, f)}
  IN  /\ published < MaxPublish /\ micro = <<>>
      /\ published' = published + 1
      /\ in' = [c \in Client |-> IF hits(c) # {} THEN Append(in[c], m) ELSE in[c]]
      /\ due' = [f \in Filter |->
           IF client # 0 /\ link[client] = "up" /\ Marked(f) /\ f \in hits(client)
           THEN due[f] \union {m.id} ELSE due[f]]
      /\ UNCHANGED <<driverVars, entry, micro, link, resub, out, broker, calls,
                     drift, strayed>>

\* The link is lost and opened again: what was on its way is gone, and mqtt.js
\* subscribes to what it has been asked for.
LinkLost(c) ==
  /\ link[c] = "up" /\ micro = <<>>
  /\ in' = [in EXCEPT ![c] = <<>>]
  /\ out' = [out EXCEPT ![c] = IF resub[c] = {} THEN <<>>
                               ELSE <<[type |-> "subscribe", names |-> resub[c]]>>]
  /\ broker' = [broker EXCEPT ![c] = {}]
  /\ due' = IF c = client THEN [f \in Filter |-> due[f] \ {m.id : m \in
              {in[c][i] : i \in DOMAIN in[c]}}] ELSE due
  /\ UNCHANGED <<driverVars, entry, micro, link, resub, published, calls, drift,
                 strayed>>

\* An ended client closes; what it has not read is gone.
Closed(c) ==
  /\ link[c] = "ending" /\ out[c] = <<>> /\ micro = <<>>
  /\ link' = [link EXCEPT ![c] = "closed"]
  /\ in' = [in EXCEPT ![c] = <<>>]
  /\ UNCHANGED <<driverVars, entry, micro, resub, out, broker, published, calls,
                 historyVars>>

Next ==
  \/ \E c \in Client : \/ Connect(c) \/ Connected(c) \/ ConnectFails(c)
                       \/ OnMessage(c) \/ BrokerTakes(c) \/ LinkLost(c) \/ Closed(c)
  \/ \E f \in Filter : Subscribe(f) \/ ClearPayload(f)
  \/ \E names \in SUBSET Filter \ {{}} : Unsubscribe(names)
  \/ Disconnect \/ Continue
  \/ \E t \in Topic : Publish(t)

Spec == Init /\ [][Next]_vars
-----------------------------------------------------------------------------
(***************************************************************************)
(* Properties                                                              *)
(***************************************************************************)

\* Agree: once what the driver asked for has reached the broker, the topics it
\* shows as subscribed are those the broker has for its client, but for four
\* causes: a refusal, which nothing reports; clearPayload on a subscribed topic;
\* subscribe() on a client that was ended; and entries an earlier connection
\* left in the map.
Asked == micro = <<>> /\ isConnected /\ link[client] = "up" /\ out[client] = <<>>

Agree ==
  Asked => \A f \in Filter :
    \/ Marked(f) <=> f \in broker[client]
    \/ \E w \in Cause : <<f, w>> \in drift

\* InOrder: the messages kept for a topic are in the order they were published
\* in and each is there once, as long as no earlier client has delivered to it.
InOrder ==
  ~strayed => \A f \in Filter :
    LET kept == entry[f].messages
    IN  \A i, k \in DOMAIN kept : i < k => kept[i].id < kept[k].id

\* Complete: on a client that is up, a message the broker sent for a subscribed topic is on its way, kept,
\* or has made room for Limit newer ones, also where subscriptions overlap.
Complete ==
  ~strayed /\ client # 0 /\ link[client] = "up" => \A f \in Filter : \A n \in due[f] :
    \/ \E i \in DOMAIN in[client] : in[client][i].id = n
    \/ \E i \in DOMAIN entry[f].messages : entry[f].messages[i].id = n
    \/ Len(entry[f].messages) = Limit /\ n < entry[f].messages[1].id

\* Filed: a message is kept only for filters it matches, but for those where a
\* "+" stands at a level the topic does not have.
Filed ==
  \A f \in Filter : \A i \in DOMAIN entry[f].messages :
    LET t == entry[f].messages[i].topic
    IN  Matches(t, f) \/ \E k \in DOMAIN f : k > Len(t) /\ f[k] = "+"

\* MessagesKept: on a client that is up, every message of a subscribed topic is
\* kept, and none that its filter does not match, "+" beyond the topic excepted.
MessagesKept == Complete /\ Filed
=============================================================================
