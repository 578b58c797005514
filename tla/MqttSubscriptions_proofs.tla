----------------------- MODULE MqttSubscriptions_proofs -----------------------
(***************************************************************************)
(* Proofs about MqttSubscriptions for any topics, filters, limit and       *)
(* number of connections: matchTopic against what MQTT says a filter       *)
(* matches, typing with the limit of the queues, Filed, the order of what  *)
(* is kept (InOrder), that nothing is missed (Complete) and that the       *)
(* topics shown as subscribed are those of the broker (Agree).             *)
(***************************************************************************)
EXTENDS MqttSubscriptions, TLAPS

\* What the broker sends for a filter is never dropped by matchTopic.
THEOREM MatchComplete ==
  ASSUME NEW t \in Topic, NEW f \in Filter, Matches(t, f)
  PROVE  MatchTopic(t, f)
<1>1. /\ t \in Seq(STRING) /\ f \in Seq(STRING) /\ Len(f) \in Nat \ {0} /\ Len(t) \in Nat
      /\ \A i \in DOMAIN f : f[i] = "#" => i = Len(f)
  BY MqttAssumption
<1>2. CASE f[Len(f)] = "#"
  <2>1. LevelsMatch(t, f, Len(f) - 1)
    BY <1>1, <1>2 DEF Matches, LevelsMatch
  <2> QED BY <1>1, <1>2, <2>1 DEF MatchTopic
<1>3. CASE f[Len(f)] # "#"
  <2>1. Len(t) = Len(f) /\ LevelsMatch(t, f, Len(f))
    BY <1>1, <1>3 DEF Matches, LevelsMatch
  <2> QED BY <2>1 DEF MatchTopic
<1> QED BY <1>2, <1>3

\* matchTopic takes no more than that, but where a "+" stands at a level the
\* topic does not have.
THEOREM MatchSound ==
  ASSUME NEW t \in Topic, NEW f \in Filter, MatchTopic(t, f)
  PROVE  Matches(t, f) \/ \E k \in DOMAIN f : k > Len(t) /\ f[k] = "+"
<1>1. /\ t \in Seq(STRING) /\ f \in Seq(STRING) /\ Len(f) \in Nat \ {0} /\ Len(t) \in Nat
      /\ \A i \in DOMAIN f : f[i] = "#" => i = Len(f)
  BY MqttAssumption
<1>2. CASE f[Len(f)] = "#"
  <2>1. LevelsMatch(t, f, Len(f) - 1)
    BY <1>1, <1>2 DEF MatchTopic, LevelsMatch
  <2>2. CASE Len(t) >= Len(f) - 1
    BY <1>1, <1>2, <2>1, <2>2 DEF Matches, LevelsMatch
  <2>3. CASE Len(t) < Len(f) - 1
    <3>1. Len(f) - 1 \in DOMAIN f /\ Len(f) - 1 > Len(t) /\ f[Len(f) - 1] = "+"
      BY <1>1, <2>1, <2>3 DEF LevelsMatch
    <3> QED BY <3>1
  <2> QED BY <1>1, <2>2, <2>3
<1>3. CASE f[Len(f)] # "#"
  <2>1. Len(t) = Len(f) /\ LevelsMatch(t, f, Len(f))
    BY <1>1, <1>3 DEF MatchTopic
  <2> QED BY <1>1, <1>3, <2>1 DEF Matches, LevelsMatch
<1> QED BY <1>2, <1>3

-----------------------------------------------------------------------------
\* What Kept leaves in a queue.
LEMMA KeptStep ==
  ASSUME NEW q \in Seq(Message), Len(q) <= Limit, NEW m \in Message
  PROVE  /\ Kept(q, m) \in Seq(Message) /\ Len(Kept(q, m)) <= Limit
         /\ \A i \in DOMAIN Kept(q, m) :
              \/ Kept(q, m)[i] = m
              \/ \E k \in DOMAIN q : Kept(q, m)[i] = q[k]
<1> USE MqttAssumption
<1>1. CASE Len(q) >= Limit
  <2>1. q # <<>> /\ Tail(q) \in Seq(Message) /\ Len(Tail(q)) = Len(q) - 1
    BY <1>1
  <2>2. Kept(q, m) = Append(Tail(q), m)
    BY <1>1 DEF Kept
  <2>3. Kept(q, m) \in Seq(Message) /\ Len(Kept(q, m)) = Len(q)
    BY <2>1, <2>2
  <2>4. ASSUME NEW i \in DOMAIN Kept(q, m)
        PROVE  Kept(q, m)[i] = m \/ \E k \in DOMAIN q : Kept(q, m)[i] = q[k]
    <3>1. i \in 1..Len(q) /\ Len(q) \in Nat
      BY <2>3
    <3>2. CASE i = Len(q)
      BY <2>1, <2>2, <3>2
    <3>3. CASE i # Len(q)
      <4>1. Kept(q, m)[i] = Tail(q)[i] /\ Tail(q)[i] = q[i + 1] /\ i + 1 \in DOMAIN q
        BY <2>1, <2>2, <3>1, <3>3
      <4> QED BY <4>1
    <3> QED BY <3>2, <3>3
  <2> QED BY <2>3, <2>4
<1>2. CASE Len(q) < Limit
  <2>1. Kept(q, m) = Append(q, m)
    BY <1>2 DEF Kept
  <2> QED BY <1>2, <2>1
<1> QED BY <1>1, <1>2

LEMMA SentStep ==
  ASSUME TypeOK, client # 0, NEW type \in {"subscribe", "unsubscribe"},
         NEW names \in SUBSET Filter, Sent(type, names)
  PROVE  /\ out' \in [Client -> Seq(Packet)]
         /\ resub' \in [Client -> SUBSET Filter]
         /\ drift' \subseteq Filter \X Cause
<1> USE DEF TypeOK, DriverTypes, NetTypes, HistoryTypes
<1>1. CASE link[client] = "up"
  <2>1. [type |-> type, names |-> names] \in Packet
    BY DEF Packet
  <2>2. client \in Client
    OBVIOUS
  <2>3. out' \in [Client -> Seq(Packet)]
    <3>1. Append(out[client], [type |-> type, names |-> names]) \in Seq(Packet)
      BY <2>1, <2>2
    <3>2. out' = [out EXCEPT ![client] = Append(out[client], [type |-> type, names |-> names])]
      BY <1>1 DEF Sent
    <3> QED BY <3>1, <3>2
  <2>4. resub' \in [Client -> SUBSET Filter]
    <3>1. PICK s \in SUBSET Filter : resub' = [resub EXCEPT ![client] = s]
      <4>1. resub[client] \union names \in SUBSET Filter /\ resub[client] \ names \in SUBSET Filter
        BY <2>2
      <4>2. \/ resub' = [resub EXCEPT ![client] = resub[client] \union names]
            \/ resub' = [resub EXCEPT ![client] = resub[client] \ names]
        BY <1>1 DEF Sent
      <4> QED BY <4>1, <4>2
    <3> QED BY <3>1
  <2>5. drift' \subseteq Filter \X Cause
    BY <1>1 DEF Sent
  <2> QED BY <2>3, <2>4, <2>5
<1>2. CASE link[client] # "up"
  <2>1. names \X {"unheard"} \subseteq Filter \X Cause
    BY DEF Cause
  <2> QED BY <1>2, <2>1 DEF Sent
<1> QED BY <1>1, <1>2

LEMMA Typing == TypeOK /\ [Next]_vars => TypeOK'
<1> SUFFICES ASSUME TypeOK, [Next]_vars PROVE TypeOK'
  OBVIOUS
<1> USE MqttAssumption DEF TypeOK, DriverTypes, NetTypes, HistoryTypes, driverVars, netVars,
        historyVars, Called
<1>0. Absent \in [state : State, messages : Seq(Message)] /\ Len(Absent.messages) <= Limit
  BY DEF Absent, State
<1>1. ASSUME NEW c \in Client, Connect(c) PROVE TypeOK'
  <2>1. DriverTypes'
    BY <1>1 DEF Connect
  <2>2. NetTypes'
    BY <1>1 DEF Connect
  <2>3. HistoryTypes'
    BY <1>1 DEF Connect
  <2> QED BY <2>1, <2>2, <2>3
<1>2. ASSUME NEW c \in Client, Connected(c) PROVE TypeOK'
  <2>1. {<<f, "carried">> : f \in {g \in Filter : Marked(g)}} \subseteq Filter \X Cause
    BY DEF Cause
  <2>2. DriverTypes'
    BY <1>2, <2>1 DEF Connected
  <2>3. NetTypes'
    BY <1>2, <2>1 DEF Connected
  <2>4. HistoryTypes'
    BY <1>2, <2>1 DEF Connected
  <2> QED BY <2>2, <2>3, <2>4
<1>3. ASSUME NEW c \in Client, ConnectFails(c) PROVE TypeOK'
  <2>1. DriverTypes'
    BY <1>3 DEF ConnectFails
  <2>2. NetTypes'
    BY <1>3 DEF ConnectFails
  <2>3. HistoryTypes'
    BY <1>3 DEF ConnectFails
  <2> QED BY <2>1, <2>2, <2>3
<1>4. ASSUME NEW c \in Client, OnMessage(c) PROVE TypeOK'
  <2>1. Head(in[c]) \in Message
    BY <1>4 DEF OnMessage
  <2>2. entry' = Recorded(Head(in[c]))
    BY <1>4 DEF OnMessage
  <2>3. ASSUME NEW f \in Filter
        PROVE  /\ Recorded(Head(in[c]))[f] \in [state : State, messages : Seq(Message)]
               /\ Len(Recorded(Head(in[c]))[f].messages) <= Limit
    <3>1. entry[f] \in [state : State, messages : Seq(Message)]
      OBVIOUS
    <3>2. /\ Kept(entry[f].messages, Head(in[c])) \in Seq(Message)
          /\ Len(Kept(entry[f].messages, Head(in[c]))) <= Limit
      BY <2>1, <3>1, KeptStep
    <3> QED BY <3>1, <3>2 DEF Recorded
  <2>4. Recorded(Head(in[c])) \in [Filter -> [state : State, messages : Seq(Message)]]
    BY <2>3 DEF Recorded
  <2>5. strayed' \in BOOLEAN
    BY <1>4, Zenon DEF OnMessage
  <2>6. DriverTypes'
    BY <1>4, <2>2, <2>3, <2>4 DEF OnMessage
  <2>7. NetTypes'
    BY <1>4 DEF OnMessage
  <2>8. HistoryTypes'
    BY <1>4, <2>5 DEF OnMessage
  <2> QED BY <2>6, <2>7, <2>8
<1>5. ASSUME NEW c \in Client, BrokerTakes(c) PROVE TypeOK'
  <2>1. Head(out[c]) \in Packet
    BY <1>5 DEF BrokerTakes
  <2>2. Head(out[c]).names \in SUBSET Filter
    BY <2>1 DEF Packet
  <2>3. Head(out[c]).names \X {"refused"} \subseteq Filter \X Cause
    BY <2>2 DEF Cause
  <2>4. DriverTypes'
    BY <1>5, <2>2, <2>3 DEF BrokerTakes
  <2>5. NetTypes'
    <3>1. out' \in [Client -> Seq(Packet)]
      BY <1>5 DEF BrokerTakes
    <3>2. broker' \in [Client -> SUBSET Filter]
      <4>1. \E s \in SUBSET Filter : broker' = [broker EXCEPT ![c] = s]
        <5>1. \A n \in SUBSET Filter :
                broker[c] \union n \in SUBSET Filter /\ broker[c] \ n \in SUBSET Filter
          OBVIOUS
        <5> QED BY <1>5, <2>2, <5>1 DEF BrokerTakes
      <4> QED BY <4>1
    <3>3. resub' \in [Client -> SUBSET Filter]
      <4>1. \E s \in SUBSET Filter : resub' = [resub EXCEPT ![c] = s] \/ resub' = resub
        BY <1>5, <2>2 DEF BrokerTakes
      <4> QED BY <4>1
    <3>4. link' = link /\ in' = in
      BY <1>5 DEF BrokerTakes
    <3> QED BY <3>1, <3>2, <3>3, <3>4
  <2>6. HistoryTypes'
    BY <1>5, <2>2, <2>3 DEF BrokerTakes
  <2> QED BY <2>4, <2>5, <2>6
<1>6. ASSUME NEW c \in Client, LinkLost(c) PROVE TypeOK'
  <2>1. [type |-> "subscribe", names |-> resub[c]] \in Packet
    BY DEF Packet
  <2>2. due' \in [Filter -> SUBSET (1..MaxPublish)]
    BY <1>6 DEF LinkLost
  <2>3. DriverTypes'
    BY <1>6, <2>1, <2>2 DEF LinkLost
  <2>4. NetTypes'
    BY <1>6, <2>1, <2>2 DEF LinkLost
  <2>5. HistoryTypes'
    BY <1>6, <2>1, <2>2 DEF LinkLost
  <2> QED BY <2>3, <2>4, <2>5
<1>7. ASSUME NEW c \in Client, Closed(c) PROVE TypeOK'
  <2>1. DriverTypes'
    BY <1>7 DEF Closed
  <2>2. NetTypes'
    BY <1>7 DEF Closed
  <2>3. HistoryTypes'
    BY <1>7 DEF Closed
  <2> QED BY <2>1, <2>2, <2>3
<1>8. ASSUME NEW f \in Filter, Subscribe(f) PROVE TypeOK'
  <2>1. [after |-> "subscribe", names |-> {f}] \in Rest
    BY DEF Rest
  <2>2. /\ out' \in [Client -> Seq(Packet)] /\ resub' \in [Client -> SUBSET Filter]
        /\ drift' \subseteq Filter \X Cause
    BY <1>8, SentStep DEF Subscribe
  <2>3. DriverTypes'
    BY <1>8, <2>1, <2>2 DEF Subscribe
  <2>4. NetTypes'
    BY <1>8, <2>1, <2>2 DEF Subscribe
  <2>5. HistoryTypes'
    BY <1>8, <2>1, <2>2 DEF Subscribe
  <2> QED BY <2>3, <2>4, <2>5
<1>9. ASSUME NEW names \in SUBSET Filter, Unsubscribe(names) PROVE TypeOK'
  <2>1. [after |-> "unsubscribe", names |-> names] \in Rest
    BY DEF Rest
  <2>2. /\ out' \in [Client -> Seq(Packet)] /\ resub' \in [Client -> SUBSET Filter]
        /\ drift' \subseteq Filter \X Cause
    BY <1>9, SentStep DEF Unsubscribe
  <2>3. DriverTypes'
    BY <1>9, <2>1, <2>2 DEF Unsubscribe
  <2>4. NetTypes'
    BY <1>9, <2>1, <2>2 DEF Unsubscribe
  <2>5. HistoryTypes'
    BY <1>9, <2>1, <2>2 DEF Unsubscribe
  <2> QED BY <2>3, <2>4, <2>5
<1>10. ASSUME NEW f \in Filter, ClearPayload(f) PROVE TypeOK'
  <2>1. drift \union {<<f, "cleared">>} \subseteq Filter \X Cause
    BY DEF Cause
  <2>2. DriverTypes'
    BY <1>0, <1>10, <2>1 DEF ClearPayload
  <2>3. NetTypes'
    BY <1>0, <1>10, <2>1 DEF ClearPayload
  <2>4. HistoryTypes'
    BY <1>0, <1>10, <2>1 DEF ClearPayload
  <2> QED BY <2>2, <2>3, <2>4
<1>11. CASE Disconnect
  <2>1. /\ [after |-> "disconnect", names |-> {}] \in Rest
        /\ [type |-> "disconnect", names |-> {}] \in Packet
    BY DEF Rest, Packet
  <2>2. DriverTypes'
    BY <1>0, <1>11, <2>1 DEF Disconnect
  <2>3. NetTypes'
    <3>1. CASE link[client] = "up" /\ client \in Client
      <4>1. Append(out[client], [type |-> "disconnect", names |-> {}]) \in Seq(Packet)
        BY <2>1, <3>1
      <4>2. /\ out' = [out EXCEPT ![client] =
                  Append(out[client], [type |-> "disconnect", names |-> {}])]
            /\ link' = [link EXCEPT ![client] = "ending"]
            /\ resub' = [resub EXCEPT ![client] = {}]
            /\ in' = in /\ broker' = broker
        BY <1>11, <3>1 DEF Disconnect
      <4>3. out' \in [Client -> Seq(Packet)]
        BY <4>1, <4>2
      <4>4. resub' \in [Client -> SUBSET Filter]
        BY <4>2
      <4> QED BY <4>2, <4>3, <4>4
    <3>2. CASE link[client] = "up" /\ client \notin Client
      <4>1. /\ link' = [link EXCEPT ![client] = "ending"]
            /\ resub' = [resub EXCEPT ![client] = {}]
            /\ in' = in /\ broker' = broker
        BY <1>11, <3>2 DEF Disconnect
      <4>2. link' \in [Client -> {"none", "opening", "up", "ending", "closed"}]
        BY <4>1
      <4>3. resub' \in [Client -> SUBSET Filter]
        BY <4>1
      <4>4. \A x : [out EXCEPT ![client] = x] = out
        BY <3>2
      <4>5. out' = out
        BY <1>11, <3>2, <4>4 DEF Disconnect
      <4> QED BY <4>1, <4>2, <4>3, <4>5
    <3>3. CASE link[client] # "up"
      BY <1>11, <3>3 DEF Disconnect
    <3> QED BY <3>1, <3>2, <3>3
  <2>4. HistoryTypes'
    BY <1>0, <1>11, <2>1 DEF Disconnect
  <2> QED BY <2>2, <2>3, <2>4
<1>12. CASE Continue
  <2>1. Head(micro) \in Rest /\ Tail(micro) \in Seq(Rest)
    BY <1>12 DEF Continue
  <2>2. ASSUME NEW f \in Filter
        PROVE  /\ Continued(Head(micro).after, Head(micro).names)[f]
                    \in [state : State, messages : Seq(Message)]
               /\ Len(Continued(Head(micro).after, Head(micro).names)[f].messages) <= Limit
    <3>1. entry[f] \in [state : State, messages : Seq(Message)]
      OBVIOUS
    <3>2. [state |-> "subscribed", messages |-> <<>>] \in [state : State, messages : Seq(Message)]
      BY DEF State
    <3>3. [entry[f] EXCEPT !.state = "unsubscribed"] \in [state : State, messages : Seq(Message)]
      BY <3>1 DEF State
    <3>4. [entry[f] EXCEPT !.state = "unsubscribed"].messages = entry[f].messages
      BY <3>1
    <3> QED BY <3>1, <3>2, <3>3, <3>4 DEF Continued
  <2>3. Continued(Head(micro).after, Head(micro).names)
          \in [Filter -> [state : State, messages : Seq(Message)]]
    BY <2>2 DEF Continued
  <2>4. isConnected' \in BOOLEAN
    BY <1>12, Zenon DEF Continue
  <2>5. due' \in [Filter -> SUBSET (1..MaxPublish)]
    BY <1>12 DEF Continue
  <2>6. DriverTypes'
    BY <1>12, <2>1, <2>2, <2>3, <2>4, <2>5 DEF Continue
  <2>7. NetTypes'
    BY <1>12, <2>1, <2>2, <2>3, <2>4, <2>5 DEF Continue
  <2>8. HistoryTypes'
    BY <1>12, <2>1, <2>2, <2>3, <2>4, <2>5 DEF Continue
  <2> QED BY <2>6, <2>7, <2>8
<1>13. ASSUME NEW t \in Topic, Publish(t) PROVE TypeOK'
  <2>1. published + 1 \in 1..MaxPublish /\ published' = published + 1
    BY <1>13 DEF Publish
  <2>2. [id |-> published + 1, topic |-> t] \in Message
    BY <2>1 DEF Message
  <2>3. in' \in [Client -> Seq(Message)]
    BY <1>13, <2>2 DEF Publish
  <2>4. due' \in [Filter -> SUBSET (1..MaxPublish)]
    BY <1>13, <2>1 DEF Publish
  <2>5. DriverTypes'
    BY <1>13, <2>1, <2>3, <2>4 DEF Publish
  <2>6. NetTypes'
    BY <1>13, <2>1, <2>3, <2>4 DEF Publish
  <2>7. HistoryTypes'
    BY <1>13, <2>1, <2>3, <2>4 DEF Publish
  <2> QED BY <2>5, <2>6, <2>7
<1>14. CASE UNCHANGED vars
  <2>1. DriverTypes'
    BY <1>14 DEF vars
  <2>2. NetTypes'
    BY <1>14 DEF vars
  <2>3. HistoryTypes'
    BY <1>14 DEF vars
  <2> QED BY <2>1, <2>2, <2>3
<1> QED BY <1>1, <1>2, <1>3, <1>4, <1>5, <1>6, <1>7, <1>8, <1>9, <1>10, <1>11, <1>12, <1>13, <1>14 DEF Next

LEMMA InitTyped == Init => TypeOK
<1> SUFFICES ASSUME Init PROVE TypeOK
  OBVIOUS
<1> USE MqttAssumption DEF Init
<1>1. Absent \in [state : State, messages : Seq(Message)] /\ Len(Absent.messages) <= Limit
  BY DEF Absent, State
<1>2. DriverTypes
  <2>1. isConnected \in BOOLEAN
    BY Zenon
  <2>2. client \in Client \union {0} /\ micro \in Seq(Rest)
    OBVIOUS
  <2> QED BY <1>1, <2>1, <2>2 DEF DriverTypes
<1>3. NetTypes
  BY DEF NetTypes
<1>4. HistoryTypes
  <2>1. published \in 0..MaxPublish /\ calls \in 0..MaxCalls
    OBVIOUS
  <2>2. drift \subseteq Filter \X Cause /\ due \in [Filter -> SUBSET (1..MaxPublish)]
    OBVIOUS
  <2>3. strayed \in BOOLEAN
    BY Zenon
  <2> QED BY <2>1, <2>2, <2>3 DEF HistoryTypes
<1> QED BY <1>2, <1>3, <1>4 DEF TypeOK

\* Every value keeps its type, and no queue holds more than Limit messages.
THEOREM TypeCorrect == Spec => []TypeOK
<1> QED BY InitTyped, Typing, PTL DEF Spec

-----------------------------------------------------------------------------
\* A message is kept only where matchTopic took it.
Taken ==
  \A f \in Filter : \A i \in DOMAIN entry[f].messages :
    MatchTopic(entry[f].messages[i].topic, f)

LEMMA TakenStep == TypeOK /\ Taken /\ [Next]_vars => Taken'
<1> SUFFICES ASSUME TypeOK, Taken, [Next]_vars,
                    NEW f \in Filter, NEW i \in DOMAIN entry'[f].messages
             PROVE  MatchTopic(entry'[f].messages[i].topic, f)
  BY DEF Taken
<1> USE DEF TypeOK, DriverTypes, Taken
<1>1. ASSUME entry' = entry PROVE MatchTopic(entry'[f].messages[i].topic, f)
  BY <1>1
<1>2. ASSUME NEW c \in Client, OnMessage(c)
      PROVE  MatchTopic(entry'[f].messages[i].topic, f)
  <2>1. entry' = Recorded(Head(in[c])) /\ Head(in[c]) \in Message
    BY <1>2 DEF OnMessage, NetTypes
  <2>2. CASE MatchTopic(Head(in[c]).topic, f) /\ Marked(f)
    <3>1. entry[f] \in [state : State, messages : Seq(Message)]
      OBVIOUS
    <3>2. entry'[f].messages = Kept(entry[f].messages, Head(in[c]))
      BY <2>1, <2>2, <3>1 DEF Recorded
    <3>3. \/ entry'[f].messages[i] = Head(in[c])
          \/ \E k \in DOMAIN entry[f].messages : entry'[f].messages[i] = entry[f].messages[k]
      BY <2>1, <3>1, <3>2, KeptStep
    <3> QED BY <2>2, <3>3
  <2>3. CASE ~(MatchTopic(Head(in[c]).topic, f) /\ Marked(f))
    <3>1. entry'[f] = entry[f]
      BY <2>1, <2>3 DEF Recorded
    <3> QED BY <3>1
  <2> QED BY <2>2, <2>3
<1>3. ASSUME NEW g \in Filter, ClearPayload(g)
      PROVE  MatchTopic(entry'[f].messages[i].topic, f)
  <2>1. entry'[f] \in {entry[f], Absent}
    BY <1>3 DEF ClearPayload
  <2> QED BY <2>1 DEF Absent
<1>4. CASE Disconnect
  <2>1. entry'[f] = Absent
    BY <1>4 DEF Disconnect
  <2> QED BY <2>1 DEF Absent
<1>5. CASE Continue
  <2>1. entry[f] \in [state : State, messages : Seq(Message)]
    OBVIOUS
  <2>2. entry'[f].messages \in {entry[f].messages, <<>>}
    BY <1>5, <2>1 DEF Continue, Continued
  <2> QED BY <2>2
<1>6. ASSUME NEW c \in Client,
             Connect(c) \/ Connected(c) \/ ConnectFails(c) \/ BrokerTakes(c) \/ LinkLost(c)
               \/ Closed(c)
      PROVE  entry' = entry
  BY <1>6 DEF Connect, Connected, ConnectFails, BrokerTakes, LinkLost, Closed
<1>7. ASSUME NEW g \in Filter, Subscribe(g) PROVE entry' = entry
  BY <1>7 DEF Subscribe
<1>8. ASSUME NEW names \in SUBSET Filter, Unsubscribe(names) PROVE entry' = entry
  BY <1>8 DEF Unsubscribe
<1>9. ASSUME NEW t \in Topic, Publish(t) PROVE entry' = entry
  BY <1>9 DEF Publish
<1>10. CASE UNCHANGED vars
  BY <1>1, <1>10 DEF vars
<1> QED BY <1>1, <1>2, <1>3, <1>4, <1>5, <1>6, <1>7, <1>8, <1>9, <1>10 DEF Next

\* Filed for any topics and filters: the messages kept for a filter match it,
\* but where a "+" stands at a level the topic does not have.
THEOREM KeptWhereMatched == Spec => []Filed
<1>1. Init => Taken
  BY DEF Init, Taken, Absent
<1>2. TypeOK /\ Taken => Filed
  <2> SUFFICES ASSUME TypeOK, Taken, NEW f \in Filter, NEW i \in DOMAIN entry[f].messages
               PROVE  \/ Matches(entry[f].messages[i].topic, f)
                      \/ \E k \in DOMAIN f : k > Len(entry[f].messages[i].topic) /\ f[k] = "+"
    BY DEF Filed
  <2>1. entry[f].messages[i].topic \in Topic
    <3>1. entry[f].messages \in Seq(Message)
      BY DEF TypeOK, DriverTypes
    <3>2. entry[f].messages[i] \in Message
      BY <3>1
    <3> QED BY <3>2 DEF Message
  <2>2. MatchTopic(entry[f].messages[i].topic, f)
    BY DEF Taken
  <2> QED BY <2>1, <2>2, MatchSound
<1> QED BY <1>1, <1>2, InitTyped, Typing, TakenStep, PTL DEF Spec

-----------------------------------------------------------------------------
(***************************************************************************)
(* The order of what is kept                                               *)
(***************************************************************************)
\* A client that has not connected yet has heard nothing and was told nothing.
Fresh ==
  \A c \in Client : link[c] \in {"none", "opening"} =>
    /\ c # client
    /\ in[c] = <<>> /\ out[c] = <<>> /\ broker[c] = {} /\ resub[c] = {}

\* Messages are numbered as they are published, and arrive in that order.
Rising(q) == \A i, k \in DOMAIN q : i < k => q[i].id < q[k].id
UpTo(q, n) == \A i \in DOMAIN q : q[i].id <= n

Numbered ==
  /\ \A c \in Client : Rising(in[c]) /\ UpTo(in[c], published)
  /\ \A f \in Filter : UpTo(entry[f].messages, published)

\* What is kept was published before what is yet to come.
Before(q, r) == \A i \in DOMAIN q : \A k \in DOMAIN r : q[i].id < r[k].id

Sorted ==
  ~strayed => \A f \in Filter :
    /\ Rising(entry[f].messages)
    /\ client # 0 => Before(entry[f].messages, in[client])

LEMMA FreshStep == TypeOK /\ Fresh /\ [Next]_vars => Fresh'
<1> SUFFICES ASSUME TypeOK, Fresh, [Next]_vars, NEW d \in Client,
                    link'[d] \in {"none", "opening"}
             PROVE  /\ d # client'
                    /\ in'[d] = <<>> /\ out'[d] = <<>> /\ broker'[d] = {} /\ resub'[d] = {}
  BY DEF Fresh
<1> USE DEF TypeOK, NetTypes, Fresh, netVars, driverVars, historyVars
<1>1. ASSUME NEW c \in Client, Connect(c) \/ ConnectFails(c) \/ Closed(c)
      PROVE  /\ d # client'
             /\ in'[d] = <<>> /\ out'[d] = <<>> /\ broker'[d] = {} /\ resub'[d] = {}
  BY <1>1 DEF Connect, ConnectFails, Closed
<1>2. ASSUME NEW c \in Client, Connected(c)
      PROVE  /\ d # client'
             /\ in'[d] = <<>> /\ out'[d] = <<>> /\ broker'[d] = {} /\ resub'[d] = {}
  BY <1>2 DEF Connected
<1>3. ASSUME NEW c \in Client, OnMessage(c) \/ BrokerTakes(c) \/ LinkLost(c)
      PROVE  /\ d # client'
             /\ in'[d] = <<>> /\ out'[d] = <<>> /\ broker'[d] = {} /\ resub'[d] = {}
  <2>1. link' = link /\ client' = client /\ link[c] \notin {"none", "opening"} /\ d # c
    BY <1>3 DEF OnMessage, BrokerTakes, LinkLost
  <2>2. in'[d] = in[d] /\ out'[d] = out[d] /\ broker'[d] = broker[d] /\ resub'[d] = resub[d]
    BY <1>3, <2>1 DEF OnMessage, BrokerTakes, LinkLost
  <2> QED BY <2>1, <2>2
<1>4. ASSUME NEW f \in Filter, Subscribe(f) \/ ClearPayload(f)
      PROVE  /\ d # client'
             /\ in'[d] = <<>> /\ out'[d] = <<>> /\ broker'[d] = {} /\ resub'[d] = {}
  BY <1>4 DEF Subscribe, ClearPayload, Sent
<1>5. ASSUME NEW names \in SUBSET Filter, Unsubscribe(names)
      PROVE  /\ d # client'
             /\ in'[d] = <<>> /\ out'[d] = <<>> /\ broker'[d] = {} /\ resub'[d] = {}
  BY <1>5 DEF Unsubscribe, Sent
<1>6. CASE Disconnect
  BY <1>6 DEF Disconnect
<1>7. CASE Continue
  BY <1>7 DEF Continue
<1>8. ASSUME NEW t \in Topic, Publish(t)
      PROVE  /\ d # client'
             /\ in'[d] = <<>> /\ out'[d] = <<>> /\ broker'[d] = {} /\ resub'[d] = {}
  BY <1>8 DEF Publish
<1>9. CASE UNCHANGED vars
  BY <1>9 DEF vars
<1> QED BY <1>1, <1>2, <1>3, <1>4, <1>5, <1>6, <1>7, <1>8, <1>9 DEF Next

\* Appending a newer message, and taking the first, keep the order.
LEMMA RisingAppend ==
  ASSUME NEW q \in Seq(Message), NEW m \in Message, Rising(q), UpTo(q, m.id - 1)
  PROVE  Rising(Append(q, m)) /\ UpTo(Append(q, m), m.id)
<1>1. \A x \in Message : x.id \in Nat
  BY MqttAssumption DEF Message
<1>2. m.id \in Nat /\ \A i \in DOMAIN q : q[i] \in Message /\ q[i].id \in Nat
  BY <1>1
<1> QED BY <1>2 DEF Rising, UpTo

LEMMA RisingTail ==
  ASSUME NEW q \in Seq(Message), q # <<>>, Rising(q)
  PROVE  /\ Rising(Tail(q)) /\ Head(q) \in Message /\ Tail(q) \in Seq(Message)
         /\ \A i \in DOMAIN Tail(q) : Head(q).id < Tail(q)[i].id /\ Tail(q)[i] = q[i + 1]
BY DEF Rising

LEMMA KeptRises ==
  ASSUME NEW q \in Seq(Message), Len(q) <= Limit, NEW m \in Message, Rising(q),
         UpTo(q, m.id - 1)
  PROVE  Rising(Kept(q, m))
<1> USE MqttAssumption
<1>1. CASE Len(q) >= Limit
  <2>1. q # <<>>
    BY <1>1
  <2>2. Tail(q) \in Seq(Message) /\ Rising(Tail(q)) /\ UpTo(Tail(q), m.id - 1)
    BY <2>1, RisingTail DEF UpTo
  <2>3. Kept(q, m) = Append(Tail(q), m)
    BY <1>1 DEF Kept
  <2> QED BY <2>2, <2>3, RisingAppend
<1>2. CASE Len(q) < Limit
  <2>1. Kept(q, m) = Append(q, m)
    BY <1>2 DEF Kept
  <2> QED BY <2>1, RisingAppend
<1> QED BY <1>1, <1>2

LEMMA Records ==
  ASSUME TypeOK, NEW c \in Client, OnMessage(c), NEW f \in Filter
  PROVE  /\ in[c] \in Seq(Message) /\ in[c] # <<>> /\ Head(in[c]) \in Message
         /\ entry[f].messages \in Seq(Message) /\ Len(entry[f].messages) <= Limit
         /\ \/ entry'[f] = entry[f]
            \/ entry'[f].messages = Kept(entry[f].messages, Head(in[c]))
         /\ Marked(f) /\ MatchTopic(Head(in[c]).topic, f)
              => entry'[f].messages = Kept(entry[f].messages, Head(in[c]))
         /\ entry'[f].state = entry[f].state
<1> USE DEF TypeOK, DriverTypes, NetTypes
<1>1. in[c] \in Seq(Message) /\ in[c] # <<>>
  BY DEF OnMessage
<1>2. Head(in[c]) \in Message
  BY <1>1
<1>3. entry[f] \in [state : State, messages : Seq(Message)] /\ Len(entry[f].messages) <= Limit
  OBVIOUS
<1>4. entry' = Recorded(Head(in[c]))
  BY DEF OnMessage
<1>5. CASE MatchTopic(Head(in[c]).topic, f) /\ Marked(f)
  <2>1. entry'[f] = [entry[f] EXCEPT !.messages = Kept(entry[f].messages, Head(in[c]))]
    BY <1>4, <1>5 DEF Recorded
  <2> QED BY <1>1, <1>2, <1>3, <2>1
<1>6. CASE ~(MatchTopic(Head(in[c]).topic, f) /\ Marked(f))
  <2>1. entry'[f] = entry[f]
    BY <1>4, <1>6 DEF Recorded
  <2> QED BY <1>1, <1>2, <1>3, <1>6, <2>1
<1> QED BY <1>5, <1>6

LEMMA NumberedStep == TypeOK /\ Fresh /\ Numbered /\ [Next]_vars => Numbered'
<1> SUFFICES ASSUME TypeOK, Fresh, Numbered, [Next]_vars PROVE Numbered'
  OBVIOUS
<1> USE MqttAssumption DEF TypeOK, DriverTypes, NetTypes, HistoryTypes, driverVars, netVars,
        historyVars
<1>0. /\ published \in Nat /\ \A x \in Message : x.id \in Nat
      /\ \A c \in Client : in[c] \in Seq(Message)
      /\ \A f \in Filter : entry[f].messages \in Seq(Message)
  <2>1. \A x \in Message : x.id \in Nat
    BY DEF Message
  <2>2. \A f \in Filter : entry[f] \in [state : State, messages : Seq(Message)]
    OBVIOUS
  <2> QED BY <2>1, <2>2
<1>e. \A n : Rising(<<>>) /\ UpTo(<<>>, n)
  BY DEF Rising, UpTo
<1>a. ASSUME entry' = entry, published' = published,
             \A c \in Client : in'[c] \in {in[c], <<>>}
      PROVE  Numbered'
  <2>1. ASSUME NEW c \in Client PROVE Rising(in'[c]) /\ UpTo(in'[c], published)
    <3>1. Rising(in[c]) /\ UpTo(in[c], published)
      BY DEF Numbered
    <3>2. CASE in'[c] = in[c]
      BY <3>1, <3>2
    <3>3. CASE in'[c] = <<>>
      BY <1>e, <3>3
    <3> QED BY <1>a, <3>2, <3>3
  <2>2. \A f \in Filter : UpTo(entry[f].messages, published)
    BY DEF Numbered
  <2> QED BY <1>a, <2>1, <2>2 DEF Numbered
<1>b. ASSUME in' = in, published' = published,
             \A f \in Filter : entry'[f].messages \in {entry[f].messages, <<>>}
      PROVE  Numbered'
  <2>1. ASSUME NEW f \in Filter PROVE UpTo(entry'[f].messages, published)
    <3>1. UpTo(entry[f].messages, published)
      BY DEF Numbered
    <3>2. CASE entry'[f].messages = entry[f].messages
      BY <3>1, <3>2
    <3>3. CASE entry'[f].messages = <<>>
      BY <1>e, <3>3
    <3> QED BY <1>b, <3>2, <3>3
  <2>2. \A c \in Client : Rising(in[c]) /\ UpTo(in[c], published)
    BY DEF Numbered
  <2> QED BY <1>b, <2>1, <2>2 DEF Numbered
<1>1. ASSUME NEW c \in Client, Connect(c) \/ Connected(c) \/ ConnectFails(c) \/ BrokerTakes(c)
      PROVE  Numbered'
  BY <1>a, <1>1 DEF Connect, Connected, ConnectFails, BrokerTakes
<1>2. ASSUME NEW c \in Client, LinkLost(c) \/ Closed(c) PROVE Numbered'
  BY <1>a, <1>2 DEF LinkLost, Closed
<1>3. ASSUME NEW c \in Client, OnMessage(c) PROVE Numbered'
  <2>1. /\ in[c] # <<>> /\ in' = [in EXCEPT ![c] = Tail(in[c])] /\ published' = published
    BY <1>3 DEF OnMessage
  <2>2. Rising(Tail(in[c])) /\ UpTo(Tail(in[c]), published)
    <3>1. Rising(in[c]) /\ UpTo(in[c], published)
      BY DEF Numbered
    <3> QED BY <1>0, <2>1, <3>1, RisingTail DEF UpTo
  <2>3. \A d \in Client : Rising(in'[d]) /\ UpTo(in'[d], published)
    BY <2>1, <2>2 DEF Numbered
  <2>4. ASSUME NEW f \in Filter PROVE UpTo(entry'[f].messages, published)
    <3>1. UpTo(entry[f].messages, published) /\ Head(in[c]).id <= published
      BY <1>0, <2>1 DEF Numbered, UpTo
    <3>2. CASE entry'[f] = entry[f]
      BY <3>1, <3>2
    <3>3. CASE entry'[f].messages = Kept(entry[f].messages, Head(in[c]))
      <4>1. \A i \in DOMAIN Kept(entry[f].messages, Head(in[c])) :
              \/ Kept(entry[f].messages, Head(in[c]))[i] = Head(in[c])
              \/ \E k \in DOMAIN entry[f].messages :
                   Kept(entry[f].messages, Head(in[c]))[i] = entry[f].messages[k]
        <5>1. /\ Head(in[c]) \in Message /\ entry[f].messages \in Seq(Message)
              /\ Len(entry[f].messages) <= Limit
          BY <1>3, Records
        <5> QED BY <5>1, KeptStep
      <4> QED BY <3>1, <3>3, <4>1 DEF UpTo
    <3> QED BY <1>3, <3>2, <3>3, Records
  <2> QED BY <2>1, <2>3, <2>4 DEF Numbered
<1>4. ASSUME NEW f \in Filter, Subscribe(f) PROVE Numbered'
  BY <1>a, <1>4 DEF Subscribe
<1>5. ASSUME NEW f \in Filter, ClearPayload(f) PROVE Numbered'
  BY <1>b, <1>5 DEF ClearPayload, Absent
<1>6. ASSUME NEW names \in SUBSET Filter, Unsubscribe(names) PROVE Numbered'
  BY <1>a, <1>6 DEF Unsubscribe
<1>7. CASE Disconnect
  BY <1>b, <1>7 DEF Disconnect, Absent
<1>8. CASE Continue
  <2>1. \A f \in Filter : entry[f] \in [state : State, messages : Seq(Message)]
    OBVIOUS
  <2>2. \A f \in Filter : entry'[f].messages \in {entry[f].messages, <<>>}
    BY <1>8, <2>1 DEF Continue, Continued
  <2> QED BY <1>b, <1>8, <2>2 DEF Continue
<1>9. ASSUME NEW t \in Topic, Publish(t) PROVE Numbered'
  <2> DEFINE m == [id |-> published + 1, topic |-> t]
  <2>1. /\ m \in Message /\ m.id = published + 1 /\ published' = published + 1
        /\ entry' = entry /\ \A c \in Client : in'[c] \in {in[c], Append(in[c], m)}
    BY <1>9 DEF Publish, Message
  <2>2. ASSUME NEW c \in Client PROVE Rising(in'[c]) /\ UpTo(in'[c], published + 1)
    <3>1. Rising(in[c]) /\ UpTo(in[c], published)
      BY DEF Numbered
    <3>2. UpTo(in[c], published + 1)
      BY <1>0, <3>1 DEF UpTo
    <3>3. UpTo(in[c], m.id - 1)
      BY <1>0, <2>1, <3>1
    <3>4. Rising(Append(in[c], m)) /\ UpTo(Append(in[c], m), m.id)
      <4> HIDE DEF m
      <4> QED BY <1>0, <2>1, <3>1, <3>3, RisingAppend
    <3>5. in'[c] = in[c] \/ in'[c] = Append(in[c], m)
      BY <2>1
    <3> HIDE DEF m
    <3> QED BY <2>1, <3>1, <3>2, <3>4, <3>5
  <2>3. \A f \in Filter : UpTo(entry[f].messages, published + 1)
    BY <1>0 DEF Numbered, UpTo
  <2> QED BY <2>1, <2>2, <2>3 DEF Numbered
<1>10. CASE UNCHANGED vars
  BY <1>a, <1>10 DEF vars
<1> QED BY <1>1, <1>2, <1>3, <1>4, <1>5, <1>6, <1>7, <1>8, <1>9, <1>10 DEF Next

LEMMA SortedStep == TypeOK /\ Fresh /\ Numbered /\ Sorted /\ [Next]_vars => Sorted'
<1> SUFFICES ASSUME TypeOK, Fresh, Numbered, Sorted, [Next]_vars, ~strayed', NEW f \in Filter
             PROVE  /\ Rising(entry'[f].messages)
                    /\ client' # 0 => Before(entry'[f].messages, in'[client'])
  BY DEF Sorted
<1> DEFINE Goal == /\ Rising(entry'[f].messages)
                   /\ client' # 0 => Before(entry'[f].messages, in'[client'])
<1> USE MqttAssumption DEF driverVars, netVars, historyVars
<1>0. /\ published \in Nat /\ \A x \in Message : x.id \in Nat
      /\ \A c \in Client : in[c] \in Seq(Message)
      /\ entry[f].messages \in Seq(Message) /\ Len(entry[f].messages) <= Limit
      /\ client \in Client \union {0} /\ 0 \notin Client
      /\ strayed \in BOOLEAN
  <2>1. \A x \in Message : x.id \in Nat
    BY DEF Message
  <2>2. entry[f] \in [state : State, messages : Seq(Message)]
    BY DEF TypeOK, DriverTypes
  <2>3. entry[f].messages \in Seq(Message) /\ Len(entry[f].messages) <= Limit
    BY <2>2 DEF TypeOK, DriverTypes
  <2>4. client \in Client \union {0} /\ 0 \notin Client
    BY DEF TypeOK, DriverTypes, Client
  <2>5. /\ published \in Nat /\ strayed \in BOOLEAN
        /\ \A c \in Client : in[c] \in Seq(Message)
    BY DEF TypeOK, NetTypes, HistoryTypes
  <2> QED BY <2>1, <2>3, <2>4, <2>5
<1>e. Rising(<<>>) /\ \A q : Before(<<>>, q) /\ Before(q, <<>>)
  BY DEF Rising, Before
<1>s. ~strayed => /\ Rising(entry[f].messages)
                  /\ client # 0 => Before(entry[f].messages, in[client])
  BY DEF Sorted
<1>a. ASSUME strayed' = strayed, client' = client,
             entry'[f].messages \in {entry[f].messages, <<>>},
             \A c \in Client : in'[c] \in {in[c], <<>>}
      PROVE  Goal
  <2>1. client # 0 => in'[client] \in {in[client], <<>>}
    BY <1>0, <1>a
  <2> QED BY <1>a, <1>e, <1>s, <2>1
<1>1. ASSUME NEW c \in Client, Connect(c) \/ ConnectFails(c) \/ BrokerTakes(c) PROVE Goal
  BY <1>a, <1>1 DEF Connect, ConnectFails, BrokerTakes
<1>2. ASSUME NEW c \in Client, LinkLost(c) \/ Closed(c) PROVE Goal
  <2>1. /\ strayed' = strayed /\ client' = client /\ entry' = entry
        /\ in' = [in EXCEPT ![c] = <<>>]
    BY <1>2 DEF LinkLost, Closed
  <2>2. \A d \in Client : in'[d] \in {in[d], <<>>}
    BY <2>1 DEF TypeOK, NetTypes
  <2> QED BY <1>a, <2>1, <2>2
<1>3. ASSUME NEW c \in Client, Connected(c) PROVE Goal
  <2>1. client' = c /\ in'[c] = <<>> /\ entry' = entry /\ strayed' = strayed
    BY <1>3 DEF Connected, Fresh
  <2> QED BY <1>e, <1>s, <2>1
<1>4. ASSUME NEW c \in Client, OnMessage(c) PROVE Goal
  <2> DEFINE m == Head(in[c])
  <2>1. /\ in[c] # <<>> /\ in' = [in EXCEPT ![c] = Tail(in[c])] /\ client' = client
        /\ ~strayed /\ (c # client => entry' = entry)
    BY <1>4 DEF OnMessage
  <2>2. CASE c # client
    <3>1. client # 0 => in'[client] = in[client]
      BY <1>0, <2>1, <2>2 DEF TypeOK, NetTypes
    <3> QED BY <1>s, <2>1, <2>2, <3>1
  <2>3. CASE c = client
    <3>1. /\ Rising(entry[f].messages) /\ Before(entry[f].messages, in[c]) /\ Rising(in[c])
          /\ in'[client'] = Tail(in[c]) /\ client # 0
      BY <1>0, <1>s, <2>1, <2>3 DEF Numbered, TypeOK, NetTypes
    <3>2. /\ m \in Message /\ Tail(in[c]) \in Seq(Message)
          /\ \A i \in DOMAIN Tail(in[c]) : m.id < Tail(in[c])[i].id /\ Tail(in[c])[i] = in[c][i + 1]
      BY <1>0, <2>1, <3>1, RisingTail
    <3>3. UpTo(entry[f].messages, m.id - 1)
      <4>1. \A i \in DOMAIN entry[f].messages : entry[f].messages[i].id < m.id
        BY <1>0, <2>1, <3>1 DEF Before
      <4>2. \A i \in DOMAIN entry[f].messages : entry[f].messages[i].id \in Nat
        BY <1>0
      <4> QED BY <1>0, <3>2, <4>1, <4>2 DEF UpTo
    <3>4. CASE entry'[f] = entry[f]
      <4>1. Before(entry[f].messages, Tail(in[c]))
        <5>1. \A i \in DOMAIN Tail(in[c]) : i + 1 \in DOMAIN in[c]
          BY <1>0, <2>1
        <5> QED BY <3>1, <3>2, <5>1 DEF Before
      <4> QED BY <2>1, <3>1, <3>4, <4>1
    <3>5. CASE entry'[f].messages = Kept(entry[f].messages, m)
      <4>1. Rising(Kept(entry[f].messages, m))
        BY <1>0, <3>1, <3>2, <3>3, KeptRises
      <4>2. \A i \in DOMAIN Kept(entry[f].messages, m) :
              \/ Kept(entry[f].messages, m)[i] = m
              \/ \E k \in DOMAIN entry[f].messages :
                   Kept(entry[f].messages, m)[i] = entry[f].messages[k]
        BY <1>0, <3>2, KeptStep
      <4>3. ASSUME NEW i \in DOMAIN Kept(entry[f].messages, m), NEW k \in DOMAIN Tail(in[c])
            PROVE  Kept(entry[f].messages, m)[i].id < Tail(in[c])[k].id
        <5>1. k + 1 \in DOMAIN in[c] /\ Tail(in[c])[k] = in[c][k + 1] /\ m.id < Tail(in[c])[k].id
          BY <1>0, <2>1, <3>2
        <5> QED BY <3>1, <4>2, <5>1 DEF Before
      <4>4. Before(Kept(entry[f].messages, m), Tail(in[c]))
        BY <4>3 DEF Before
      <4> QED BY <3>1, <3>5, <4>1, <4>4
    <3> QED BY <1>4, <3>4, <3>5, Records
  <2> QED BY <2>2, <2>3
<1>5. ASSUME NEW g \in Filter, Subscribe(g) PROVE Goal
  BY <1>a, <1>5 DEF Subscribe
<1>6. ASSUME NEW g \in Filter, ClearPayload(g) PROVE Goal
  BY <1>a, <1>6 DEF ClearPayload, Absent
<1>7. ASSUME NEW names \in SUBSET Filter, Unsubscribe(names) PROVE Goal
  BY <1>a, <1>7 DEF Unsubscribe
<1>8. CASE Disconnect
  BY <1>a, <1>8 DEF Disconnect, Absent
<1>9. CASE Continue
  <2>1. entry[f] \in [state : State, messages : Seq(Message)]
    BY DEF TypeOK, DriverTypes
  <2>2. entry'[f].messages \in {entry[f].messages, <<>>}
    BY <1>9, <2>1 DEF Continue, Continued
  <2> QED BY <1>a, <1>9, <2>2 DEF Continue
<1>10. ASSUME NEW t \in Topic, Publish(t) PROVE Goal
  <2> DEFINE m == [id |-> published + 1, topic |-> t]
  <2>1. /\ m \in Message /\ m.id = published + 1
        /\ entry' = entry /\ client' = client /\ strayed' = strayed
        /\ \A c \in Client : in'[c] \in {in[c], Append(in[c], m)}
    BY <1>0, <1>10 DEF Publish, Message, TypeOK, HistoryTypes
  <2>2. ASSUME NEW c \in Client, Before(entry[f].messages, in[c])
        PROVE  Before(entry[f].messages, Append(in[c], m))
    <3>1. \A i \in DOMAIN entry[f].messages :
            entry[f].messages[i].id \in Nat /\ entry[f].messages[i].id <= published
      BY <1>0 DEF Numbered, UpTo
    <3> HIDE DEF m
    <3>2. in[c] \in Seq(Message)
      BY <1>0
    <3>3. \A k \in DOMAIN Append(in[c], m) :
            \/ Append(in[c], m)[k] = m
            \/ k \in DOMAIN in[c] /\ Append(in[c], m)[k] = in[c][k]
      BY <3>2
    <3>4. \A i \in DOMAIN entry[f].messages : entry[f].messages[i].id < m.id
      BY <1>0, <2>1, <3>1
    <3>5. ASSUME NEW i \in DOMAIN entry[f].messages, NEW k \in DOMAIN Append(in[c], m)
          PROVE  entry[f].messages[i].id < Append(in[c], m)[k].id
      <4>1. CASE Append(in[c], m)[k] = m
        BY <3>4, <4>1
      <4>2. CASE k \in DOMAIN in[c] /\ Append(in[c], m)[k] = in[c][k]
        BY <2>2, <4>2 DEF Before
      <4> QED BY <3>3, <4>1, <4>2
    <3> QED BY <3>5 DEF Before
  <2> HIDE DEF m
  <2> QED BY <1>0, <1>s, <2>1, <2>2
<1>11. CASE UNCHANGED vars
  BY <1>a, <1>11 DEF vars
<1> QED BY <1>1, <1>2, <1>3, <1>4, <1>5, <1>6, <1>7, <1>8, <1>9, <1>10, <1>11 DEF Next

\* What is kept for a topic is in the order of publication and there once, for
\* any filters and however connections are lost (the message handler).
THEOREM KeptInOrder == Spec => []InOrder
<1>1. Init => Fresh /\ Numbered /\ Sorted
  BY DEF Init, Fresh, Numbered, Sorted, Rising, UpTo, Before, Absent, Client
<1>2. TypeOK /\ Sorted => InOrder
  BY DEF Sorted, InOrder, Rising
<1> QED BY <1>1, <1>2, InitTyped, Typing, FreshStep, NumberedStep, SortedStep, PTL DEF Spec

-----------------------------------------------------------------------------
(***************************************************************************)
(* The subscriptions                                                       *)
(***************************************************************************)
\* How it will be with f once all of q was done, where asks are the places of q
\* that subscribe: the last one that names f decides, without one it stays as
\* it is now.
Ahead(q, asks, f, now) ==
  \/ /\ f \in now
     /\ \A k \in DOMAIN q : f \notin q[k].names
  \/ \E i \in DOMAIN q : /\ f \in q[i].names /\ i \in asks
                         /\ \A k \in DOMAIN q : i < k => f \notin q[k].names

Shown == {f \in Filter : Marked(f)}
Coming == {i \in DOMAIN micro : micro[i].after = "subscribe"}
Going(c) == {i \in DOMAIN out[c] : out[c][i].type = "subscribe"}

Drifted(f) == \E w \in Cause : <<f, w>> \in drift

\* A link that is up has no DISCONNECT on its way.
Staying ==
  \A c \in Client : link[c] = "up" => \A i \in DOMAIN out[c] : out[c][i].type # "disconnect"

\* What mqtt.js was asked for is what the methods under way will show and what
\* the packets under way will make of the broker's subscriptions.
Promised ==
  client # 0 /\ link[client] = "up" => \A f \in Filter :
    \/ Drifted(f)
    \/ /\ Ahead(micro, Coming, f, Shown) <=> f \in resub[client]
       /\ Ahead(out[client], Going(client), f, broker[client]) <=> f \in resub[client]

\* One more at the end decides for what it names, and for nothing else.
LEMMA AheadAppend ==
  ASSUME NEW S, NEW q \in Seq(S), NEW x \in S, NEW f, NEW now, NEW asks, NEW more,
         \A i \in DOMAIN q : i \in more <=> i \in asks
  PROVE  /\ f \in x.names => (Ahead(Append(q, x), more, f, now) <=> Len(q) + 1 \in more)
         /\ f \notin x.names => (Ahead(Append(q, x), more, f, now) <=> Ahead(q, asks, f, now))
<1> DEFINE r == Append(q, x)
<1>1. /\ DOMAIN r = 1..(Len(q) + 1) /\ DOMAIN q = 1..Len(q) /\ Len(q) \in Nat
      /\ r[Len(q) + 1] = x /\ \A i \in DOMAIN q : r[i] = q[i]
  OBVIOUS
<1> HIDE DEF r
<1>2. ASSUME f \in x.names PROVE Ahead(r, more, f, now) <=> Len(q) + 1 \in more
  <2>1. Len(q) + 1 \in DOMAIN r /\ f \in r[Len(q) + 1].names
        /\ \A k \in DOMAIN r : ~(Len(q) + 1 < k)
    BY <1>1, <1>2
  <2>2. \A i \in DOMAIN r : i = Len(q) + 1 \/ i < Len(q) + 1
    BY <1>1
  <2> QED BY <2>1, <2>2 DEF Ahead
<1>3. ASSUME f \notin x.names PROVE Ahead(r, more, f, now) <=> Ahead(q, asks, f, now)
  <2>1. (\A k \in DOMAIN r : f \notin r[k].names) <=> (\A k \in DOMAIN q : f \notin q[k].names)
    BY <1>1, <1>3
  <2>2. ASSUME NEW i \in DOMAIN q
        PROVE  (\A k \in DOMAIN r : i < k => f \notin r[k].names)
                 <=> (\A k \in DOMAIN q : i < k => f \notin q[k].names)
    BY <1>1, <1>3
  <2>3. \A i \in DOMAIN r : i \in DOMAIN q \/ f \notin r[i].names
    BY <1>1, <1>3
  <2>4. DOMAIN q \subseteq DOMAIN r
    BY <1>1
  <2> QED BY <1>1, <2>1, <2>2, <2>3, <2>4 DEF Ahead
<1> QED BY <1>2, <1>3 DEF r

\* Doing the first leaves what lies ahead as it was.
LEMMA AheadTail ==
  ASSUME NEW S, NEW q \in Seq(S), q # <<>>, NEW f, NEW now, NEW then, NEW asks, NEW less,
         \A i \in DOMAIN Tail(q) : i \in less <=> i + 1 \in asks,
         f \notin Head(q).names => (f \in then <=> f \in now),
         f \in Head(q).names => (f \in then <=> 1 \in asks)
  PROVE  Ahead(Tail(q), less, f, then) <=> Ahead(q, asks, f, now)
<1> DEFINE r == Tail(q)
<1>1. /\ DOMAIN r = 1..(Len(q) - 1) /\ DOMAIN q = 1..Len(q) /\ Len(q) \in Nat \ {0}
      /\ q[1] = Head(q) /\ \A i \in DOMAIN r : r[i] = q[i + 1]
  OBVIOUS
<1>2. \A i \in DOMAIN r : i \in less <=> i + 1 \in asks
  OBVIOUS
<1> HIDE DEF r
<1>3. (\A k \in DOMAIN r : f \notin r[k].names)
        <=> (\A k \in DOMAIN q : 1 < k => f \notin q[k].names)
  <2>1. \A k \in DOMAIN q : 1 < k => k - 1 \in DOMAIN r /\ r[k - 1] = q[k]
    BY <1>1
  <2>2. \A k \in DOMAIN r : k + 1 \in DOMAIN q /\ 1 < k + 1
    BY <1>1
  <2> QED BY <1>1, <2>1, <2>2
<1>4. ASSUME NEW i \in DOMAIN r
      PROVE  (\A k \in DOMAIN r : i < k => f \notin r[k].names)
               <=> (\A k \in DOMAIN q : i + 1 < k => f \notin q[k].names)
  <2>1. \A k \in DOMAIN q : i + 1 < k => k - 1 \in DOMAIN r /\ r[k - 1] = q[k] /\ i < k - 1
    BY <1>1
  <2>2. \A k \in DOMAIN r : i < k => k + 1 \in DOMAIN q /\ i + 1 < k + 1
    BY <1>1
  <2> QED BY <1>1, <2>1, <2>2
<1> DEFINE Later == \E i \in DOMAIN r : /\ f \in r[i].names /\ i \in less
                                       /\ \A k \in DOMAIN r : i < k => f \notin r[k].names
           All == \A k \in DOMAIN r : f \notin r[k].names
<1>5. (\E i \in DOMAIN q : /\ i # 1 /\ f \in q[i].names /\ i \in asks
                           /\ \A k \in DOMAIN q : i < k => f \notin q[k].names) <=> Later
  <2>1. ASSUME NEW i \in DOMAIN q, i # 1, f \in q[i].names, i \in asks,
               \A k \in DOMAIN q : i < k => f \notin q[k].names
        PROVE  Later
    <3>1. i - 1 \in DOMAIN r /\ r[i - 1] = q[i] /\ i - 1 + 1 = i
      BY <1>1, <2>1
    <3>2. i - 1 \in less
      BY <1>2, <2>1, <3>1
    <3> QED BY <1>4, <2>1, <3>1, <3>2
  <2>2. ASSUME NEW i \in DOMAIN r, f \in r[i].names, i \in less,
               \A k \in DOMAIN r : i < k => f \notin r[k].names
        PROVE  \E n \in DOMAIN q : /\ n # 1 /\ f \in q[n].names /\ n \in asks
                                   /\ \A k \in DOMAIN q : n < k => f \notin q[k].names
    <3>1. i + 1 \in DOMAIN q /\ i + 1 # 1 /\ f \in q[i + 1].names /\ i + 1 \in asks
      BY <1>1, <1>2, <2>2
    <3> QED BY <1>4, <2>2, <3>1
  <2> QED BY <2>1, <2>2
<1>6. (/\ f \in q[1].names /\ 1 \in asks
       /\ \A k \in DOMAIN q : 1 < k => f \notin q[k].names)
        <=> f \in Head(q).names /\ f \in then /\ All
  BY <1>1, <1>3
<1>7. (f \in now /\ \A k \in DOMAIN q : f \notin q[k].names)
        <=> f \notin Head(q).names /\ f \in then /\ All
  <2>1. (\A k \in DOMAIN q : f \notin q[k].names) <=> f \notin Head(q).names /\ All
    <3>1. \A k \in DOMAIN q : k = 1 \/ 1 < k
      BY <1>1
    <3>2. 1 \in DOMAIN q
      BY <1>1
    <3> QED BY <1>1, <1>3, <3>1, <3>2
  <2> QED BY <2>1
<1>8. Ahead(r, less, f, then) <=> (f \in then /\ All) \/ Later
  BY DEF Ahead
<1>9. Ahead(q, asks, f, now) <=> (f \in then /\ All) \/ Later
  <2>1. 1 \in DOMAIN q
    BY <1>1
  <2> HIDE DEF Later, All
  <2> QED BY <1>5, <1>6, <1>7, <2>1 DEF Ahead
<1> QED BY <1>8, <1>9 DEF r

LEMMA StayingStep == TypeOK /\ Fresh /\ Staying /\ [Next]_vars => Staying'
<1> SUFFICES ASSUME TypeOK, Fresh, Staying, [Next]_vars,
                    NEW d \in Client, link'[d] = "up", NEW i \in DOMAIN out'[d]
             PROVE  out'[d][i].type # "disconnect"
  BY DEF Staying
<1> USE DEF TypeOK, DriverTypes, NetTypes, netVars, driverVars, historyVars
<1>0. out[d] \in Seq(Packet)
  OBVIOUS
<1>a. ASSUME link[d] = "up", out'[d] = out[d] PROVE out'[d][i].type # "disconnect"
  BY <1>a DEF Staying
<1>b. ASSUME NEW type \in {"subscribe", "unsubscribe"}, NEW names, Sent(type, names),
             link' = link
      PROVE  out'[d][i].type # "disconnect"
  <2> DEFINE x == [type |-> type, names |-> names]
  <2>1. out'[d] \in {out[d], Append(out[d], x)}
    BY <1>b DEF Sent
  <2>2. CASE out'[d] = out[d]
    BY <1>a, <1>b, <2>2
  <2>3. CASE out'[d] = Append(out[d], x)
    <3>1. \/ out'[d][i] = x
          \/ i \in DOMAIN out[d] /\ out'[d][i] = out[d][i]
      <4> HIDE DEF x
      <4>1. DOMAIN out'[d] = 1..(Len(out[d]) + 1) /\ DOMAIN out[d] = 1..Len(out[d])
        BY <1>0, <2>3
      <4>2. \A n \in 1..(Len(out[d]) + 1) : out'[d][n] = IF n = Len(out[d]) + 1 THEN x ELSE out[d][n]
        BY <1>0, <2>3
      <4>3. Len(out[d]) \in Nat
        BY <1>0
      <4> QED BY <4>1, <4>2, <4>3
    <3>2. x.type # "disconnect"
      OBVIOUS
    <3> QED BY <1>b, <3>1, <3>2 DEF Staying
  <2> QED BY <2>1, <2>2, <2>3
<1>1. ASSUME NEW c \in Client, Connect(c) \/ ConnectFails(c) \/ Closed(c) \/ OnMessage(c)
      PROVE  out'[d][i].type # "disconnect"
  BY <1>a, <1>1 DEF Connect, ConnectFails, Closed, OnMessage
<1>2. ASSUME NEW c \in Client, Connected(c) PROVE out'[d][i].type # "disconnect"
  <2>1. out' = out /\ (d = c => out[d] = <<>>) /\ (d # c => link[d] = "up")
    BY <1>2 DEF Connected, Fresh
  <2> QED BY <1>a, <2>1
<1>3. ASSUME NEW c \in Client, BrokerTakes(c) PROVE out'[d][i].type # "disconnect"
  <2>1. /\ link' = link /\ out[c] # <<>>
        /\ out'[d] = IF d = c THEN Tail(out[c]) ELSE out[d]
    BY <1>3 DEF BrokerTakes
  <2>2. CASE d # c
    BY <1>a, <2>1, <2>2
  <2>3. CASE d = c
    <3>1. i + 1 \in DOMAIN out[d] /\ out'[d][i] = out[d][i + 1]
      BY <1>0, <2>1, <2>3
    <3> QED BY <2>1, <3>1 DEF Staying
  <2> QED BY <2>2, <2>3
<1>4. ASSUME NEW c \in Client, LinkLost(c) PROVE out'[d][i].type # "disconnect"
  <2>1. /\ link' = link
        /\ d # c => out'[d] = out[d]
        /\ d = c => out'[d] \in {<<>>, <<[type |-> "subscribe", names |-> resub[c]]>>}
    BY <1>4 DEF LinkLost
  <2>2. CASE d # c
    BY <1>a, <2>1, <2>2
  <2>3. CASE d = c
    <3>1. out'[d] = <<[type |-> "subscribe", names |-> resub[c]]>> /\ i = 1
      BY <2>1, <2>3
    <3> QED BY <3>1
  <2> QED BY <2>2, <2>3
<1>5. ASSUME NEW f \in Filter, Subscribe(f) PROVE out'[d][i].type # "disconnect"
  BY <1>b, <1>5 DEF Subscribe
<1>6. ASSUME NEW f \in Filter, ClearPayload(f) PROVE out'[d][i].type # "disconnect"
  BY <1>a, <1>6 DEF ClearPayload
<1>7. ASSUME NEW names \in SUBSET Filter, Unsubscribe(names)
      PROVE  out'[d][i].type # "disconnect"
  BY <1>b, <1>7 DEF Unsubscribe
<1>8. CASE Disconnect
  <2>1. d # client \/ link[client] # "up"
    BY <1>8 DEF Disconnect
  <2>2. link[d] = "up" /\ out'[d] = out[d]
    BY <1>8, <2>1 DEF Disconnect
  <2> QED BY <1>a, <2>2
<1>9. CASE Continue
  BY <1>a, <1>9 DEF Continue
<1>10. ASSUME NEW t \in Topic, Publish(t) PROVE out'[d][i].type # "disconnect"
  BY <1>a, <1>10 DEF Publish
<1>11. CASE UNCHANGED vars
  BY <1>a, <1>11 DEF vars
<1> QED BY <1>1, <1>2, <1>3, <1>4, <1>5, <1>6, <1>7, <1>8, <1>9, <1>10, <1>11 DEF Next

\* A method that gives mqtt.js a packet names the same filters in its rest.
LEMMA SentPromised ==
  ASSUME TypeOK, Promised, NEW type \in {"subscribe", "unsubscribe"},
         NEW names \in SUBSET Filter, client # 0, Sent(type, names),
         micro' = Append(micro, [after |-> type, names |-> names]),
         UNCHANGED <<client, link, entry, broker>>
  PROVE  Promised'
<1> SUFFICES ASSUME link[client] = "up", NEW f \in Filter, ~Drifted(f)'
             PROVE  /\ (Ahead(micro, Coming, f, Shown) <=> f \in resub[client])'
                    /\ (Ahead(out[client], Going(client), f, broker[client])
                          <=> f \in resub[client])'
  BY DEF Promised
<1> DEFINE x == [after |-> type, names |-> names]
           y == [type |-> type, names |-> names]
<1> USE DEF TypeOK, DriverTypes, NetTypes
<1>1. /\ client \in Client /\ client' = client
      /\ micro \in Seq(Rest) /\ out[client] \in Seq(Packet)
      /\ x \in Rest /\ y \in Packet /\ x.names = names /\ y.names = names
      /\ x.after = type /\ y.type = type
  BY DEF Rest, Packet
<1>2. /\ micro' = Append(micro, x) /\ out'[client] = Append(out[client], y)
      /\ Shown' = Shown /\ broker' = broker
      /\ resub'[client] = IF type = "subscribe" THEN resub[client] \union names
                          ELSE resub[client] \ names
      /\ drift' = {e \in drift : e[1] \notin names}
  BY <1>1 DEF Sent, Shown, Marked
<1> HIDE DEF x, y
<1>3. /\ DOMAIN micro' = 1..(Len(micro) + 1) /\ \A i \in DOMAIN micro : micro'[i] = micro[i]
      /\ micro'[Len(micro) + 1] = x
      /\ DOMAIN out'[client] = 1..(Len(out[client]) + 1)
      /\ \A i \in DOMAIN out[client] : out'[client][i] = out[client][i]
      /\ out'[client][Len(out[client]) + 1] = y
  BY <1>1, <1>2
<1>4. /\ \A i \in DOMAIN micro : i \in Coming' <=> i \in Coming
      /\ \A i \in DOMAIN out[client] : i \in Going(client)' <=> i \in Going(client)
      /\ Len(micro) + 1 \in Coming' <=> type = "subscribe"
      /\ Len(out[client]) + 1 \in Going(client)' <=> type = "subscribe"
  BY <1>1, <1>3 DEF Coming, Going
<1>5. /\ f \in names => (Ahead(micro', Coming', f, Shown) <=> type = "subscribe")
      /\ f \notin names => (Ahead(micro', Coming', f, Shown) <=> Ahead(micro, Coming, f, Shown))
  <2>1. /\ f \in x.names => (Ahead(Append(micro, x), Coming', f, Shown) <=> Len(micro) + 1 \in Coming')
        /\ f \notin x.names => (Ahead(Append(micro, x), Coming', f, Shown) <=> Ahead(micro, Coming, f, Shown))
    BY <1>1, <1>4, AheadAppend
  <2> QED BY <1>1, <1>2, <1>4, <2>1
<1>6. /\ f \in names => (Ahead(out'[client], Going(client)', f, broker[client])
                           <=> type = "subscribe")
      /\ f \notin names => (Ahead(out'[client], Going(client)', f, broker[client])
                              <=> Ahead(out[client], Going(client), f, broker[client]))
  <2> DEFINE q == out[client]
             then == Going(client)'
             now == broker[client]
  <2>1. /\ q \in Seq(Packet) /\ \A i \in DOMAIN q : i \in then <=> i \in Going(client)
    BY <1>1, <1>4
  <2>2. out'[client] = Append(q, y) /\ (Len(q) + 1 \in then <=> type = "subscribe")
    BY <1>2, <1>4
  <2> HIDE DEF q, then, now
  <2>3. /\ f \in y.names => (Ahead(Append(q, y), then, f, now) <=> Len(q) + 1 \in then)
        /\ f \notin y.names => (Ahead(Append(q, y), then, f, now) <=> Ahead(q, Going(client), f, now))
    BY <1>1, <2>1, AheadAppend
  <2>4. /\ f \in names => (Ahead(out'[client], then, f, now) <=> type = "subscribe")
        /\ f \notin names => (Ahead(out'[client], then, f, now) <=> Ahead(q, Going(client), f, now))
    BY <1>1, <2>2, <2>3
  <2> QED BY <2>4 DEF q, then, now
<1>7. CASE f \in names
  BY <1>1, <1>2, <1>5, <1>6, <1>7
<1>8. CASE f \notin names
  <2>1. ~Drifted(f)
    BY <1>2, <1>8 DEF Drifted
  <2>2. /\ Ahead(micro, Coming, f, Shown) <=> f \in resub[client]
        /\ Ahead(out[client], Going(client), f, broker[client]) <=> f \in resub[client]
    BY <2>1 DEF Promised
  <2> QED BY <1>1, <1>2, <1>5, <1>6, <1>8, <2>2
<1> QED BY <1>7, <1>8

\* The rest of a disconnect names no filter.
Bare == \A i \in DOMAIN micro : micro[i].after = "disconnect" => micro[i].names = {}

LEMMA BareStep == TypeOK /\ Bare /\ [Next]_vars => Bare'
<1> SUFFICES ASSUME TypeOK, Bare, [Next]_vars, NEW i \in DOMAIN micro',
                    micro'[i].after = "disconnect"
             PROVE  micro'[i].names = {}
  BY DEF Bare
<1> USE DEF TypeOK, DriverTypes, driverVars, netVars, historyVars
<1>0. micro \in Seq(Rest)
  OBVIOUS
<1>a. ASSUME micro' = micro PROVE micro'[i].names = {}
  BY <1>a DEF Bare
<1>b. ASSUME NEW x, micro' = Append(micro, x), x.after = "disconnect" => x.names = {}
      PROVE  micro'[i].names = {}
  <2>1. DOMAIN micro' = 1..(Len(micro) + 1) /\ DOMAIN micro = 1..Len(micro) /\ Len(micro) \in Nat
    BY <1>0, <1>b
  <2>2. \A n \in DOMAIN micro' : micro'[n] = IF n = Len(micro) + 1 THEN x ELSE micro[n]
    BY <1>0, <1>b
  <2>3. i = Len(micro) + 1 \/ i \in DOMAIN micro
    BY <2>1
  <2> QED BY <1>b, <2>1, <2>2, <2>3 DEF Bare
<1>1. ASSUME NEW c \in Client, Connect(c) \/ ConnectFails(c) \/ Closed(c) \/ OnMessage(c)
      PROVE  micro'[i].names = {}
  BY <1>a, <1>1 DEF Connect, ConnectFails, Closed, OnMessage
<1>2. ASSUME NEW c \in Client, Connected(c) \/ BrokerTakes(c) \/ LinkLost(c)
      PROVE  micro'[i].names = {}
  BY <1>a, <1>2 DEF Connected, BrokerTakes, LinkLost
<1>3. ASSUME NEW f \in Filter, Subscribe(f) PROVE micro'[i].names = {}
  BY <1>b, <1>3 DEF Subscribe
<1>4. ASSUME NEW f \in Filter, ClearPayload(f) PROVE micro'[i].names = {}
  BY <1>a, <1>4 DEF ClearPayload
<1>5. ASSUME NEW names \in SUBSET Filter, Unsubscribe(names) PROVE micro'[i].names = {}
  BY <1>b, <1>5 DEF Unsubscribe
<1>6. CASE Disconnect
  BY <1>b, <1>6 DEF Disconnect
<1>7. CASE Continue
  <2>1. micro # <<>> /\ micro' = Tail(micro)
    BY <1>7 DEF Continue
  <2>2. i + 1 \in DOMAIN micro /\ micro'[i] = micro[i + 1]
    BY <1>0, <2>1
  <2> QED BY <2>2 DEF Bare
<1>8. ASSUME NEW t \in Topic, Publish(t) PROVE micro'[i].names = {}
  BY <1>a, <1>8 DEF Publish
<1>9. CASE UNCHANGED vars
  BY <1>a, <1>9 DEF vars
<1> QED BY <1>1, <1>2, <1>3, <1>4, <1>5, <1>6, <1>7, <1>8, <1>9 DEF Next

\* Doing the first of what a method left behind.
LEMMA ContinuePromised ==
  TypeOK /\ Bare /\ Promised /\ Continue => Promised'
<1> SUFFICES ASSUME TypeOK, Bare, Promised, Continue PROVE Promised'
  OBVIOUS
<1> SUFFICES ASSUME client # 0, link[client] = "up", NEW f \in Filter, ~Drifted(f)
             PROVE  (Ahead(micro, Coming, f, Shown) <=> f \in resub[client])'
  <2>1. UNCHANGED <<client, link, resub, out, broker, drift>>
    BY DEF Continue, netVars
  <2>2. \A f : (f \in resub[client])' <=> f \in resub[client]
    BY <2>1
  <2>3. \A f : Ahead(out[client], Going(client), f, broker[client])'
                 <=> Ahead(out[client], Going(client), f, broker[client])
    BY <2>1 DEF Ahead, Going
  <2>4. \A f : Drifted(f)' <=> Drifted(f)
    BY <2>1 DEF Drifted
  <2> QED BY <2>1, <2>2, <2>3, <2>4 DEF Promised
<1> USE DEF TypeOK, DriverTypes, NetTypes
<1> DEFINE h == Head(micro)
<1>1. /\ micro \in Seq(Rest) /\ micro # <<>> /\ h \in Rest /\ h = micro[1] /\ 1 \in DOMAIN micro
      /\ micro' = Tail(micro) /\ entry' = Continued(h.after, h.names)
      /\ resub' = resub /\ client' = client
  BY DEF Continue, netVars
<1>2. entry[f] \in [state : State, messages : Seq(Message)]
  OBVIOUS
<1>3. \A i \in DOMAIN Tail(micro) : i \in Coming' <=> i + 1 \in Coming
  BY <1>1 DEF Coming
<1>4. f \notin h.names => (f \in Shown' <=> f \in Shown)
  BY <1>1 DEF Shown, Marked, Continued
<1>5. ASSUME f \in h.names PROVE f \in Shown' <=> 1 \in Coming
  <2>1. h.after \in {"subscribe", "unsubscribe"}
    BY <1>1, <1>5 DEF Bare, Rest
  <2>2. CASE h.after = "subscribe"
    <3>1. entry'[f].state = "subscribed"
      BY <1>1, <1>5, <2>2 DEF Continued
    <3> QED BY <1>1, <2>2, <3>1 DEF Shown, Marked, Coming
  <2>3. CASE h.after = "unsubscribe"
    <3>1. entry'[f].state # "subscribed"
      <4>1. CASE entry[f] = Absent
        BY <1>1, <2>3, <4>1 DEF Continued, Absent
      <4>2. CASE entry[f] # Absent
        BY <1>1, <1>2, <1>5, <2>3, <4>2 DEF Continued
      <4> QED BY <4>1, <4>2
    <3>2. 1 \notin Coming
      BY <1>1, <2>3 DEF Coming
    <3> QED BY <3>1, <3>2 DEF Shown, Marked
  <2> QED BY <2>1, <2>2, <2>3
<1>6. Ahead(Tail(micro), Coming', f, Shown') <=> Ahead(micro, Coming, f, Shown)
  BY <1>1, <1>3, <1>4, <1>5, AheadTail
<1>7. Ahead(micro, Coming, f, Shown) <=> f \in resub[client]
  BY DEF Promised
<1> QED BY <1>1, <1>6, <1>7

\* The broker takes the first packet of the driver's own client.
LEMMA TakenPromised ==
  TypeOK /\ Staying /\ Promised /\ BrokerTakes(client) => Promised'
<1> SUFFICES ASSUME TypeOK, Staying, Promised, BrokerTakes(client), client # 0,
                    link[client] = "up", NEW f \in Filter, ~Drifted(f)'
             PROVE  /\ (Ahead(micro, Coming, f, Shown) <=> f \in resub[client])'
                    /\ (Ahead(out[client], Going(client), f, broker[client])
                          <=> f \in resub[client])'
  BY DEF Promised, BrokerTakes, driverVars
<1> USE DEF TypeOK, DriverTypes, NetTypes
<1> DEFINE p == Head(out[client])
<1>1. /\ client \in Client /\ client' = client /\ out[client] \in Seq(Packet)
      /\ out[client] # <<>> /\ p \in Packet /\ p = out[client][1] /\ 1 \in DOMAIN out[client]
      /\ out'[client] = Tail(out[client]) /\ micro' = micro /\ entry' = entry
  BY DEF BrokerTakes, driverVars
<1>2. p.type \in {"subscribe", "unsubscribe"} /\ p.names \in SUBSET Filter
  BY <1>1 DEF Staying, Packet
<1>3. drift \subseteq drift' /\ ~Drifted(f)
  <2>1. drift \subseteq drift'
    BY DEF BrokerTakes
  <2> QED BY <2>1 DEF Drifted
<1>4. /\ f \in resub'[client] <=> f \in resub[client]
      /\ f \in p.names => (f \in broker'[client] <=> p.type = "subscribe")
      /\ f \notin p.names => (f \in broker'[client] <=> f \in broker[client])
  <2>1. \/ /\ p.type = "subscribe" /\ resub' = resub
           /\ broker' = [broker EXCEPT ![client] = broker[client] \union p.names]
        \/ /\ p.type = "subscribe" /\ drift' = drift \union (p.names \X {"refused"})
           /\ resub' = [resub EXCEPT ![client] = resub[client] \ p.names]
           /\ broker' = [broker EXCEPT ![client] = broker[client] \ p.names]
        \/ /\ p.type = "unsubscribe" /\ resub' = resub
           /\ broker' = [broker EXCEPT ![client] = broker[client] \ p.names]
    BY <1>2 DEF BrokerTakes
  <2>2. (drift' = drift \union (p.names \X {"refused"})) => f \notin p.names
    <3> SUFFICES ASSUME drift' = drift \union (p.names \X {"refused"}), f \in p.names
                 PROVE  FALSE
      OBVIOUS
    <3>1. <<f, "refused">> \in drift' /\ "refused" \in Cause
      BY DEF Cause
    <3> QED BY <3>1 DEF Drifted
  <2> HIDE DEF p
  <2>3. CASE /\ p.type = "subscribe" /\ resub' = resub
             /\ broker' = [broker EXCEPT ![client] = broker[client] \union p.names]
    BY <1>1, <2>3
  <2>4. CASE /\ p.type = "subscribe" /\ drift' = drift \union (p.names \X {"refused"})
             /\ resub' = [resub EXCEPT ![client] = resub[client] \ p.names]
             /\ broker' = [broker EXCEPT ![client] = broker[client] \ p.names]
    BY <1>1, <2>2, <2>4
  <2>5. CASE /\ p.type = "unsubscribe" /\ resub' = resub
             /\ broker' = [broker EXCEPT ![client] = broker[client] \ p.names]
    BY <1>1, <2>5
  <2> QED BY <2>1, <2>3, <2>4, <2>5
<1>5. /\ \A i \in DOMAIN Tail(out[client]) : i \in Going(client)' <=> i + 1 \in Going(client)
      /\ p.type = "subscribe" <=> 1 \in Going(client)
  BY <1>1 DEF Going
<1>6. Ahead(Tail(out[client]), Going(client)', f, broker'[client])
        <=> Ahead(out[client], Going(client), f, broker[client])
  <2> DEFINE q == out[client]
             less == Going(client)'
             asks == Going(client)
             then == broker'[client]
             now == broker[client]
  <2>1. /\ q \in Seq(Packet) /\ q # <<>>
        /\ \A i \in DOMAIN Tail(q) : i \in less <=> i + 1 \in asks
        /\ f \notin Head(q).names => (f \in then <=> f \in now)
        /\ f \in Head(q).names => (f \in then <=> 1 \in asks)
    BY <1>1, <1>4, <1>5
  <2> HIDE DEF q, less, asks, then, now
  <2>2. Ahead(Tail(q), less, f, then) <=> Ahead(q, asks, f, now)
    BY <2>1, AheadTail
  <2> QED BY <2>2 DEF q, less, asks, then, now
<1>7. /\ Ahead(micro, Coming, f, Shown) <=> f \in resub[client]
      /\ Ahead(out[client], Going(client), f, broker[client]) <=> f \in resub[client]
  BY <1>3 DEF Promised
<1>8. Coming' = Coming /\ Shown' = Shown
  BY <1>1 DEF Coming, Shown, Marked
<1>9. Ahead(micro', Coming', f, Shown') <=> f \in resub'[client]
  BY <1>1, <1>4, <1>7, <1>8
<1>10. Ahead(out'[client], Going(client)', f, broker'[client]) <=> f \in resub'[client]
  BY <1>1, <1>4, <1>6, <1>7
<1> QED BY <1>1, <1>9, <1>10

LEMMA PromisedStep ==
  TypeOK /\ Fresh /\ Staying /\ Bare /\ Promised /\ [Next]_vars => Promised'
<1> SUFFICES ASSUME TypeOK, Fresh, Staying, Bare, Promised, [Next]_vars PROVE Promised'
  OBVIOUS
<1> USE DEF TypeOK, DriverTypes, NetTypes, netVars, driverVars, historyVars
<1>a. ASSUME client' = client, micro' = micro, drift \subseteq drift', Shown' = Shown,
             client # 0 /\ link'[client] = "up" =>
               /\ link[client] = "up" /\ resub'[client] = resub[client]
               /\ out'[client] = out[client] /\ broker'[client] = broker[client]
      PROVE  Promised'
  <2> SUFFICES ASSUME client # 0, link'[client] = "up", NEW f \in Filter, ~Drifted(f)'
               PROVE  /\ (Ahead(micro, Coming, f, Shown) <=> f \in resub[client])'
                      /\ (Ahead(out[client], Going(client), f, broker[client])
                            <=> f \in resub[client])'
    BY <1>a DEF Promised
  <2>1. ~Drifted(f)
    BY <1>a DEF Drifted
  <2>2. Coming' = Coming /\ Going(client)' = Going(client)
    BY <1>a DEF Coming, Going
  <2>3. /\ Ahead(micro, Coming, f, Shown) <=> f \in resub[client]
        /\ Ahead(out[client], Going(client), f, broker[client]) <=> f \in resub[client]
    BY <1>a, <2>1 DEF Promised
  <2> QED BY <1>a, <2>2, <2>3
<1>b. entry' = entry => Shown' = Shown
  BY DEF Shown, Marked
<1>1. ASSUME NEW c \in Client, Connect(c) PROVE Promised'
  <2>1. c # client
    BY <1>1 DEF Connect, Fresh
  <2> QED BY <1>a, <1>b, <1>1, <2>1 DEF Connect
<1>2. ASSUME NEW c \in Client, Connected(c) PROVE Promised'
  <2>1. /\ client' = c /\ micro' = <<>> /\ entry' = entry
        /\ out'[c] = <<>> /\ broker'[c] = {} /\ resub'[c] = {}
    BY <1>2 DEF Connected, Fresh
  <2>2. ASSUME NEW f \in Filter, Marked(f) PROVE Drifted(f)'
    <3>1. <<f, "carried">> \in drift' /\ "carried" \in Cause
      BY <1>2, <2>2 DEF Connected, Cause
    <3> QED BY <3>1 DEF Drifted
  <2>3. \A f \in Filter : Drifted(f)' \/ f \notin Shown'
    BY <2>1, <2>2 DEF Shown, Marked
  <2> QED BY <2>1, <2>3 DEF Promised, Ahead
<1>3. ASSUME NEW c \in Client, ConnectFails(c) PROVE Promised'
  BY <1>a, <1>b, <1>3 DEF ConnectFails
<1>4. ASSUME NEW c \in Client, OnMessage(c) PROVE Promised'
  <2>1. \A f \in Filter : entry'[f].state = entry[f].state
    BY <1>4, Records
  <2>2. Shown' = Shown
    BY <2>1 DEF Shown, Marked
  <2> QED BY <1>a, <1>4, <2>2 DEF OnMessage
<1>5. ASSUME NEW c \in Client, BrokerTakes(c) PROVE Promised'
  <2>1. CASE c = client
    BY <1>5, <2>1, TakenPromised
  <2>2. CASE c # client
    <3>1. /\ client' = client /\ micro' = micro /\ entry' = entry /\ link' = link
          /\ drift \subseteq drift'
      BY <1>5 DEF BrokerTakes
    <3>2. client # 0 => /\ resub'[client] = resub[client] /\ out'[client] = out[client]
                        /\ broker'[client] = broker[client]
      BY <1>5, <2>2 DEF BrokerTakes
    <3> QED BY <1>a, <1>b, <3>1, <3>2
  <2> QED BY <2>1, <2>2
<1>6. ASSUME NEW c \in Client, LinkLost(c) PROVE Promised'
  <2>1. /\ client' = client /\ micro' = micro /\ entry' = entry /\ link' = link
        /\ drift' = drift /\ resub' = resub
    BY <1>6 DEF LinkLost
  <2>2. CASE c # client
    <3>1. client # 0 => out'[client] = out[client] /\ broker'[client] = broker[client]
      BY <1>6, <2>2 DEF LinkLost
    <3> QED BY <1>a, <1>b, <2>1, <3>1
  <2>3. CASE c = client
    <3> DEFINE p == [type |-> "subscribe", names |-> resub[client]]
    <3> SUFFICES ASSUME NEW f \in Filter, ~Drifted(f)'
                 PROVE  /\ (Ahead(micro, Coming, f, Shown) <=> f \in resub[client])'
                        /\ (Ahead(out[client], Going(client), f, broker[client])
                              <=> f \in resub[client])'
      BY DEF Promised
    <3>1. /\ client \in Client /\ client # 0 /\ link[client] = "up" /\ broker'[client] = {}
          /\ out'[client] = IF resub[client] = {} THEN <<>> ELSE <<p>>
      BY <1>6, <2>3 DEF LinkLost, Client
    <3>2. Coming' = Coming /\ Shown' = Shown /\ ~Drifted(f)
      BY <1>b, <2>1 DEF Coming, Drifted
    <3>3. Ahead(micro, Coming, f, Shown) <=> f \in resub[client]
      BY <3>1, <3>2 DEF Promised
    <3>4. Ahead(out'[client], Going(client)', f, broker'[client]) <=> f \in resub[client]
      <4>1. CASE resub[client] = {}
        BY <3>1, <4>1 DEF Ahead
      <4>2. CASE resub[client] # {}
        <5>1. /\ out'[client] = <<p>> /\ DOMAIN out'[client] = {1} /\ out'[client][1] = p
              /\ p.names = resub[client] /\ p.type = "subscribe"
          BY <3>1, <4>2
        <5>2. 1 \in Going(client)'
          BY <2>1, <5>1 DEF Going
        <5> HIDE DEF p
        <5> QED BY <3>1, <5>1, <5>2 DEF Ahead
      <4> QED BY <4>1, <4>2
    <3> QED BY <2>1, <3>2, <3>3, <3>4
  <2> QED BY <2>2, <2>3
<1>7. ASSUME NEW c \in Client, Closed(c) PROVE Promised'
  BY <1>a, <1>b, <1>7 DEF Closed
<1>8. ASSUME NEW f \in Filter, Subscribe(f) PROVE Promised'
  <2>1. /\ client # 0 /\ Sent("subscribe", {f}) /\ {f} \in SUBSET Filter
        /\ micro' = Append(micro, [after |-> "subscribe", names |-> {f}])
        /\ UNCHANGED <<client, link, entry, broker>>
    BY <1>8 DEF Subscribe
  <2> QED BY <2>1, SentPromised
<1>9. ASSUME NEW f \in Filter, ClearPayload(f) PROVE Promised'
  <2>1. /\ client' = client /\ micro' = micro /\ link' = link /\ resub' = resub
        /\ out' = out /\ broker' = broker /\ drift \subseteq drift'
        /\ client # 0 /\ f \in resub[client] => <<f, "cleared">> \in drift'
    BY <1>9 DEF ClearPayload
  <2>2. f \notin Shown' /\ \A g \in Filter \ {f} : g \in Shown' <=> g \in Shown
    BY <1>9 DEF ClearPayload, Shown, Marked, Absent
  <2> SUFFICES ASSUME client # 0, link[client] = "up", NEW g \in Filter, ~Drifted(g)'
               PROVE  /\ (Ahead(micro, Coming, g, Shown) <=> g \in resub[client])'
                      /\ (Ahead(out[client], Going(client), g, broker[client])
                            <=> g \in resub[client])'
    BY <2>1 DEF Promised
  <2>3. ~Drifted(g) /\ (g = f => g \notin resub[client])
    BY <2>1 DEF Drifted, Cause
  <2>4. /\ Ahead(micro, Coming, g, Shown) <=> g \in resub[client]
        /\ Ahead(out[client], Going(client), g, broker[client]) <=> g \in resub[client]
    BY <2>3 DEF Promised
  <2>5. Coming' = Coming /\ Going(client)' = Going(client)
    BY <2>1 DEF Coming, Going
  <2>6. Ahead(micro, Coming, g, Shown') <=> g \in resub[client]
    <3>1. CASE g = f
      BY <2>2, <2>3, <2>4, <3>1 DEF Ahead
    <3>2. CASE g # f
      BY <2>2, <2>4, <3>2 DEF Ahead
    <3> QED BY <3>1, <3>2
  <2> QED BY <2>1, <2>4, <2>5, <2>6
<1>10. ASSUME NEW names \in SUBSET Filter, Unsubscribe(names) PROVE Promised'
  <2>1. /\ client # 0 /\ Sent("unsubscribe", names)
        /\ micro' = Append(micro, [after |-> "unsubscribe", names |-> names])
        /\ UNCHANGED <<client, link, entry, broker>>
    BY <1>10 DEF Unsubscribe
  <2> QED BY <2>1, SentPromised
<1>11. CASE Disconnect
  <2>1. client' = client /\ (client # 0 => link'[client] # "up")
    BY <1>11 DEF Disconnect
  <2> QED BY <2>1 DEF Promised
<1>12. CASE Continue
  BY <1>12, ContinuePromised
<1>13. ASSUME NEW t \in Topic, Publish(t) PROVE Promised'
  BY <1>a, <1>b, <1>13 DEF Publish
<1>14. CASE UNCHANGED vars
  BY <1>a, <1>b, <1>14 DEF vars
<1> QED BY <1>1, <1>2, <1>3, <1>4, <1>5, <1>6, <1>7, <1>8, <1>9, <1>10, <1>11, <1>12, <1>13, <1>14 DEF Next

\* Only a client that connected makes the driver connected.
Used == isConnected => client # 0

LEMMA UsedStep == Used /\ [Next]_vars => Used'
<1> SUFFICES ASSUME Used, [Next]_vars, isConnected' PROVE client' # 0
  BY DEF Used
<1>a. client' = client /\ (isConnected' => isConnected) => client' # 0
  BY DEF Used
<1> USE DEF driverVars, netVars, historyVars
<1>1. ASSUME NEW c \in Client, Connect(c) \/ ConnectFails(c) PROVE FALSE
  BY <1>1 DEF Connect, ConnectFails
<1>2. ASSUME NEW c \in Client, Connected(c) PROVE client' # 0
  BY <1>2 DEF Connected, Client
<1>3. ASSUME NEW c \in Client, Closed(c) \/ OnMessage(c) \/ BrokerTakes(c) \/ LinkLost(c)
      PROVE  client' # 0
  BY <1>a, <1>3 DEF Closed, OnMessage, BrokerTakes, LinkLost
<1>4. ASSUME NEW f \in Filter, Subscribe(f) \/ ClearPayload(f) PROVE client' # 0
  BY <1>a, <1>4 DEF Subscribe, ClearPayload
<1>5. ASSUME NEW names \in SUBSET Filter, Unsubscribe(names) PROVE client' # 0
  BY <1>a, <1>5 DEF Unsubscribe
<1>6. CASE Disconnect
  BY <1>a, <1>6 DEF Disconnect
<1>7. CASE Continue
  <2>1. client' = client /\ isConnected' = (isConnected /\ Head(micro).after # "disconnect")
    BY <1>7 DEF Continue
  <2> QED BY <1>a, <2>1, Zenon
<1>8. ASSUME NEW t \in Topic, Publish(t) PROVE client' # 0
  BY <1>a, <1>8 DEF Publish
<1>9. CASE UNCHANGED vars
  BY <1>a, <1>9 DEF vars
<1> QED BY <1>1, <1>2, <1>3, <1>4, <1>5, <1>6, <1>7, <1>8, <1>9 DEF Next

\* Once nothing is under way the topics shown as subscribed are the broker's,
\* but for the four causes, for any filters, connections and refusals
\* (subscribe, unsubscribe, clearPayload, closeSub).
THEOREM SubscriptionsAgree == Spec => []Agree
<1>1. Init => Fresh /\ Staying /\ Bare /\ Promised /\ Used
  BY DEF Init, Fresh, Staying, Bare, Promised, Client, Used
<1>2. ASSUME Promised, Used PROVE Agree
  <2> SUFFICES ASSUME Asked, NEW f \in Filter, ~Drifted(f)
               PROVE  Marked(f) <=> f \in broker[client]
    BY DEF Agree, Drifted
  <2>1. client # 0 /\ link[client] = "up" /\ micro = <<>> /\ out[client] = <<>>
    BY <1>2 DEF Asked, Used
  <2>2. Ahead(<<>>, Coming, f, Shown) <=> Ahead(<<>>, Going(client), f, broker[client])
    BY <1>2, <2>1 DEF Promised
  <2>3. \A asks, now : Ahead(<<>>, asks, f, now) <=> f \in now
    BY DEF Ahead
  <2> QED BY <2>2, <2>3 DEF Shown
<1> QED BY <1>1, <1>2, InitTyped, Typing, FreshStep, StayingStep, BareStep, PromisedStep,
           UsedStep, PTL DEF Spec

-----------------------------------------------------------------------------
(***************************************************************************)
(* What is due                                                             *)
(***************************************************************************)
\* A message is due to a topic that is shown as subscribed and that it matches.
Routed ==
  client # 0 /\ link[client] = "up" => \A f \in Filter : \A n \in due[f] :
    /\ Marked(f) /\ n <= published
    /\ \A k \in DOMAIN in[client] : in[client][k].id = n => MatchTopic(in[client][k].topic, f)

LEMMA RoutedStep == TypeOK /\ Fresh /\ Numbered /\ Routed /\ [Next]_vars => Routed'
<1> SUFFICES ASSUME TypeOK, Fresh, Numbered, Routed, [Next]_vars,
                    client' # 0, link'[client'] = "up", NEW f \in Filter, NEW n \in due'[f]
             PROVE  /\ Marked(f)' /\ n <= published'
                    /\ \A k \in DOMAIN in'[client'] :
                         in'[client'][k].id = n => MatchTopic(in'[client'][k].topic, f)
  BY DEF Routed
<1> DEFINE Goal == /\ Marked(f)' /\ n <= published'
                   /\ \A k \in DOMAIN in'[client'] :
                        in'[client'][k].id = n => MatchTopic(in'[client'][k].topic, f)
<1> USE DEF TypeOK, DriverTypes, NetTypes, HistoryTypes, netVars, driverVars, historyVars
<1>0. /\ client' \in Client /\ published \in Nat
      /\ client # 0 => client \in Client
      /\ \A c \in Client : in[c] \in Seq(Message)
  <2>1. client' \in Client
    BY Typing
  <2> QED BY <2>1
<1>a. ASSUME client' = client, link[client] = "up", n \in due[f], published' = published,
             entry'[f].state = entry[f].state, in'[client] \in {in[client], <<>>}
      PROVE  Goal
  <2>1. /\ Marked(f) /\ n <= published
        /\ \A k \in DOMAIN in[client] : in[client][k].id = n => MatchTopic(in[client][k].topic, f)
    BY <1>a DEF Routed
  <2>2. CASE in'[client] = in[client]
    BY <1>a, <2>1, <2>2 DEF Marked
  <2>3. CASE in'[client] = <<>>
    BY <1>a, <2>1, <2>3 DEF Marked
  <2> QED BY <1>a, <2>2, <2>3
<1>1. ASSUME NEW c \in Client, Connect(c) \/ ConnectFails(c) \/ BrokerTakes(c) PROVE Goal
  BY <1>0, <1>a, <1>1 DEF Connect, ConnectFails, BrokerTakes
<1>2. ASSUME NEW c \in Client, Connected(c) PROVE Goal
  BY <1>2 DEF Connected
<1>3. ASSUME NEW c \in Client, LinkLost(c) \/ Closed(c) PROVE Goal
  <2>1. /\ client' = client /\ link[client] = "up" /\ published' = published /\ entry' = entry
        /\ in' = [in EXCEPT ![c] = <<>>]
    BY <1>0, <1>3 DEF LinkLost, Closed
  <2>2. n \in due[f]
    BY <1>3 DEF LinkLost, Closed
  <2> QED BY <1>0, <1>a, <2>1, <2>2
<1>4. ASSUME NEW c \in Client, OnMessage(c) PROVE Goal
  <2>1. /\ client' = client /\ link[client] = "up" /\ published' = published /\ n \in due[f]
        /\ in[c] # <<>> /\ in' = [in EXCEPT ![c] = Tail(in[c])]
    BY <1>4 DEF OnMessage
  <2>2. entry'[f].state = entry[f].state
    BY <1>4, Records
  <2>3. CASE c # client
    BY <1>0, <1>a, <2>1, <2>2, <2>3
  <2>4. CASE c = client
    <3>1. /\ Marked(f) /\ n <= published
          /\ \A k \in DOMAIN in[c] : in[c][k].id = n => MatchTopic(in[c][k].topic, f)
      BY <1>0, <2>1, <2>4 DEF Routed
    <3>2. in'[client'] = Tail(in[c])
      BY <1>0, <2>1, <2>4
    <3>3. \A k \in DOMAIN Tail(in[c]) : k + 1 \in DOMAIN in[c] /\ Tail(in[c])[k] = in[c][k + 1]
      BY <1>0, <2>1
    <3> QED BY <2>1, <2>2, <3>1, <3>2, <3>3 DEF Marked
  <2> QED BY <2>3, <2>4
<1>5. ASSUME NEW g \in Filter, Subscribe(g) PROVE Goal
  BY <1>0, <1>a, <1>5 DEF Subscribe
<1>6. ASSUME NEW g \in Filter, ClearPayload(g) PROVE Goal
  <2>1. f # g /\ entry'[f] = entry[f] /\ n \in due[f]
    BY <1>6 DEF ClearPayload
  <2> QED BY <1>0, <1>a, <1>6, <2>1 DEF ClearPayload
<1>7. ASSUME NEW names \in SUBSET Filter, Unsubscribe(names) PROVE Goal
  BY <1>0, <1>a, <1>7 DEF Unsubscribe
<1>8. CASE Disconnect
  BY <1>8 DEF Disconnect
<1>9. CASE Continue
  <2>1. /\ client' = client /\ link' = link /\ in' = in /\ published' = published
        /\ n \in due[f] /\ f \notin Head(micro).names
    BY <1>9 DEF Continue
  <2>2. entry'[f] = entry[f]
    BY <1>9, <2>1 DEF Continue, Continued
  <2> QED BY <1>a, <2>1, <2>2
<1>10. ASSUME NEW t \in Topic, Publish(t) PROVE Goal
  <2> DEFINE m == [id |-> published + 1, topic |-> t]
  <2>1. /\ client' = client /\ link' = link /\ entry' = entry /\ published' = published + 1
        /\ in'[client] \in {in[client], Append(in[client], m)}
        /\ n \in due[f] \/ (n = published + 1 /\ Marked(f) /\ Matches(t, f))
    BY <1>0, <1>10 DEF Publish
  <2>2. /\ in[client] \in Seq(Message) /\ UpTo(in[client], published)
    BY <1>0, <2>1 DEF Numbered
  <2>3. \A k \in DOMAIN in[client] : in[client][k].id \in Nat /\ in[client][k].id <= published
    <3>1. \A x \in Message : x.id \in Nat
      BY MqttAssumption DEF Message
    <3> QED BY <2>2, <3>1 DEF UpTo
  <2>4. \A k \in DOMAIN in'[client] :
          \/ in'[client][k] = m
          \/ k \in DOMAIN in[client] /\ in'[client][k] = in[client][k]
    <3>1. \A k \in DOMAIN Append(in[client], m) :
            \/ Append(in[client], m)[k] = m
            \/ k \in DOMAIN in[client] /\ Append(in[client], m)[k] = in[client][k]
      <4> HIDE DEF m
      <4>1. /\ DOMAIN Append(in[client], m) = 1..(Len(in[client]) + 1)
            /\ DOMAIN in[client] = 1..Len(in[client]) /\ Len(in[client]) \in Nat
        BY <2>2
      <4>2. \A k \in 1..(Len(in[client]) + 1) :
              Append(in[client], m)[k] = IF k = Len(in[client]) + 1 THEN m ELSE in[client][k]
        BY <2>2
      <4>3. \A l \in Nat : \A k \in 1..(l + 1) : k = l + 1 \/ k \in 1..l
        OBVIOUS
      <4> QED BY <4>1, <4>2, <4>3
    <3> QED BY <2>1, <3>1
  <2>5. m.id = published + 1 /\ m.topic = t
    OBVIOUS
  <2> HIDE DEF m
  <2>6. CASE n \in due[f]
    <3>1. /\ Marked(f) /\ n <= published
          /\ \A k \in DOMAIN in[client] : in[client][k].id = n => MatchTopic(in[client][k].topic, f)
      BY <1>0, <2>1, <2>6 DEF Routed
    <3>2. n \in Nat
      BY <2>6
    <3> QED BY <1>0, <2>1, <2>4, <2>5, <3>1, <3>2 DEF Marked
  <2>7. CASE n = published + 1 /\ Marked(f) /\ Matches(t, f)
    <3>1. MatchTopic(t, f)
      BY <2>7, MatchComplete
    <3>2. Marked(f)' /\ n <= published'
      BY <1>0, <2>1, <2>7 DEF Marked
    <3>3. ASSUME NEW k \in DOMAIN in'[client], in'[client][k].id = n
          PROVE  MatchTopic(in'[client][k].topic, f)
      <4>1. ~(k \in DOMAIN in[client] /\ in'[client][k] = in[client][k])
        BY <1>0, <2>3, <2>7, <3>3
      <4> QED BY <2>4, <2>5, <3>1, <3>3, <4>1
    <3> QED BY <2>1, <3>2, <3>3
  <2> QED BY <2>1, <2>6, <2>7
<1>11. CASE UNCHANGED vars
  BY <1>a, <1>11 DEF vars
<1> QED BY <1>1, <1>2, <1>3, <1>4, <1>5, <1>6, <1>7, <1>8, <1>9, <1>10, <1>11 DEF Next

\* Where a message is that is due: coming, kept, or behind Limit newer ones.
Accounted(q, r, n) ==
  \/ \E i \in DOMAIN r : r[i].id = n
  \/ \E i \in DOMAIN q : q[i].id = n
  \/ Len(q) = Limit /\ n < q[1].id

LEMMA AppendShape ==
  ASSUME NEW q \in Seq(Message), NEW x
  PROVE  /\ Len(Append(q, x)) = Len(q) + 1 /\ Len(q) \in Nat
         /\ Len(q) + 1 \in DOMAIN Append(q, x) /\ Append(q, x)[Len(q) + 1] = x
         /\ \A i \in DOMAIN q : i \in DOMAIN Append(q, x) /\ Append(q, x)[i] = q[i]
OBVIOUS

\* Keeping the first of r accounts for it and for everything accounted before.
LEMMA KeptAccounted ==
  ASSUME NEW q \in Seq(Message), Len(q) <= Limit, Rising(q),
         NEW r \in Seq(Message), r # <<>>, Before(q, r), NEW n \in Nat, Accounted(q, r, n)
  PROVE  Accounted(Kept(q, Head(r)), Tail(r), n)
<1> SUFFICES ASSUME NEW m, m = Head(r), NEW t, t = Tail(r), NEW kept, kept = Kept(q, m)
             PROVE  Accounted(kept, t, n)
  OBVIOUS
<1>0. \A x \in Message : x.id \in Nat
  BY MqttAssumption DEF Message
<1>1. /\ m \in Message /\ m = r[1] /\ Len(q) \in Nat /\ Limit \in Nat \ {0}
      /\ \A i \in DOMAIN r : i # 1 => i - 1 \in DOMAIN t /\ t[i - 1] = r[i]
      /\ \A i \in DOMAIN q : q[i] \in Message /\ q[i].id < m.id
  BY MqttAssumption DEF Before
<1>2. CASE Len(q) < Limit
  <2>1. kept = Append(q, m)
    BY <1>1, <1>2 DEF Kept
  <2>2. /\ Len(q) + 1 \in DOMAIN kept /\ kept[Len(q) + 1] = m
        /\ \A i \in DOMAIN q : i \in DOMAIN kept /\ kept[i] = q[i]
    <3>1. /\ Len(q) + 1 \in DOMAIN Append(q, m) /\ Append(q, m)[Len(q) + 1] = m
          /\ \A i \in DOMAIN q : i \in DOMAIN Append(q, m) /\ Append(q, m)[i] = q[i]
      BY AppendShape
    <3> QED BY <2>1, <3>1
  <2>3. CASE \E i \in DOMAIN r : r[i].id = n
    BY <1>1, <2>2, <2>3, ZenonT(60) DEF Accounted
  <2>4. CASE \E i \in DOMAIN q : q[i].id = n
    BY <2>2, <2>4 DEF Accounted
  <2> QED BY <1>1, <1>2, <2>3, <2>4 DEF Accounted
<1>3. CASE Len(q) = Limit
  <2>1. q # <<>> /\ Tail(q) \in Seq(Message) /\ Len(Tail(q)) = Len(q) - 1
    BY <1>1, <1>3
  <2>2. kept = Append(Tail(q), m)
    BY <1>3 DEF Kept
  <2>3. /\ Len(kept) = Limit /\ Limit \in DOMAIN kept /\ kept[Limit] = m
        /\ \A i \in DOMAIN q : i # 1 => i - 1 \in DOMAIN kept /\ kept[i - 1] = q[i]
    <3>1. /\ Len(kept) = Len(Tail(q)) + 1 /\ kept[Len(Tail(q)) + 1] = m
          /\ Len(Tail(q)) + 1 \in DOMAIN kept
          /\ \A i \in DOMAIN Tail(q) : i \in DOMAIN kept /\ kept[i] = Tail(q)[i]
      BY <2>1, <2>2, AppendShape
    <3>2. \A i \in DOMAIN q : i # 1 => i - 1 \in DOMAIN Tail(q) /\ Tail(q)[i - 1] = q[i]
      BY <2>1
    <3> QED BY <1>1, <1>3, <2>1, <3>1, <3>2, SMTT(30)
  <2>4. q[1].id < kept[1].id /\ q[1].id \in Nat /\ kept[1].id \in Nat
    <3>1. CASE Limit = 1
      <4>1. kept[1] = m /\ 1 \in DOMAIN q
        BY <1>3, <2>3, <3>1
      <4> QED BY <1>0, <1>1, <4>1
    <3>2. CASE Limit # 1
      <4>1. 1 \in DOMAIN q /\ 2 \in DOMAIN q /\ 2 # 1 /\ 2 - 1 = 1
        BY <1>1, <1>3, <3>2
      <4>2. kept[1] = q[2]
        BY <2>3, <4>1
      <4> QED BY <1>0, <1>1, <4>1, <4>2 DEF Rising
    <3> QED BY <3>1, <3>2
  <2>5. CASE \E i \in DOMAIN r : r[i].id = n
    BY <1>1, <2>3, <2>5, ZenonT(60) DEF Accounted
  <2>6. CASE \E i \in DOMAIN q : q[i].id = n
    <3>1. PICK i \in DOMAIN q : q[i].id = n
      BY <2>6
    <3>2. CASE i = 1
      BY <2>3, <2>4, <3>1, <3>2 DEF Accounted
    <3>3. CASE i # 1
      BY <2>3, <3>1, <3>3 DEF Accounted
    <3> QED BY <3>2, <3>3
  <2>7. CASE n < q[1].id
    <3>1. n < kept[1].id
      BY <2>4, <2>7
    <3> QED BY <2>3, <3>1 DEF Accounted
  <2> QED BY <2>5, <2>6, <2>7 DEF Accounted
<1> QED BY <1>1, <1>2, <1>3

LEMMA CompleteStep ==
  TypeOK /\ Fresh /\ Numbered /\ Sorted /\ Routed /\ Complete /\ [Next]_vars => Complete'
<1> SUFFICES ASSUME TypeOK, Fresh, Numbered, Sorted, Routed, Complete, [Next]_vars,
                    ~strayed', client' # 0, link'[client'] = "up",
                    NEW f \in Filter, NEW n \in due'[f]
             PROVE  Accounted(entry'[f].messages, in'[client'], n)
  BY DEF Complete, Accounted
<1> DEFINE Goal == Accounted(entry'[f].messages, in'[client'], n)
<1> USE DEF NetTypes, HistoryTypes, netVars, driverVars, historyVars
<1>0. /\ client' \in Client /\ (client # 0 => client \in Client)
      /\ \A c \in Client : in[c] \in Seq(Message)
      /\ entry[f].messages \in Seq(Message) /\ Len(entry[f].messages) <= Limit
      /\ due[f] \subseteq 1..MaxPublish /\ strayed \in BOOLEAN
  <2>1. client' \in Client
    BY Typing DEF TypeOK, DriverTypes
  <2>2. entry[f] \in [state : State, messages : Seq(Message)]
    BY DEF TypeOK, DriverTypes
  <2> QED BY <2>1, <2>2 DEF TypeOK, DriverTypes
<1>c. ASSUME ~strayed, client # 0, link[client] = "up", n \in due[f]
      PROVE  Accounted(entry[f].messages, in[client], n)
  BY <1>c DEF Complete, Accounted
<1>a. ASSUME strayed' = strayed, client' = client, link[client] = "up", n \in due[f],
             entry'[f] = entry[f], in'[client] = in[client]
      PROVE  Goal
  BY <1>a, <1>c
<1>1. ASSUME NEW c \in Client, Connect(c) \/ ConnectFails(c) \/ BrokerTakes(c) PROVE Goal
  BY <1>0, <1>a, <1>1 DEF Connect, ConnectFails, BrokerTakes, TypeOK
<1>2. ASSUME NEW c \in Client, Connected(c) PROVE Goal
  BY <1>2 DEF Connected
<1>3. ASSUME NEW c \in Client, LinkLost(c) PROVE Goal
  <2>1. /\ client' = client /\ link' = link /\ entry' = entry /\ strayed' = strayed
        /\ in' = [in EXCEPT ![c] = <<>>] /\ n \in due[f]
    BY <1>3 DEF LinkLost
  <2>2. CASE c # client
    <3>1. in'[client] = in[client]
      BY <1>0, <2>1, <2>2 DEF TypeOK
    <3> QED BY <1>a, <2>1, <3>1
  <2>3. CASE c = client
    <3>1. \A i \in DOMAIN in[client] : in[client][i].id # n
      BY <1>3, <2>3 DEF LinkLost
    <3>2. Accounted(entry[f].messages, in[client], n)
      BY <1>c, <2>1
    <3> QED BY <2>1, <3>1, <3>2 DEF Accounted
  <2> QED BY <2>2, <2>3
<1>4. ASSUME NEW c \in Client, Closed(c) PROVE Goal
  <2>1. c # client /\ in'[client] = in[client]
    BY <1>0, <1>4 DEF Closed, TypeOK
  <2> QED BY <1>0, <1>a, <1>4, <2>1 DEF Closed, TypeOK
<1>5. ASSUME NEW c \in Client, OnMessage(c) PROVE Goal
  <2>1. /\ client' = client /\ link' = link /\ n \in due[f] /\ ~strayed
        /\ in[c] # <<>> /\ in' = [in EXCEPT ![c] = Tail(in[c])]
        /\ (c # client => entry' = entry /\ strayed' = strayed)
    BY <1>0, <1>5 DEF OnMessage
  <2>2. CASE c # client
    <3>1. in'[client] = in[client]
      BY <1>0, <2>1, <2>2 DEF TypeOK
    <3> QED BY <1>a, <2>1, <2>2, <3>1
  <2>3. CASE c = client
    <3>1. Accounted(entry[f].messages, in[c], n) /\ in'[client'] = Tail(in[c])
      BY <1>0, <1>c, <2>1, <2>3 DEF TypeOK
    <3>2. CASE entry'[f].messages = Kept(entry[f].messages, Head(in[c]))
      <4>1. Rising(entry[f].messages) /\ Before(entry[f].messages, in[c]) /\ n \in Nat
        BY <1>0, <2>1, <2>3 DEF Sorted
      <4> QED BY <1>0, <2>1, <3>1, <3>2, <4>1, KeptAccounted
    <3>3. CASE entry'[f].messages # Kept(entry[f].messages, Head(in[c]))
      <4>1. entry'[f] = entry[f] /\ ~(Marked(f) /\ MatchTopic(Head(in[c]).topic, f))
        BY <1>5, <3>3, Records
      <4>2. /\ Marked(f)
            /\ \A k \in DOMAIN in[c] : in[c][k].id = n => MatchTopic(in[c][k].topic, f)
        BY <2>1, <2>3 DEF Routed
      <4>3. 1 \in DOMAIN in[c] /\ Head(in[c]) = in[c][1]
        BY <1>0, <2>1
      <4>4. in[c][1].id # n
        BY <4>1, <4>2, <4>3
      <4>5. \A i \in DOMAIN in[c] : i # 1 => i - 1 \in DOMAIN Tail(in[c]) /\ Tail(in[c])[i - 1] = in[c][i]
        BY <1>0, <2>1
      <4> QED BY <3>1, <4>1, <4>4, <4>5, ZenonT(60) DEF Accounted
    <3> QED BY <3>2, <3>3
  <2> QED BY <2>2, <2>3
<1>6. ASSUME NEW g \in Filter, Subscribe(g) PROVE Goal
  BY <1>a, <1>6 DEF Subscribe
<1>7. ASSUME NEW g \in Filter, ClearPayload(g) PROVE Goal
  <2>1. f # g /\ entry'[f] = entry[f] /\ n \in due[f]
    BY <1>7 DEF ClearPayload, TypeOK, DriverTypes
  <2> QED BY <1>a, <1>7, <2>1 DEF ClearPayload
<1>8. ASSUME NEW names \in SUBSET Filter, Unsubscribe(names) PROVE Goal
  BY <1>a, <1>8 DEF Unsubscribe
<1>9. CASE Disconnect
  BY <1>9 DEF Disconnect
<1>10. CASE Continue
  <2>1. /\ client' = client /\ link' = link /\ in' = in /\ strayed' = strayed
        /\ n \in due[f] /\ f \notin Head(micro).names
    BY <1>10 DEF Continue
  <2>2. entry'[f] = entry[f]
    BY <1>10, <2>1 DEF Continue, Continued
  <2> QED BY <1>a, <2>1, <2>2
<1>11. ASSUME NEW t \in Topic, Publish(t) PROVE Goal
  <2> DEFINE m == [id |-> published + 1, topic |-> t]
  <2>1. /\ client' = client /\ link' = link /\ entry' = entry /\ strayed' = strayed
        /\ in'[client] \in {in[client], Append(in[client], m)}
        /\ n \in due[f] \/ (n = published + 1 /\ in'[client] = Append(in[client], m))
    BY <1>0, <1>11 DEF Publish
  <2>2. m.id = published + 1
    OBVIOUS
  <2> HIDE DEF m
  <2>3. /\ Len(in[client]) + 1 \in DOMAIN Append(in[client], m)
        /\ Append(in[client], m)[Len(in[client]) + 1] = m
        /\ \A i \in DOMAIN in[client] : /\ i \in DOMAIN Append(in[client], m)
                                        /\ Append(in[client], m)[i] = in[client][i]
    BY <1>0, <2>1
  <2>4. CASE n \in due[f]
    BY <1>c, <2>1, <2>3, <2>4 DEF Accounted
  <2>5. CASE n = published + 1 /\ in'[client] = Append(in[client], m)
    BY <2>1, <2>2, <2>3, <2>5 DEF Accounted
  <2> QED BY <2>1, <2>4, <2>5
<1>12. CASE UNCHANGED vars
  BY <1>a, <1>12 DEF vars
<1> QED BY <1>1, <1>2, <1>3, <1>4, <1>5, <1>6, <1>7, <1>8, <1>9, <1>10, <1>11, <1>12 DEF Next

\* On a client that is up, what the broker sent for a subscribed topic is on its
\* way, kept, or made room for Limit newer messages, for any overlapping filters
\* (matchTopic, the message handler).
THEOREM NothingMissed == Spec => []Complete
<1>1. Init => Fresh /\ Numbered /\ Sorted /\ Routed /\ Complete
  BY DEF Init, Fresh, Numbered, Sorted, Routed, Complete, Rising, UpTo, Before, Absent, Client
<1> QED BY <1>1, InitTyped, Typing, FreshStep, NumberedStep, SortedStep, RoutedStep,
           CompleteStep, PTL DEF Spec

\* For any topics, filters and limit, however subscriptions overlap, links are
\* lost and connections follow each other, what the broker sends for a subscribed
\* topic is kept for it and nothing else is.
THEOREM KeptAsSubscribed == Spec => []MessagesKept
<1>1. Complete /\ Filed => MessagesKept
  BY DEF MessagesKept
<1> QED BY <1>1, NothingMissed, KeptWhereMatched, PTL
=============================================================================
