----------------------------- MODULE HubProofs -----------------------------
(***************************************************************************)
(* Proofs about the broker, for any number of connections, subscriptions   *)
(* and events and any channel capacities; and about the endpoint composed  *)
(* with it, for any number of addresses and limit: the composition is a    *)
(* run of Hub, so that what is shown of Hub holds in it; the limiter is    *)
(* exact on every path of the handler; no connection that is read from is  *)
(* deaf.                                                                   *)
(***************************************************************************)
EXTENDS HubFeed, WsServer, FiniteSetTheorems, TLAPS

(***************************************************************************)
(* Type correctness                                                        *)
(***************************************************************************)

\* Receiving from a buffered channel that is not empty.
LEMMA ReceiveTyped ==
  ASSUME NEW S, NEW q \in Seq(S), q # <<>>
  PROVE  /\ Head(q) \in S
         /\ Tail(q) \in Seq(S)
         /\ Len(Tail(q)) = Len(q) - 1
         /\ Len(q) \in Nat \ {0}
         /\ \A i \in 1..Len(Tail(q)) : Tail(q)[i] = q[i + 1]
         /\ Head(q) = q[1]
OBVIOUS

\* Sending on a buffered channel.
LEMMA SendTyped ==
  ASSUME NEW S, NEW q \in Seq(S), NEW e \in S
  PROVE  /\ Append(q, e) \in Seq(S)
         /\ Len(Append(q, e)) = Len(q) + 1
         /\ Len(q) \in Nat
         /\ \A i \in 1..Len(q) : Append(q, e)[i] = q[i]
         /\ Append(q, e)[Len(q) + 1] = e
OBVIOUS

\* A group of variables that a step leaves alone keeps its types.
LEMMA UnchangedTyped ==
  /\ ChannelsTyped /\ UNCHANGED channels => ChannelsTyped'
  /\ RegistryTyped /\ UNCHANGED registry => RegistryTyped'
  /\ FanoutTyped /\ UNCHANGED fanout => FanoutTyped'
  /\ OutboxTyped /\ UNCHANGED outbox => OutboxTyped'
  /\ CallersTyped /\ UNCHANGED callers => CallersTyped'
  /\ TallyTyped /\ UNCHANGED tally => TallyTyped'
<1>1. ChannelsTyped /\ UNCHANGED channels => ChannelsTyped'
  BY DEF ChannelsTyped, channels
<1>2. RegistryTyped /\ UNCHANGED registry => RegistryTyped'
  BY DEF RegistryTyped, registry
<1>3. FanoutTyped /\ UNCHANGED fanout => FanoutTyped'
  BY DEF FanoutTyped, fanout
<1>4. OutboxTyped /\ UNCHANGED outbox => OutboxTyped'
  BY DEF OutboxTyped, outbox
<1>5. CallersTyped /\ UNCHANGED callers => CallersTyped'
  BY DEF CallersTyped, callers
<1>6. TallyTyped /\ UNCHANGED tally => TallyTyped'
  BY DEF TallyTyped, tally
<1> QED BY <1>1, <1>2, <1>3, <1>4, <1>5, <1>6

\* The variables start with values of their types.
LEMMA InitTypeOK == Init => TypeOK
<1> SUFFICES ASSUME Init PROVE TypeOK
  OBVIOUS
<1>1. ChannelsTyped
  BY HubAssumption DEF Init, ChannelsTyped, HubAssumption
<1>2. OutboxTyped
  BY HubAssumption DEF Init, OutboxTyped, HubAssumption
<1>3. RegistryTyped /\ FanoutTyped /\ CallersTyped /\ TallyTyped
  BY DEF Init, RegistryTyped, FanoutTyped, CallersTyped, TallyTyped
<1> QED BY <1>1, <1>2, <1>3 DEF TypeOK

\* A message that fits its channel keeps the channels typed.
LEMMA RequestTyped ==
  ASSUME TypeOK, NEW msg \in SubscribeMsg, RequestSubscribe(msg)
  PROVE  ChannelsTyped' /\ RegistryTyped' /\ FanoutTyped' /\ OutboxTyped' /\ TallyTyped'
<1>1. ChannelsTyped'
  BY HubAssumption DEF RequestSubscribe, ChannelsTyped, TypeOK, HubAssumption
<1>2. UNCHANGED <<registry, fanout, outbox, tally>>
  BY DEF RequestSubscribe
<1> QED BY <1>1, <1>2, UnchangedTyped DEF TypeOK

\* NewClient keeps the types.
LEMMA NewClientTypeOK ==
  ASSUME TypeOK, NEW c \in Clients, NewClient(c)
  PROVE  TypeOK'
<1>1. [type |-> "register", client |-> c] \in SubscribeMsg
  BY DEF SubscribeMsg
<1>2. CallersTyped'
  BY DEF NewClient, CallersTyped, TypeOK
<1> QED BY <1>1, <1>2, RequestTyped DEF NewClient, TypeOK

\* AddScope keeps the types.
LEMMA AddScopeTypeOK ==
  ASSUME TypeOK, NEW c \in Clients, NEW id \in SubIds, AddScope(c, id)
  PROVE  TypeOK'
<1>1. [type |-> "scope", client |-> c, id |-> id] \in SubscribeMsg
  BY DEF SubscribeMsg
<1>2. CallersTyped'
  BY DEF AddScope, CallersTyped, TypeOK
<1> QED BY <1>1, <1>2, RequestTyped DEF AddScope, TypeOK

\* SetResolvePath keeps the types.
LEMMA SetResolvePathTypeOK ==
  ASSUME TypeOK, NEW c \in Clients, NEW on \in BOOLEAN, SetResolvePath(c, on)
  PROVE  TypeOK'
<1>1. [type |-> "configure", client |-> c, on |-> on] \in SubscribeMsg
  BY DEF SubscribeMsg
<1>2. CallersTyped'
  BY DEF SetResolvePath, CallersTyped, TypeOK
<1> QED BY <1>1, <1>2, RequestTyped DEF SetResolvePath, TypeOK

\* RemoveScope keeps the types.
LEMMA RemoveScopeTypeOK ==
  ASSUME TypeOK, NEW c \in Clients, NEW id \in SubIds, RemoveScope(c, id)
  PROVE  TypeOK'
<1>1. ChannelsTyped'
  BY HubAssumption DEF RemoveScope, ChannelsTyped, TypeOK, HubAssumption, UnsubscribeMsg
<1>2. CallersTyped'
  BY DEF RemoveScope, CallersTyped, TypeOK
<1>3. UNCHANGED <<registry, fanout, outbox, tally>>
  BY DEF RemoveScope
<1> QED BY <1>1, <1>2, <1>3, UnchangedTyped DEF TypeOK

\* Remove keeps the types.
LEMMA RemoveTypeOK ==
  ASSUME TypeOK, NEW c \in Clients, Remove(c)
  PROVE  TypeOK'
<1>1. ChannelsTyped'
  BY HubAssumption DEF Remove, ChannelsTyped, TypeOK, HubAssumption
<1>2. CallersTyped'
  BY DEF Remove, CallersTyped, TypeOK
<1>3. UNCHANGED <<registry, fanout, outbox, tally>>
  BY DEF Remove
<1> QED BY <1>1, <1>2, <1>3, UnchangedTyped DEF TypeOK

\* Broadcast keeps the types.
LEMMA BroadcastTypeOK ==
  ASSUME TypeOK, NEW kind \in Kinds, NEW resolved \in BOOLEAN, Broadcast(kind, resolved)
  PROVE  TypeOK'
<1>1. published + 1 \in Nat
  BY DEF TypeOK, CallersTyped
<1>2. [n |-> published + 1, kind |-> kind, resolved |-> resolved] \in Event
  BY <1>1 DEF Event
<1>3. ChannelsTyped'
  BY <1>2, HubAssumption DEF Broadcast, ChannelsTyped, TypeOK, HubAssumption
<1>4. CallersTyped'
  BY DEF Broadcast, CallersTyped, TypeOK
<1>5. UNCHANGED <<registry, fanout, outbox, tally>>
  BY DEF Broadcast
<1> QED BY <1>3, <1>4, <1>5, UnchangedTyped DEF TypeOK

\* WritePump keeps the types.
LEMMA WritePumpTypeOK ==
  ASSUME TypeOK, NEW c \in Clients, WritePump(c)
  PROVE  TypeOK'
<1>1. CASE ReceiveEvent(c)
  <2>1. OutboxTyped'
    <3>1. send[c] \in Seq(Delivery) /\ send[c] # <<>>
      BY <1>1 DEF ReceiveEvent, OutboxTyped, TypeOK
    <3>2. Tail(send[c]) \in Seq(Delivery) /\ Len(Tail(send[c])) <= SendCap
      BY <3>1, ReceiveTyped, HubAssumption DEF OutboxTyped, TypeOK, HubAssumption
    <3> QED BY <1>1, <3>2 DEF ReceiveEvent, OutboxTyped, TypeOK
  <2>2. TallyTyped'
    <3>1. Head(send[c]) \in Delivery
      BY <1>1, ReceiveTyped DEF ReceiveEvent, OutboxTyped, TypeOK
    <3> QED BY <1>1, <3>1 DEF ReceiveEvent, TallyTyped, TypeOK, Delivery
  <2>3. UNCHANGED <<channels, registry, fanout, callers>>
    BY <1>1 DEF ReceiveEvent
  <2> QED BY <2>1, <2>2, <2>3, UnchangedTyped DEF TypeOK
<1>2. CASE ReceiveLagged(c)
  <2>1. OutboxTyped'
    <3>1. lagged[c] \in Seq(Nat) /\ lagged[c] # <<>>
      BY <1>2 DEF ReceiveLagged, OutboxTyped, TypeOK
    <3>2. Tail(lagged[c]) \in Seq(Nat) /\ Len(Tail(lagged[c])) <= LaggedCap
      BY <3>1, ReceiveTyped, HubAssumption DEF OutboxTyped, TypeOK, HubAssumption
    <3> QED BY <1>2, <3>2 DEF ReceiveLagged, OutboxTyped, TypeOK
  <2>2. UNCHANGED <<channels, registry, fanout, callers, tally>>
    BY <1>2 DEF ReceiveLagged
  <2> QED BY <2>1, <2>2, UnchangedTyped DEF TypeOK
<1> QED BY <1>1, <1>2 DEF WritePump

\* What Run takes from the subscribe channel is one of the three messages.
LEMMA HandleSubscribeTypeOK ==
  ASSUME TypeOK, HandleSubscribe
  PROVE  TypeOK'
<1> DEFINE msg == Head(subscribe)
<1>1. msg \in SubscribeMsg
  BY DEF HandleSubscribe, TypeOK, ChannelsTyped
<1>2. ChannelsTyped'
  <2>1. subscribe # <<>> /\ subscribe \in Seq(SubscribeMsg) /\ subscribe' = Tail(subscribe)
    BY DEF HandleSubscribe, ChannelsTyped, TypeOK
  <2>2. subscribe' \in Seq(SubscribeMsg) /\ Len(subscribe') = Len(subscribe) - 1 /\ Len(subscribe) \in Nat \ {0}
    BY <2>1, ReceiveTyped
  <2> QED BY <2>2, HubAssumption DEF HandleSubscribe, ChannelsTyped, TypeOK, HubAssumption
<1>3. RegistryTyped'
  <2>1. CASE Register(msg)
    BY <1>1, <2>1 DEF Register, SubscribeMsg, RegistryTyped, TypeOK
  <2>2. CASE Configure(msg)
    BY <1>1, <2>2 DEF Configure, SubscribeMsg, RegistryTyped, TypeOK
  <2>3. CASE Subscribe(msg)
    BY <1>1, <2>3 DEF Subscribe, SubscribeMsg, RegistryTyped, TypeOK
  <2> QED BY <2>1, <2>2, <2>3 DEF HandleSubscribe
<1>4. UNCHANGED <<fanout, outbox, callers, tally>>
  BY DEF HandleSubscribe
<1> QED BY <1>2, <1>3, <1>4, UnchangedTyped DEF TypeOK

\* HandleUnsubscribe keeps the types.
LEMMA HandleUnsubscribeTypeOK ==
  ASSUME TypeOK, HandleUnsubscribe
  PROVE  TypeOK'
<1>1. Head(unsubscribe) \in UnsubscribeMsg
  BY DEF HandleUnsubscribe, TypeOK, ChannelsTyped
<1>2. ChannelsTyped'
  <2>1. unsubscribe # <<>> /\ unsubscribe \in Seq(UnsubscribeMsg) /\ unsubscribe' = Tail(unsubscribe)
    BY DEF HandleUnsubscribe, ChannelsTyped, TypeOK
  <2>2. unsubscribe' \in Seq(UnsubscribeMsg) /\ Len(unsubscribe') = Len(unsubscribe) - 1 /\ Len(unsubscribe) \in Nat \ {0}
    BY <2>1, ReceiveTyped
  <2> QED BY <2>2, HubAssumption DEF HandleUnsubscribe, ChannelsTyped, TypeOK, HubAssumption
<1>3. RegistryTyped'
  BY <1>1 DEF HandleUnsubscribe, RegistryTyped, TypeOK, UnsubscribeMsg
<1>4. UNCHANGED <<fanout, outbox, callers, tally>>
  BY DEF HandleUnsubscribe
<1> QED BY <1>2, <1>3, <1>4, UnchangedTyped DEF TypeOK

\* HandleRemove keeps the types.
LEMMA HandleRemoveTypeOK ==
  ASSUME TypeOK, HandleRemove
  PROVE  TypeOK'
<1>1. ChannelsTyped'
  <2>1. remove # <<>> /\ remove \in Seq(Clients) /\ remove' = Tail(remove)
    BY DEF HandleRemove, ChannelsTyped, TypeOK
  <2>2. remove' \in Seq(Clients) /\ Len(remove') = Len(remove) - 1 /\ Len(remove) \in Nat \ {0}
    BY <2>1, ReceiveTyped
  <2> QED BY <2>2, HubAssumption DEF HandleRemove, ChannelsTyped, TypeOK, HubAssumption
<1>2. RegistryTyped'
  BY DEF HandleRemove, RegistryTyped, TypeOK
<1>3. OutboxTyped'
  BY DEF HandleRemove, OutboxTyped, RegistryTyped, TypeOK
<1>4. UNCHANGED <<fanout, callers, tally>>
  BY DEF HandleRemove
<1> QED BY <1>1, <1>2, <1>3, <1>4, UnchangedTyped DEF TypeOK

\* HandleBroadcast keeps the types.
LEMMA HandleBroadcastTypeOK ==
  ASSUME TypeOK, HandleBroadcast
  PROVE  TypeOK'
<1>1. ChannelsTyped'
  <2>1. broadcast # <<>> /\ broadcast \in Seq(Event) /\ broadcast' = Tail(broadcast)
    BY DEF HandleBroadcast, ChannelsTyped, TypeOK
  <2>2. broadcast' \in Seq(Event) /\ Len(broadcast') = Len(broadcast) - 1 /\ Len(broadcast) \in Nat \ {0}
    BY <2>1, ReceiveTyped
  <2> QED BY <2>2, HubAssumption DEF HandleBroadcast, ChannelsTyped, TypeOK, HubAssumption
<1>2. FanoutTyped'
  BY DEF HandleBroadcast, FanoutTyped, ChannelsTyped, RegistryTyped, TypeOK
<1>3. UNCHANGED <<registry, outbox, callers, tally>>
  BY DEF HandleBroadcast
<1> QED BY <1>1, <1>2, <1>3, UnchangedTyped DEF TypeOK

\* Visit keeps the types.
LEMMA VisitTypeOK ==
  ASSUME TypeOK, NEW c \in Clients, Visit(c)
  PROVE  TypeOK'
<1>1. evt[1] \in Event
  BY DEF Visit, TypeOK, FanoutTyped
<1>2. [n |-> evt[1].n, resolved |-> resolvePath[c] /\ evt[1].resolved] \in Delivery
  BY <1>1 DEF Event, Delivery
<1>3. OutboxTyped'
  <2> DEFINE d == [n |-> evt[1].n, resolved |-> resolvePath[c] /\ evt[1].resolved]
  <2>1. send[c] \in Seq(Delivery)
    BY DEF OutboxTyped, TypeOK
  <2>2. Append(send[c], d) \in Seq(Delivery) /\ Len(Append(send[c], d)) = Len(send[c]) + 1
    BY <1>2, <2>1, SendTyped
  <2>3. send' = send \/ (Len(send[c]) < SendCap /\ send' = [send EXCEPT ![c] = Append(@, d)])
    BY DEF Visit
  <2>4. UNCHANGED <<lagged, closed>>
    BY DEF Visit
  <2> HIDE DEF d
  <2>5. CASE send' = send
    BY <2>4, <2>5 DEF OutboxTyped, TypeOK
  <2>6. CASE Len(send[c]) < SendCap /\ send' = [send EXCEPT ![c] = Append(@, d)]
    <3>1. SendCap \in Nat /\ Len(send[c]) \in Nat
      BY <2>1, HubAssumption DEF HubAssumption
    <3>2. Append(send[c], d) \in Seq(Delivery) /\ Len(Append(send[c], d)) <= SendCap
      BY <2>2, <2>6, <3>1
    <3> QED BY <2>4, <2>6, <3>2 DEF OutboxTyped, TypeOK
  <2> QED BY <2>3, <2>5, <2>6
<1>4. FanoutTyped'
  BY DEF Visit, FanoutTyped, TypeOK
<1>5. TallyTyped'
  <2>1. missed' = missed \/ missed' = [missed EXCEPT ![c] = @ + 1]
    BY DEF Visit
  <2>2. UNCHANGED <<read, reported, unsaid>>
    BY DEF Visit
  <2> QED BY <2>1, <2>2 DEF TallyTyped, TypeOK
<1>6. UNCHANGED <<channels, registry, callers>>
  BY DEF Visit
<1> QED BY <1>3, <1>4, <1>5, <1>6, UnchangedTyped DEF TypeOK

\* EvictOldest keeps the types.
LEMMA EvictOldestTypeOK ==
  ASSUME TypeOK, NEW c \in Clients, EvictOldest(c)
  PROVE  TypeOK'
<1>1. OutboxTyped'
  <2>1. CASE send[c] = <<>>
    BY <2>1 DEF EvictOldest, OutboxTyped, TypeOK
  <2>2. CASE send[c] # <<>>
    <3>1. Tail(send[c]) \in Seq(Delivery) /\ Len(Tail(send[c])) <= SendCap
      BY <2>2, ReceiveTyped, HubAssumption DEF OutboxTyped, TypeOK, HubAssumption
    <3> QED BY <2>2, <3>1 DEF EvictOldest, OutboxTyped, TypeOK
  <2> QED BY <2>1, <2>2
<1>2. FanoutTyped'
  BY DEF EvictOldest, FanoutTyped, TypeOK
<1>3. TallyTyped'
  BY DEF EvictOldest, TallyTyped, TypeOK
<1>4. UNCHANGED <<channels, registry, callers>>
  BY DEF EvictOldest
<1> QED BY <1>1, <1>2, <1>3, <1>4, UnchangedTyped DEF TypeOK

\* NotifyLagged keeps the types.
LEMMA NotifyLaggedTypeOK ==
  ASSUME TypeOK, NEW c \in Clients, NotifyLagged(c)
  PROVE  TypeOK'
<1>1. OutboxTyped'
  <2>1. lagged[c] \in Seq(Nat) /\ DroppedCount \in Nat
    BY DEF OutboxTyped, TypeOK, DroppedCount
  <2>2. Append(lagged[c], DroppedCount) \in Seq(Nat)
        /\ Len(Append(lagged[c], DroppedCount)) = Len(lagged[c]) + 1
    BY <2>1, SendTyped
  <2>3. \/ lagged' = lagged
        \/ /\ Len(lagged[c]) < LaggedCap
           /\ lagged' = [lagged EXCEPT ![c] = Append(@, DroppedCount)]
    BY DEF NotifyLagged
  <2>4. UNCHANGED <<send, closed>>
    BY DEF NotifyLagged
  <2>5. CASE lagged' = lagged
    BY <2>4, <2>5 DEF OutboxTyped, TypeOK
  <2>6. CASE Len(lagged[c]) < LaggedCap /\ lagged' = [lagged EXCEPT ![c] = Append(@, DroppedCount)]
    <3>1. LaggedCap \in Nat /\ Len(lagged[c]) \in Nat
      BY <2>1, HubAssumption DEF HubAssumption
    <3>2. Append(lagged[c], DroppedCount) \in Seq(Nat)
          /\ Len(Append(lagged[c], DroppedCount)) <= LaggedCap
      BY <2>2, <2>6, <3>1
    <3> QED BY <2>4, <2>6, <3>2 DEF OutboxTyped, TypeOK
  <2> QED BY <2>3, <2>5, <2>6
<1>2. FanoutTyped'
  BY DEF NotifyLagged, FanoutTyped, TypeOK
<1>3. TallyTyped'
  <2>1. reported' = reported \/ reported' = [reported EXCEPT ![c] = @ + 1]
    BY DEF NotifyLagged, DroppedCount
  <2>2. unsaid' = unsaid \/ unsaid' = [unsaid EXCEPT ![c] = @ + 1]
    BY DEF NotifyLagged
  <2>3. UNCHANGED <<read, missed>>
    BY DEF NotifyLagged
  <2> QED BY <2>1, <2>2, <2>3 DEF TallyTyped, TypeOK
<1>4. UNCHANGED <<channels, registry, callers>>
  BY DEF NotifyLagged
<1> QED BY <1>1, <1>2, <1>3, <1>4, UnchangedTyped DEF TypeOK

\* EndFanout keeps the types.
LEMMA EndFanoutTypeOK ==
  ASSUME TypeOK, EndFanout
  PROVE  TypeOK'
<1>1. FanoutTyped'
  BY DEF EndFanout, FanoutTyped, TypeOK
<1>2. UNCHANGED <<channels, registry, outbox, callers, tally>>
  BY DEF EndFanout
<1> QED BY <1>1, <1>2, UnchangedTyped DEF TypeOK

\* Every variable of the broker keeps its type and no channel ever holds more
\* than its capacity, whatever the connections and publishers do.
THEOREM TypeCorrect == Spec => []TypeOK
<1>1. TypeOK /\ [Next]_vars => TypeOK'
  <2> SUFFICES ASSUME TypeOK, [Next]_vars PROVE TypeOK'
    OBVIOUS
  <2>1. CASE Run
    BY <2>1, HandleSubscribeTypeOK, HandleUnsubscribeTypeOK, HandleRemoveTypeOK,
       HandleBroadcastTypeOK, VisitTypeOK, EvictOldestTypeOK, NotifyLaggedTypeOK,
       EndFanoutTypeOK DEF Run, Fanout
  <2>2. ASSUME NEW c \in Clients, Handler(c) PROVE TypeOK'
    BY <2>2, NewClientTypeOK, RemoveTypeOK, AddScopeTypeOK, RemoveScopeTypeOK,
       SetResolvePathTypeOK DEF Handler
  <2>3. ASSUME NEW c \in Clients, WritePump(c) PROVE TypeOK'
    BY <2>3, WritePumpTypeOK
  <2>4. ASSUME NEW kind \in Kinds, NEW resolved \in BOOLEAN, Broadcast(kind, resolved)
        PROVE  TypeOK'
    BY <2>4, BroadcastTypeOK
  <2>5. CASE UNCHANGED vars
    BY <2>5, UnchangedTyped DEF vars, TypeOK
  <2> QED BY <2>1, <2>2, <2>3, <2>4, <2>5 DEF Next
<1> QED BY InitTypeOK, <1>1, PTL DEF Spec

(***************************************************************************)
(* Run never sends on a closed channel                                     *)
(***************************************************************************)

\* The variables RegisteredOnce is about.
registration == <<subscribe, clients, closed, phase, evt, todo, full, owed>>

\* RegisteredOnce depends on these variables only.
LEMMA UnchangedRegistration ==
  RegisteredOnce /\ UNCHANGED registration => RegisteredOnce'
BY DEF RegisteredOnce, Registering, registration

\* A registration joins the queue once, for a client not seen before.
LEMMA NewClientRegisteredOnce ==
  ASSUME TypeOK, RegisteredOnce, NEW c \in Clients, NewClient(c)
  PROVE  RegisteredOnce'
<1> DEFINE msg == [type |-> "register", client |-> c]
<1>1. /\ subscribe' = Append(subscribe, msg) /\ phase[c] = "unborn"
      /\ phase' = [phase EXCEPT ![c] = "open"]
      /\ UNCHANGED <<clients, closed, evt, todo, full, owed>>
  BY DEF NewClient, RequestSubscribe, registry, outbox, fanout
<1>2. subscribe \in Seq(SubscribeMsg) /\ msg \in SubscribeMsg
  BY DEF TypeOK, ChannelsTyped, SubscribeMsg
<1>3. /\ Len(subscribe') = Len(subscribe) + 1 /\ Len(subscribe) \in Nat
      /\ \A i \in 1..Len(subscribe) : subscribe'[i] = subscribe[i]
      /\ subscribe'[Len(subscribe) + 1] = msg
  BY <1>1, <1>2, SendTyped
<1>4. \A i \in 1..Len(subscribe) : ~Registering(subscribe, i, c)
  BY <1>1 DEF RegisteredOnce
<1>5. ASSUME NEW d \in Clients, NEW i \in 1..Len(subscribe'), Registering(subscribe', i, d)
      PROVE  /\ d \notin clients \cup closed
             /\ phase'[d] # "unborn"
             /\ \A j \in 1..Len(subscribe') : Registering(subscribe', j, d) => j = i
  <2>1. phase \in [Clients -> {"unborn", "open", "left"}]
    BY DEF TypeOK, CallersTyped
  <2>2. CASE i = Len(subscribe) + 1
    <3>1. d = c
      BY <1>3, <1>5, <2>2 DEF Registering
    <3>2. d \notin clients \cup closed /\ phase'[d] # "unborn"
      BY <1>1, <2>1, <3>1 DEF RegisteredOnce
    <3>3. \A j \in 1..Len(subscribe) : ~Registering(subscribe', j, d)
      BY <1>3, <1>4, <3>1 DEF Registering
    <3> QED BY <1>3, <2>2, <3>2, <3>3
  <2>3. CASE i \in 1..Len(subscribe)
    <3>1. Registering(subscribe, i, d)
      BY <1>3, <1>5, <2>3 DEF Registering
    <3>2. d # c /\ d \notin clients \cup closed /\ phase'[d] # "unborn"
      BY <1>1, <1>4, <2>1, <2>3, <3>1 DEF RegisteredOnce
    <3>3. \A j \in 1..Len(subscribe) : Registering(subscribe', j, d) => j = i
      BY <1>3, <2>3, <3>1 DEF RegisteredOnce, Registering
    <3>4. subscribe'[Len(subscribe) + 1].client = c
      BY <1>3
    <3>5. ~Registering(subscribe', Len(subscribe) + 1, d)
      BY <3>2, <3>4 DEF Registering
    <3>6. ASSUME NEW j \in 1..Len(subscribe'), Registering(subscribe', j, d) PROVE j = i
      <4>1. j \in 1..Len(subscribe) \/ j = Len(subscribe) + 1
        BY <1>3
      <4> QED BY <3>3, <3>5, <3>6, <4>1
    <3> QED BY <3>2, <3>6
  <2> QED BY <1>3, <2>2, <2>3
<1>6. \A d \in Clients : phase'[d] = "unborn" => d \notin clients \cup closed
  BY <1>1 DEF RegisteredOnce, TypeOK, CallersTyped
<1> QED BY <1>1, <1>5, <1>6 DEF RegisteredOnce

\* Scopes and configures may join the queue: they register nobody.
LEMMA RequestRegisteredOnce ==
  ASSUME TypeOK, RegisteredOnce, NEW msg \in SubscribeMsg, msg.type # "register",
         RequestSubscribe(msg), UNCHANGED phase
  PROVE  RegisteredOnce'
<1>1. subscribe' = Append(subscribe, msg)
      /\ UNCHANGED <<clients, closed, evt, todo, full, owed, phase>>
  BY DEF RequestSubscribe, registry, outbox, fanout
<1>2. /\ Len(subscribe') = Len(subscribe) + 1 /\ Len(subscribe) \in Nat
      /\ \A i \in 1..Len(subscribe) : subscribe'[i] = subscribe[i]
      /\ subscribe'[Len(subscribe) + 1] = msg
  BY <1>1, SendTyped DEF TypeOK, ChannelsTyped
<1>3. \A d \in Clients : ~Registering(subscribe', Len(subscribe) + 1, d)
  BY <1>2 DEF Registering
<1>4. ASSUME NEW d \in Clients, NEW i \in 1..Len(subscribe'), Registering(subscribe', i, d)
      PROVE  i \in 1..Len(subscribe) /\ Registering(subscribe, i, d)
  <2>1. i \in 1..Len(subscribe) \/ i = Len(subscribe) + 1
    BY <1>2
  <2>2. i # Len(subscribe) + 1
    BY <1>3, <1>4
  <2> QED BY <1>2, <1>4, <2>1, <2>2 DEF Registering
<1>5. ASSUME NEW d \in Clients, NEW i \in 1..Len(subscribe'), Registering(subscribe', i, d)
      PROVE  /\ d \notin clients \cup closed /\ phase[d] # "unborn"
             /\ \A j \in 1..Len(subscribe') : Registering(subscribe', j, d) => j = i
  BY <1>4, <1>5 DEF RegisteredOnce
<1> QED BY <1>1, <1>5 DEF RegisteredOnce

\* Registering a client consumes the only registration queued for it.
LEMMA HandleSubscribeRegisteredOnce ==
  ASSUME TypeOK, RegisteredOnce, HandleSubscribe
  PROVE  RegisteredOnce'
<1> DEFINE msg == Head(subscribe)
<1>1. subscribe # <<>> /\ subscribe' = Tail(subscribe) /\ evt = <<>>
      /\ UNCHANGED <<closed, evt, todo, full, owed, phase>>
  BY DEF HandleSubscribe, outbox, fanout, callers
<1>2. /\ Len(subscribe') = Len(subscribe) - 1 /\ Len(subscribe) \in Nat \ {0}
      /\ \A i \in 1..Len(subscribe') : subscribe'[i] = subscribe[i + 1]
      /\ msg = subscribe[1] /\ msg \in SubscribeMsg
  BY <1>1, ReceiveTyped DEF TypeOK, ChannelsTyped
<1>3. \A d \in Clients, i \in 1..Len(subscribe') : Registering(subscribe', i, d) <=> Registering(subscribe, i + 1, d)
  BY <1>2 DEF Registering
<1>4. todo = {} /\ full = {} /\ owed = {}
  BY <1>1 DEF RegisteredOnce
<1>5. CASE clients' = clients
  BY <1>1, <1>2, <1>3, <1>5 DEF RegisteredOnce
<1>6. CASE Register(msg)
  <2>1. clients' = clients \cup {msg.client} /\ msg.client \in Clients
    BY <1>2, <1>6 DEF Register, SubscribeMsg
  <2>2. Registering(subscribe, 1, msg.client)
    BY <1>2, <1>6 DEF Register, Registering
  <2>3. /\ msg.client \notin closed /\ phase[msg.client] # "unborn"
        /\ \A j \in 1..Len(subscribe) : Registering(subscribe, j, msg.client) => j = 1
    BY <1>2, <2>1, <2>2 DEF RegisteredOnce
  <2>4. ASSUME NEW i \in 1..Len(subscribe'), Registering(subscribe', i, msg.client) PROVE FALSE
    <3>1. i + 1 \in 1..Len(subscribe) /\ i + 1 # 1
      BY <1>2
    <3> QED BY <1>3, <2>1, <2>3, <2>4, <3>1
  <2> QED BY <1>1, <1>2, <1>3, <1>4, <2>1, <2>3, <2>4 DEF RegisteredOnce
<1> QED BY <1>5, <1>6 DEF HandleSubscribe, Configure, Subscribe

\* A removal moves a client from the map to the closed ones.
LEMMA HandleRemoveRegisteredOnce ==
  ASSUME TypeOK, RegisteredOnce, HandleRemove
  PROVE  RegisteredOnce'
<1>1. /\ clients' = clients \ {Head(remove)} /\ evt = <<>>
      /\ closed' = closed \cup (clients \cap {Head(remove)})
      /\ UNCHANGED <<subscribe, evt, todo, full, owed, phase>>
  BY DEF HandleRemove, fanout, callers
<1>2. \A d : d \in clients' \cup closed' => d \in clients \cup closed
  BY <1>1
<1> QED BY <1>1, <1>2 DEF RegisteredOnce, Registering

\* The fan-out concerns clients in the map and leaves the map alone.
LEMMA FanoutRegisteredOnce ==
  ASSUME TypeOK, RegisteredOnce, HandleBroadcast \/ Fanout
  PROVE  RegisteredOnce'
<1>1. UNCHANGED <<subscribe, clients, closed, phase>>
  BY DEF HandleBroadcast, Fanout, Visit, EvictOldest, NotifyLagged, EndFanout,
         channels, registry, outbox, callers
<1>2. /\ todo' \cup full' \cup owed' \subseteq clients'
      /\ evt' = <<>> => todo' = {} /\ full' = {} /\ owed' = {}
  <2>1. CASE HandleBroadcast
    BY <1>1, <2>1 DEF HandleBroadcast, RegisteredOnce
  <2>2. CASE EndFanout
    BY <1>1, <2>2 DEF EndFanout
  <2>3. ASSUME NEW c \in Clients, Visit(c)
        PROVE  <1>2
    BY <1>1, <2>3 DEF Visit, RegisteredOnce
  <2>4. ASSUME NEW c \in Clients, EvictOldest(c) \/ NotifyLagged(c)
        PROVE  <1>2
    BY <1>1, <2>4 DEF EvictOldest, NotifyLagged, RegisteredOnce
  <2> QED BY <2>1, <2>2, <2>3, <2>4 DEF Fanout
<1> QED BY <1>1, <1>2 DEF RegisteredOnce, Registering

\* Every step keeps registrations unique.
LEMMA NextRegisteredOnce ==
  ASSUME TypeOK, RegisteredOnce, [Next]_vars
  PROVE  RegisteredOnce'
<1>1. CASE HandleSubscribe
  BY <1>1, HandleSubscribeRegisteredOnce
<1>2. CASE HandleRemove
  BY <1>2, HandleRemoveRegisteredOnce
<1>3. CASE HandleBroadcast \/ Fanout
  BY <1>3, FanoutRegisteredOnce
<1>4. CASE HandleUnsubscribe
  BY <1>4, UnchangedRegistration DEF HandleUnsubscribe, registration, fanout, outbox, callers
<1>5. ASSUME NEW c \in Clients, Handler(c) PROVE RegisteredOnce'
  <2>1. CASE NewClient(c)
    BY <2>1, NewClientRegisteredOnce
  <2>2. CASE Remove(c)
    <3>1. /\ phase[c] = "open" /\ phase' = [phase EXCEPT ![c] = "left"]
          /\ UNCHANGED <<subscribe, clients, closed, evt, todo, full, owed>>
      BY <2>2 DEF Remove, registry, outbox, fanout
    <3>2. \A d \in Clients : phase'[d] = "unborn" <=> phase[d] = "unborn"
      BY <3>1 DEF TypeOK, CallersTyped
    <3> QED BY <3>1, <3>2 DEF RegisteredOnce, Registering
  <2>3. ASSUME NEW id \in SubIds, AddScope(c, id) PROVE RegisteredOnce'
    <3>1. [type |-> "scope", client |-> c, id |-> id] \in SubscribeMsg
      BY DEF SubscribeMsg
    <3> QED BY <2>3, <3>1, RequestRegisteredOnce DEF AddScope
  <2>4. ASSUME NEW on \in BOOLEAN, SetResolvePath(c, on) PROVE RegisteredOnce'
    <3>1. [type |-> "configure", client |-> c, on |-> on] \in SubscribeMsg
      BY DEF SubscribeMsg
    <3> QED BY <2>4, <3>1, RequestRegisteredOnce DEF SetResolvePath
  <2>5. ASSUME NEW id \in SubIds, RemoveScope(c, id) PROVE RegisteredOnce'
    BY <2>5, UnchangedRegistration DEF RemoveScope, registration, registry, fanout, outbox
  <2> QED BY <1>5, <2>1, <2>2, <2>3, <2>4, <2>5 DEF Handler
<1>6. ASSUME NEW c \in Clients, WritePump(c) PROVE RegisteredOnce'
  BY <1>6, UnchangedRegistration DEF WritePump, ReceiveEvent, ReceiveLagged,
     registration, channels, registry, fanout, callers
<1>7. ASSUME NEW kind \in Kinds, NEW resolved \in BOOLEAN, Broadcast(kind, resolved)
      PROVE  RegisteredOnce'
  BY <1>7, UnchangedRegistration DEF Broadcast, registration, registry, fanout, outbox
<1>8. CASE UNCHANGED vars
  BY <1>8, UnchangedRegistration DEF vars, registration, channels, registry, fanout, outbox, callers
<1> QED BY <1>1, <1>2, <1>3, <1>4, <1>5, <1>6, <1>7, <1>8 DEF Next, Run

\* Run never offers an event or a notice to a client whose channels it has
\* closed, so the process cannot panic on a send to a closed channel.
THEOREM NeverServesClosed == Spec => []ClosedNeverServed
<1>1. Init => RegisteredOnce
  BY DEF Init, RegisteredOnce
<1>2. RegisteredOnce => ClosedNeverServed
  BY DEF RegisteredOnce, ClosedNeverServed
<1> QED BY TypeCorrect, NextRegisteredOnce, <1>1, <1>2, PTL DEF Spec

(***************************************************************************)
(* The requests of the subscribe channel take effect                       *)
(***************************************************************************)

\* The variables Settling is about.
requests == <<subscribe, unsubscribe, clients, subscriptions, resolvePath, closed,
              phase, wanted, issued, ended>>

\* Settling depends on these variables only.
LEMMA UnchangedRequests == Settling /\ UNCHANGED requests => Settling'
BY DEF Settling, Introduced, Asked, Subscribed, Configured, Registering, Configuring, requests

\* A request that is queued, after which the same or more is wanted.
LEMMA QueuedSettles ==
  ASSUME TypeOK, Settling, NEW msg \in SubscribeMsg, RequestSubscribe(msg),
         UNCHANGED <<unsubscribe, ended>>,
         phase' \in [Clients -> {"unborn", "open", "left"}],
         \A c \in Clients : \/ c = msg.client /\ phase'[c] = "open"
                            \/ c # msg.client /\ phase'[c] = phase[c],
         msg.type = "register" \/ phase[msg.client] # "unborn",
         \A c \in Clients : issued[c] \subseteq issued'[c],
         \A c \in Clients : \A id \in issued'[c] \ issued[c] :
            msg = [type |-> "scope", client |-> c, id |-> id],
         msg.type = "scope" => msg.id \in issued'[msg.client],
         IF msg.type = "configure" THEN msg.on = wanted'[msg.client] ELSE wanted' = wanted,
         \A c \in Clients : c # msg.client => wanted'[c] = wanted[c]
  PROVE  Settling'
<1>1. /\ subscribe' = Append(subscribe, msg)
      /\ UNCHANGED <<clients, subscriptions, resolvePath, closed>>
  BY DEF RequestSubscribe, registry, outbox
<1>2. /\ Len(subscribe') = Len(subscribe) + 1 /\ Len(subscribe) \in Nat
      /\ \A i \in 1..Len(subscribe) : subscribe'[i] = subscribe[i]
      /\ subscribe'[Len(subscribe) + 1] = msg
      /\ \A i \in 1..Len(subscribe) : subscribe[i] \in SubscribeMsg
  BY <1>1, SendTyped DEF TypeOK, ChannelsTyped
<1>3. msg.client \in Clients
  BY DEF SubscribeMsg
<1>4. \A i \in 1..Len(subscribe') : i \in 1..Len(subscribe) \/ i = Len(subscribe) + 1
  BY <1>2
<1>5. \A i \in 1..Len(subscribe) : i \in 1..Len(subscribe')
  BY <1>2
<1>6. Len(subscribe) + 1 \in 1..Len(subscribe')
  BY <1>2
<1>7. \A c \in Clients, i \in 1..Len(subscribe) :
        Registering(subscribe, i, c) => Registering(subscribe', i, c)
  BY <1>2 DEF Registering
<1>8. Introduced'
  <2>1. ASSUME NEW c \in Clients, phase'[c] = "unborn", NEW i \in 1..Len(subscribe')
        PROVE  subscribe'[i].client # c
    <3>1. c # msg.client /\ phase[c] = "unborn"
      BY <2>1
    <3>2. CASE i \in 1..Len(subscribe)
      BY <1>2, <3>1, <3>2 DEF Settling, Introduced
    <3>3. CASE i = Len(subscribe) + 1
      BY <1>2, <3>1, <3>3
    <3> QED BY <1>4, <3>2, <3>3
  <2>2. ASSUME NEW c \in Clients, phase'[c] # "unborn"
        PROVE  \/ c \in clients' \cup closed'
               \/ \E i \in 1..Len(subscribe') : Registering(subscribe', i, c)
    <3>1. CASE phase[c] # "unborn"
      BY <1>1, <1>5, <1>7, <3>1 DEF Settling, Introduced
    <3>2. CASE phase[c] = "unborn"
      <4>1. c = msg.client /\ msg.type = "register"
        BY <2>2, <3>2
      <4> QED BY <1>2, <1>6, <4>1 DEF Registering
    <3> QED BY <3>1, <3>2
  <2>3. ASSUME NEW i \in 1..Len(subscribe')
        PROVE  \/ subscribe'[i].client \in clients' \cup closed'
               \/ \E j \in 1..i : Registering(subscribe', j, subscribe'[i].client)
    <3>1. CASE i \in 1..Len(subscribe)
      <4>1. subscribe'[i] = subscribe[i] /\ subscribe[i].client \in Clients
        BY <1>2, <3>1 DEF SubscribeMsg
      <4>2. \/ subscribe[i].client \in clients \cup closed
            \/ \E j \in 1..i : Registering(subscribe, j, subscribe[i].client)
        BY <3>1 DEF Settling, Introduced
      <4>3. \A j \in 1..i : j \in 1..Len(subscribe)
        BY <1>2, <3>1
      <4> QED BY <1>1, <1>7, <4>1, <4>2, <4>3
    <3>2. CASE i = Len(subscribe) + 1
      <4>1. subscribe'[i] = msg
        BY <1>2, <3>2
      <4>2. i \in 1..i
        BY <1>2, <3>2
      <4>3. CASE msg.type = "register"
        BY <4>1, <4>2, <4>3 DEF Registering
      <4>4. CASE phase[msg.client] # "unborn"
        <5>1. \/ msg.client \in clients \cup closed
              \/ \E j \in 1..Len(subscribe) : Registering(subscribe, j, msg.client)
          BY <1>3, <4>4 DEF Settling, Introduced
        <5>2. \A j \in 1..Len(subscribe) : j \in 1..i
          BY <1>2, <3>2
        <5> QED BY <1>1, <1>3, <1>7, <4>1, <5>1, <5>2
      <4> QED BY <4>3, <4>4
    <3> QED BY <1>4, <3>1, <3>2
  <2> QED BY <2>1, <2>2, <2>3 DEF Introduced
<1>9. Asked'
  <2>1. ASSUME NEW i \in 1..Len(subscribe'), subscribe'[i].type = "scope"
        PROVE  subscribe'[i].id \in issued'[subscribe'[i].client]
    <3>1. CASE i \in 1..Len(subscribe)
      <4>1. subscribe'[i] = subscribe[i] /\ subscribe[i].client \in Clients
        BY <1>2, <3>1 DEF SubscribeMsg
      <4> QED BY <2>1, <3>1, <4>1 DEF Settling, Asked
    <3>2. CASE i = Len(subscribe) + 1
      BY <1>2, <2>1, <3>2
    <3> QED BY <1>4, <3>1, <3>2
  <2> QED BY <1>1, <2>1 DEF Settling, Asked
<1>10. ASSUME NEW c \in Clients, c \notin closed' PROVE Subscribed(c)' /\ Configured(c)'
  <2>1. Subscribed(c) /\ Configured(c)
    BY <1>1, <1>10 DEF Settling
  <2>2. ASSUME NEW id \in issued'[c] \ ended'[c]
        PROVE  \/ id \in subscriptions'[c]
               \/ \E i \in 1..Len(subscribe') :
                    subscribe'[i] = [type |-> "scope", client |-> c, id |-> id]
    <3>1. CASE id \in issued[c]
      <4>1. \/ id \in subscriptions[c]
            \/ \E i \in 1..Len(subscribe) :
                 subscribe[i] = [type |-> "scope", client |-> c, id |-> id]
        BY <2>1, <2>2, <3>1 DEF Subscribed
      <4> QED BY <1>1, <1>2, <1>5, <4>1
    <3>2. CASE id \notin issued[c]
      BY <1>2, <1>6, <2>2, <3>2
    <3> QED BY <3>1, <3>2
  <2>3. CASE msg.type = "configure" /\ msg.client = c
    <3>1. msg = [type |-> "configure", client |-> c, on |-> wanted'[c]]
      BY <2>3 DEF SubscribeMsg
    <3>2. \A j \in 1..Len(subscribe') : ~(j > Len(subscribe) + 1)
      BY <1>2
    <3>3. Configured(c)'
      BY <1>2, <1>6, <3>1, <3>2 DEF Configured
    <3> QED BY <2>2, <3>3 DEF Subscribed
  <2>4. CASE ~(msg.type = "configure" /\ msg.client = c)
    <3>1. wanted'[c] = wanted[c]
      BY <2>4
    <3>2. \A i \in 1..Len(subscribe') : Configuring(subscribe', i, c) =>
            i \in 1..Len(subscribe) /\ Configuring(subscribe, i, c)
      BY <1>2, <1>4, <2>4 DEF Configuring
    <3>3. Configured(c)'
      <4>1. CASE resolvePath[c] = wanted[c]
                 /\ \A i \in 1..Len(subscribe) : ~Configuring(subscribe, i, c)
        BY <1>1, <3>1, <3>2, <4>1 DEF Configured
      <4>2. ASSUME NEW i \in 1..Len(subscribe),
                   subscribe[i] = [type |-> "configure", client |-> c, on |-> wanted[c]],
                   \A j \in 1..Len(subscribe) : j > i => ~Configuring(subscribe, j, c)
            PROVE  Configured(c)'
        <5>1. i \in 1..Len(subscribe')
              /\ subscribe'[i] = [type |-> "configure", client |-> c, on |-> wanted'[c]]
          BY <1>2, <1>5, <3>1, <4>2
        <5>2. \A j \in 1..Len(subscribe') : j > i => ~Configuring(subscribe', j, c)
          BY <3>2, <4>2
        <5> QED BY <5>1, <5>2 DEF Configured
      <4> QED BY <2>1, <4>1, <4>2 DEF Configured
    <3> QED BY <2>2, <3>3 DEF Subscribed
  <2> QED BY <2>3, <2>4
<1> QED BY <1>8, <1>9, <1>10 DEF Settling

\* What Run takes from the channel is no longer on its way but has its effect.
LEMMA HandleSubscribeSettles ==
  ASSUME TypeOK, Settling, HandleSubscribe
  PROVE  Settling'
<1> DEFINE msg == Head(subscribe)
<1>1. /\ subscribe # <<>> /\ subscribe' = Tail(subscribe)
      /\ Register(msg) \/ Configure(msg) \/ Subscribe(msg)
      /\ UNCHANGED <<unsubscribe, closed, phase, wanted, issued, ended>>
  BY DEF HandleSubscribe, outbox, callers
<1>2. /\ Len(subscribe') = Len(subscribe) - 1 /\ Len(subscribe) \in Nat \ {0}
      /\ \A i \in 1..Len(subscribe') : subscribe'[i] = subscribe[i + 1]
      /\ msg = subscribe[1] /\ msg \in SubscribeMsg
      /\ \A i \in 1..Len(subscribe) : subscribe[i] \in SubscribeMsg
  BY <1>1, ReceiveTyped DEF TypeOK, ChannelsTyped
<1>3. msg.client \in Clients
  BY <1>2 DEF SubscribeMsg
<1>4. \A i \in 1..Len(subscribe') : i + 1 \in 1..Len(subscribe) /\ i + 1 > 1
  BY <1>2
<1>5. \A i \in 1..Len(subscribe) : i # 1 => i - 1 \in 1..Len(subscribe') /\ i = (i - 1) + 1
  BY <1>2
<1>6. 1 \in 1..Len(subscribe)
  BY <1>2
<1>7. clients' = IF msg.type = "register" THEN clients \cup {msg.client} ELSE clients
  BY <1>1 DEF Register, Configure, Subscribe
<1>8. msg.type = "register" \/ msg.client \in clients \cup closed
  <2>1. \A j \in 1..1 : j = 1
    OBVIOUS
  <2> QED BY <1>2, <1>6, <2>1 DEF Settling, Introduced, Registering
<1>9. /\ \A c : c \in clients \cup closed => c \in clients' \cup closed'
      /\ \A c \in Clients : Registering(subscribe, 1, c) => c \in clients'
  BY <1>1, <1>2, <1>7 DEF Registering
<1>10. Introduced'
  <2>1. ASSUME NEW c \in Clients, phase'[c] = "unborn", NEW i \in 1..Len(subscribe')
        PROVE  subscribe'[i].client # c
    BY <1>1, <1>2, <1>4, <2>1 DEF Settling, Introduced
  <2>2. ASSUME NEW c \in Clients, phase'[c] # "unborn", c \notin clients' \cup closed'
        PROVE  \E i \in 1..Len(subscribe') : Registering(subscribe', i, c)
    <3>1. PICK i \in 1..Len(subscribe) : Registering(subscribe, i, c)
      BY <1>1, <1>9, <2>2 DEF Settling, Introduced
    <3>2. i # 1
      BY <1>9, <2>2, <3>1
    <3>3. i - 1 \in 1..Len(subscribe') /\ subscribe'[i - 1] = subscribe[i]
      BY <1>2, <1>5, <3>2
    <3> QED BY <3>1, <3>3 DEF Registering
  <2>3. ASSUME NEW i \in 1..Len(subscribe'),
               subscribe'[i].client \notin clients' \cup closed'
        PROVE  \E j \in 1..i : Registering(subscribe', j, subscribe'[i].client)
    <3>1. /\ i + 1 \in 1..Len(subscribe) /\ subscribe'[i] = subscribe[i + 1]
          /\ subscribe[i + 1].client \in Clients
      BY <1>2, <1>4 DEF SubscribeMsg
    <3>2. PICK j \in 1..(i + 1) : Registering(subscribe, j, subscribe[i + 1].client)
      BY <1>9, <2>3, <3>1 DEF Settling, Introduced
    <3>3. j # 1
      BY <1>9, <2>3, <3>1, <3>2
    <3>4. j - 1 \in 1..i /\ j - 1 \in 1..Len(subscribe') /\ (j - 1) + 1 = j
      BY <1>2, <3>1, <3>3
    <3>5. subscribe'[j - 1] = subscribe[j]
      BY <1>2, <3>4
    <3> QED BY <3>1, <3>2, <3>4, <3>5 DEF Registering
  <2> QED BY <2>1, <2>2, <2>3 DEF Introduced
<1>11. \A c \in Clients : subscriptions'[c] =
         IF msg.type = "scope" /\ c = msg.client /\ c \in clients
         THEN subscriptions[c] \cup {msg.id} ELSE subscriptions[c]
  BY <1>1, <1>3 DEF Register, Configure, Subscribe, TypeOK, RegistryTyped
<1>12. \A c \in Clients : resolvePath'[c] =
         IF msg.type = "configure" /\ c = msg.client /\ c \in clients
         THEN msg.on ELSE resolvePath[c]
  BY <1>1, <1>3 DEF Register, Configure, Subscribe, TypeOK, RegistryTyped
<1>13. Asked'
  <2>1. \A i \in 1..Len(subscribe') : subscribe'[i].type = "scope" =>
           subscribe'[i].id \in issued'[subscribe'[i].client]
    BY <1>1, <1>2, <1>4 DEF Settling, Asked
  <2>2. msg.type = "scope" => msg.id \in issued[msg.client]
    BY <1>2, <1>6 DEF Settling, Asked
  <2>3. \A c \in Clients : subscriptions'[c] \subseteq issued'[c]
    BY <1>1, <1>11, <2>2 DEF Settling, Asked
  <2> QED BY <1>1, <2>1, <2>3 DEF Settling, Asked
<1>14. ASSUME NEW c \in Clients, c \notin closed' PROVE Subscribed(c)'
  <2>1. ASSUME NEW id \in issued'[c] \ ended'[c], id \notin subscriptions'[c]
        PROVE  \E i \in 1..Len(subscribe') :
                 subscribe'[i] = [type |-> "scope", client |-> c, id |-> id]
    <3>1. PICK i \in 1..Len(subscribe) :
            subscribe[i] = [type |-> "scope", client |-> c, id |-> id]
      BY <1>1, <1>11, <1>14, <2>1 DEF Settling, Subscribed
    <3>2. i # 1
      <4>1. SUFFICES ASSUME i = 1 PROVE FALSE
        OBVIOUS
      <4>2. msg.type = "scope" /\ msg.client = c /\ msg.id = id
        BY <1>2, <3>1, <4>1
      <4> QED BY <1>1, <1>8, <1>11, <1>14, <2>1, <4>2
    <3>3. i - 1 \in 1..Len(subscribe') /\ subscribe'[i - 1] = subscribe[i]
      BY <1>2, <1>5, <3>2
    <3> QED BY <3>1, <3>3
  <2> QED BY <2>1 DEF Subscribed
<1>15. ASSUME NEW c \in Clients, c \notin closed' PROVE Configured(c)'
  <2>1. \A i \in 1..Len(subscribe') :
           Configuring(subscribe', i, c) => Configuring(subscribe, i + 1, c)
    BY <1>2 DEF Configuring
  <2>2. CASE resolvePath[c] = wanted[c]
             /\ \A i \in 1..Len(subscribe) : ~Configuring(subscribe, i, c)
    <3>1. ~(msg.type = "configure" /\ msg.client = c)
      BY <1>2, <1>6, <2>2 DEF Configuring
    <3>2. \A i \in 1..Len(subscribe') : ~Configuring(subscribe', i, c)
      BY <1>4, <2>1, <2>2
    <3> QED BY <1>1, <1>12, <2>2, <3>1, <3>2 DEF Configured
  <2>3. ASSUME NEW i \in 1..Len(subscribe),
               subscribe[i] = [type |-> "configure", client |-> c, on |-> wanted[c]],
               \A j \in 1..Len(subscribe) : j > i => ~Configuring(subscribe, j, c)
        PROVE  Configured(c)'
    <3>1. CASE i = 1
      <4>1. msg.type = "configure" /\ msg.client = c /\ msg.on = wanted[c]
        BY <1>2, <2>3, <3>1
      <4>2. resolvePath'[c] = wanted'[c]
        BY <1>1, <1>8, <1>12, <1>15, <4>1
      <4>3. \A j \in 1..Len(subscribe') : ~Configuring(subscribe', j, c)
        BY <1>4, <2>1, <2>3, <3>1
      <4> QED BY <4>2, <4>3 DEF Configured
    <3>2. CASE i # 1
      <4>1. i - 1 \in 1..Len(subscribe') /\ subscribe'[i - 1] = subscribe[i]
        BY <1>2, <1>5, <3>2
      <4>2. ASSUME NEW j \in 1..Len(subscribe'), j > i - 1
            PROVE  ~Configuring(subscribe', j, c)
        <5>1. j + 1 \in 1..Len(subscribe) /\ j + 1 > i
          BY <1>4, <4>2
        <5> QED BY <2>1, <2>3, <5>1
      <4> QED BY <1>1, <2>3, <4>1, <4>2 DEF Configured
    <3> QED BY <3>1, <3>2
  <2>4. Configured(c)
    BY <1>1, <1>15 DEF Settling
  <2> QED BY <2>2, <2>3, <2>4 DEF Configured
<1> QED BY <1>10, <1>13, <1>14, <1>15 DEF Settling

\* Run deletes only what was given up.
LEMMA HandleUnsubscribeSettles ==
  ASSUME TypeOK, Settling, HandleUnsubscribe
  PROVE  Settling'
<1> DEFINE msg == Head(unsubscribe)
<1>1. /\ unsubscribe # <<>> /\ unsubscribe' = Tail(unsubscribe)
      /\ subscriptions' = IF msg.client \in clients
                          THEN [subscriptions EXCEPT ![msg.client] = @ \ {msg.id}]
                          ELSE subscriptions
      /\ UNCHANGED <<subscribe, clients, resolvePath, closed, phase, wanted, issued, ended>>
  BY DEF HandleUnsubscribe, outbox, callers
<1>2. /\ Len(unsubscribe') = Len(unsubscribe) - 1 /\ Len(unsubscribe) \in Nat \ {0}
      /\ \A i \in 1..Len(unsubscribe') : unsubscribe'[i] = unsubscribe[i + 1]
      /\ msg = unsubscribe[1] /\ msg \in UnsubscribeMsg
  BY <1>1, ReceiveTyped DEF TypeOK, ChannelsTyped
<1>3. msg.client \in Clients /\ msg.id \in ended[msg.client]
  BY <1>2 DEF UnsubscribeMsg, Settling, Asked
<1>4. \A c \in Clients : /\ subscriptions'[c] \subseteq subscriptions[c]
                        /\ subscriptions[c] \ subscriptions'[c] \subseteq ended[c]
  BY <1>1, <1>3 DEF TypeOK, RegistryTyped
<1>5. Introduced'
  BY <1>1 DEF Settling, Introduced, Registering
<1>6. Asked'
  <2>1. \A i \in 1..Len(unsubscribe') : i + 1 \in 1..Len(unsubscribe)
    BY <1>2
  <2> QED BY <1>1, <1>2, <1>4, <2>1 DEF Settling, Asked
<1>7. ASSUME NEW c \in Clients, c \notin closed' PROVE Subscribed(c)' /\ Configured(c)'
  BY <1>1, <1>4, <1>7 DEF Settling, Subscribed, Configured, Configuring
<1> QED BY <1>5, <1>6, <1>7 DEF Settling

\* A removal concerns a client that is closed from then on, or not yet known.
LEMMA HandleRemoveSettles ==
  ASSUME TypeOK, Settling, HandleRemove
  PROVE  Settling'
<1>1. /\ clients' = clients \ {Head(remove)}
      /\ closed' = closed \cup (clients \cap {Head(remove)})
      /\ UNCHANGED <<subscribe, unsubscribe, subscriptions, resolvePath, phase, wanted,
                     issued, ended>>
  BY DEF HandleRemove, callers
<1>2. \A c : /\ c \in clients' \cup closed' <=> c \in clients \cup closed
            /\ c \notin closed' => c \notin closed
  BY <1>1
<1>3. Introduced'
  BY <1>1, <1>2 DEF Settling, Introduced, Registering
<1>4. Asked'
  BY <1>1 DEF Settling, Asked
<1>5. ASSUME NEW c \in Clients, c \notin closed' PROVE Subscribed(c)' /\ Configured(c)'
  BY <1>1, <1>2, <1>5 DEF Settling, Subscribed, Configured, Configuring
<1> QED BY <1>3, <1>4, <1>5 DEF Settling

\* The calls of a connection.
LEMMA HandlerSettles ==
  ASSUME TypeOK, Settling, NEW c \in Clients, Handler(c)
  PROVE  Settling'
<1>0. /\ phase \in [Clients -> {"unborn", "open", "left"}]
      /\ wanted \in [Clients -> BOOLEAN]
      /\ issued \in [Clients -> SUBSET SubIds]
      /\ ended \in [Clients -> SUBSET SubIds]
  BY DEF TypeOK, CallersTyped
<1>1. CASE NewClient(c)
  <2> DEFINE msg == [type |-> "register", client |-> c]
  <2>1. /\ RequestSubscribe(msg) /\ phase' = [phase EXCEPT ![c] = "open"]
        /\ UNCHANGED <<unsubscribe, wanted, issued, ended>>
    BY <1>1 DEF NewClient, RequestSubscribe
  <2>2. msg \in SubscribeMsg /\ msg.type = "register" /\ msg.client = c
    BY DEF SubscribeMsg
  <2> HIDE DEF msg
  <2> QED BY <1>0, <2>1, <2>2, QueuedSettles
<1>2. ASSUME NEW id \in SubIds, AddScope(c, id) PROVE Settling'
  <2> DEFINE msg == [type |-> "scope", client |-> c, id |-> id]
  <2>1. /\ RequestSubscribe(msg) /\ phase[c] = "open"
        /\ issued' = [issued EXCEPT ![c] = @ \cup {id}]
        /\ UNCHANGED <<unsubscribe, phase, wanted, ended>>
    BY <1>2 DEF AddScope, RequestSubscribe
  <2>2. msg \in SubscribeMsg /\ msg.type = "scope" /\ msg.client = c /\ msg.id = id
    BY DEF SubscribeMsg
  <2>3. /\ \A d \in Clients : issued[d] \subseteq issued'[d]
        /\ \A d \in Clients : \A x \in issued'[d] \ issued[d] :
             msg = [type |-> "scope", client |-> d, id |-> x]
        /\ id \in issued'[c]
    BY <1>0, <2>1
  <2> HIDE DEF msg
  <2> QED BY <1>0, <2>1, <2>2, <2>3, QueuedSettles
<1>3. ASSUME NEW on \in BOOLEAN, SetResolvePath(c, on) PROVE Settling'
  <2> DEFINE msg == [type |-> "configure", client |-> c, on |-> on]
  <2>1. /\ RequestSubscribe(msg) /\ phase[c] = "open"
        /\ wanted' = [wanted EXCEPT ![c] = on]
        /\ UNCHANGED <<unsubscribe, phase, issued, ended>>
    BY <1>3 DEF SetResolvePath, RequestSubscribe
  <2>2. msg \in SubscribeMsg /\ msg.type = "configure" /\ msg.client = c /\ msg.on = on
    BY DEF SubscribeMsg
  <2>3. wanted'[c] = on /\ \A d \in Clients : d # c => wanted'[d] = wanted[d]
    BY <1>0, <2>1
  <2> HIDE DEF msg
  <2> QED BY <1>0, <2>1, <2>2, <2>3, QueuedSettles
<1>4. ASSUME NEW id \in SubIds, RemoveScope(c, id) PROVE Settling'
  <2> DEFINE msg == [client |-> c, id |-> id]
  <2>1. /\ unsubscribe' = Append(unsubscribe, msg)
        /\ ended' = [ended EXCEPT ![c] = @ \cup {id}]
        /\ UNCHANGED <<subscribe, clients, subscriptions, resolvePath, closed, phase, wanted,
                       issued>>
    BY <1>4 DEF RemoveScope, registry, outbox
  <2>2. msg \in UnsubscribeMsg /\ unsubscribe \in Seq(UnsubscribeMsg)
    BY DEF UnsubscribeMsg, TypeOK, ChannelsTyped
  <2>3. /\ Len(unsubscribe') = Len(unsubscribe) + 1 /\ Len(unsubscribe) \in Nat
        /\ \A i \in 1..Len(unsubscribe) : unsubscribe'[i] = unsubscribe[i]
        /\ unsubscribe'[Len(unsubscribe) + 1] = msg
    BY <2>1, <2>2, SendTyped
  <2>4. ASSUME NEW i \in 1..Len(unsubscribe) PROVE unsubscribe[i].client \in Clients
    <3>1. unsubscribe[i] \in UnsubscribeMsg
      BY <2>2
    <3> QED BY <3>1 DEF UnsubscribeMsg
  <2>5. \A d \in Clients : ended[d] \subseteq ended'[d]
    BY <1>0, <2>1
  <2>6. ASSUME NEW i \in 1..Len(unsubscribe')
        PROVE  unsubscribe'[i].id \in ended'[unsubscribe'[i].client]
    <3>1. CASE i \in 1..Len(unsubscribe)
      BY <2>3, <2>4, <2>5, <3>1 DEF Settling, Asked
    <3>2. CASE i = Len(unsubscribe) + 1
      BY <1>0, <2>1, <2>3, <3>2
    <3> QED BY <2>3, <3>1, <3>2
  <2>7. Introduced' /\ Asked'
    BY <2>1, <2>6 DEF Settling, Introduced, Asked, Registering
  <2>8. ASSUME NEW d \in Clients, d \notin closed' PROVE Subscribed(d)' /\ Configured(d)'
    BY <2>1, <2>5, <2>8 DEF Settling, Subscribed, Configured, Configuring
  <2> QED BY <2>7, <2>8 DEF Settling
<1>5. CASE Remove(c)
  <2>1. /\ phase[c] = "open" /\ phase' = [phase EXCEPT ![c] = "left"]
        /\ UNCHANGED <<subscribe, unsubscribe, clients, subscriptions, resolvePath, closed,
                       wanted, issued, ended>>
    BY <1>5 DEF Remove, registry, outbox
  <2>2. \A d \in Clients : phase'[d] = "unborn" <=> phase[d] = "unborn"
    BY <1>0, <2>1
  <2>3. Introduced' /\ Asked'
    BY <2>1, <2>2 DEF Settling, Introduced, Asked, Registering
  <2>4. ASSUME NEW d \in Clients, d \notin closed' PROVE Subscribed(d)' /\ Configured(d)'
    BY <2>1, <2>4 DEF Settling, Subscribed, Configured, Configuring
  <2> QED BY <2>3, <2>4 DEF Settling
<1> QED BY <1>1, <1>2, <1>3, <1>4, <1>5 DEF Handler

\* Every step keeps the requests in order.
LEMMA NextSettles ==
  ASSUME TypeOK, Settling, [Next]_vars
  PROVE  Settling'
<1>1. CASE HandleSubscribe \/ HandleUnsubscribe \/ HandleRemove
  BY <1>1, HandleSubscribeSettles, HandleUnsubscribeSettles, HandleRemoveSettles
<1>2. CASE HandleBroadcast \/ Fanout
  BY <1>2, UnchangedRequests DEF HandleBroadcast, Fanout, Visit, EvictOldest, NotifyLagged,
     EndFanout, requests, channels, registry, outbox, callers
<1>3. ASSUME NEW c \in Clients, Handler(c) PROVE Settling'
  BY <1>3, HandlerSettles
<1>4. ASSUME NEW c \in Clients, WritePump(c) PROVE Settling'
  BY <1>4, UnchangedRequests DEF WritePump, ReceiveEvent, ReceiveLagged, requests,
     channels, registry, callers
<1>5. ASSUME NEW kind \in Kinds, NEW resolved \in BOOLEAN, Broadcast(kind, resolved)
      PROVE  Settling'
  BY <1>5, UnchangedRequests DEF Broadcast, requests, registry, outbox
<1>6. CASE UNCHANGED vars
  BY <1>6, UnchangedRequests DEF vars, requests, channels, registry, outbox, callers
<1> QED BY <1>1, <1>2, <1>3, <1>4, <1>5, <1>6 DEF Next, Run

\* Once the subscribe channel is drained, every registered client has what it
\* asked for: no request of its own is lost or served in the wrong order.
THEOREM RequestsSettle == Spec => []SubscribeSettles
<1>1. Init => Settling
  BY DEF Init, Settling, Introduced, Asked, Subscribed, Configured
<1>2. TypeOK /\ RegisteredOnce /\ Settling => SubscribeSettles
  <2> SUFFICES ASSUME TypeOK, RegisteredOnce, Settling, subscribe = <<>>, NEW c \in clients
               PROVE  /\ issued[c] \ ended[c] \subseteq subscriptions[c]
                      /\ subscriptions[c] \subseteq issued[c]
                      /\ resolvePath[c] = wanted[c]
    BY DEF SubscribeSettles
  <2>1. c \in Clients /\ c \notin closed /\ 1..Len(subscribe) = {}
    BY DEF TypeOK, RegistryTyped, RegisteredOnce
  <2> QED BY <2>1 DEF Settling, Asked, Subscribed, Configured
<1>3. Init => RegisteredOnce
  BY DEF Init, RegisteredOnce
<1> QED BY TypeCorrect, NextRegisteredOnce, NextSettles, <1>1, <1>2, <1>3, PTL DEF Spec

(***************************************************************************)
(* Events are delivered in order, at most once                             *)
(***************************************************************************)

\* The variables InOrder is about.
ordering == <<broadcast, evt, todo, published, read, send>>

\* InOrder depends on these variables only.
LEMMA UnchangedOrdering == InOrder /\ UNCHANGED ordering => InOrder'
BY DEF InOrder, OrderedOnce, Behind, ordering

\* The order of events as natural numbers, with the facts about evt and
\* broadcast that the steps use.
LEMMA OrderTypes ==
  ASSUME TypeOK
  PROVE  /\ published \in Nat
         /\ broadcast \in Seq(Event) /\ \A i \in 1..Len(broadcast) : broadcast[i].n \in Nat
         /\ evt # <<>> => evt[1] \in Event /\ evt[1].n \in Nat
         /\ \A c \in Clients :
              /\ read[c] \in Nat
              /\ send[c] \in Seq(Delivery)
              /\ \A k \in 1..Len(send[c]) : send[c][k].n \in Nat
<1>1. published \in Nat /\ \A c \in Clients : read[c] \in Nat
  BY DEF TypeOK, CallersTyped, TallyTyped
<1>2. broadcast \in Seq(Event) /\ \A i \in 1..Len(broadcast) : broadcast[i].n \in Nat
  <2>1. broadcast \in Seq(Event)
    BY DEF TypeOK, ChannelsTyped
  <2>2. \A i \in 1..Len(broadcast) : broadcast[i] \in Event
    BY <2>1
  <2> QED BY <2>1, <2>2 DEF Event
<1>3. evt # <<>> => evt[1] \in Event /\ evt[1].n \in Nat
  <2>1. evt # <<>> => evt[1] \in Event
    BY DEF TypeOK, FanoutTyped
  <2> QED BY <2>1 DEF Event
<1>4. \A c \in Clients : send[c] \in Seq(Delivery)
  BY DEF TypeOK, OutboxTyped
<1>5. ASSUME NEW c \in Clients, NEW k \in 1..Len(send[c]) PROVE send[c][k].n \in Nat
  <2>1. send[c][k] \in Delivery
    BY <1>4
  <2> QED BY <2>1 DEF Delivery
<1> QED BY <1>1, <1>2, <1>3, <1>4, <1>5

\* A published event is newer than everything queued, buffered or read.
LEMMA BroadcastInOrder ==
  ASSUME TypeOK, InOrder, NEW kind \in Kinds, NEW resolved \in BOOLEAN,
         Broadcast(kind, resolved)
  PROVE  InOrder'
<1> DEFINE e == [n |-> published + 1, kind |-> kind, resolved |-> resolved]
<1>1. /\ published' = published + 1
      /\ broadcast' = broadcast \/ broadcast' = Append(broadcast, e)
      /\ UNCHANGED <<evt, todo, read, send>>
  BY DEF Broadcast, fanout, outbox, tally
<1>2. published \in Nat /\ e \in Event /\ e.n = published + 1
  BY OrderTypes DEF Event
<1> HIDE DEF e
<1>3. OrderedOnce'
  BY <1>1 DEF InOrder, OrderedOnce
<1>4. ASSUME NEW c \in Clients PROVE Behind(c, published' + 1)
  <2>1. Behind(c, published + 1) /\ published' + 1 = published + 2 /\ published \in Nat
    BY <1>1, <1>2 DEF InOrder
  <2>2. read[c] \in Nat /\ \A k \in 1..Len(send[c]) : send[c][k].n \in Nat
    BY OrderTypes
  <2>3. read[c] < published' + 1
    BY <2>1, <2>2 DEF Behind
  <2>4. ASSUME NEW k \in 1..Len(send[c]) PROVE send[c][k].n < published' + 1
    <3>1. send[c][k].n < published + 1 /\ send[c][k].n \in Nat
      BY <2>1, <2>2 DEF Behind
    <3> QED BY <2>1, <3>1
  <2> QED BY <2>3, <2>4 DEF Behind
<1>5. CASE broadcast' = broadcast
  BY <1>1, <1>2, <1>3, <1>4, <1>5, OrderTypes DEF InOrder, Behind
<1>6. CASE broadcast' = Append(broadcast, e)
  <2>1. /\ Len(broadcast') = Len(broadcast) + 1 /\ Len(broadcast) \in Nat
        /\ \A i \in 1..Len(broadcast) : broadcast'[i] = broadcast[i]
        /\ broadcast'[Len(broadcast) + 1] = e
    BY <1>2, <1>6, SendTyped, OrderTypes
  <2>2. ASSUME NEW i \in 1..Len(broadcast')
        PROVE  /\ broadcast'[i].n <= published'
               /\ \A j \in 1..(i - 1) : broadcast'[j].n < broadcast'[i].n
               /\ evt # <<>> => evt[1].n < broadcast'[i].n
               /\ \A c \in Clients : Behind(c, broadcast'[i].n)
    <3>1. CASE i \in 1..Len(broadcast)
      <4>1. broadcast'[i] = broadcast[i] /\ broadcast[i].n \in Nat
        BY <2>1, <3>1, OrderTypes
      <4>2. broadcast[i].n <= published
        BY <3>1 DEF InOrder
      <4>3. broadcast'[i].n <= published'
        BY <1>1, <1>2, <4>1, <4>2
      <4>4. ASSUME NEW j \in 1..(i - 1) PROVE broadcast'[j].n < broadcast'[i].n
        <5>1. j \in 1..Len(broadcast)
          BY <2>1, <3>1
        <5> QED BY <2>1, <3>1, <4>1, <5>1 DEF InOrder
      <4> QED BY <3>1, <4>1, <4>3, <4>4 DEF InOrder
    <3>2. CASE i = Len(broadcast) + 1
      BY <1>1, <1>2, <2>1, <3>2, OrderTypes DEF InOrder
    <3> QED BY <2>1, <3>1, <3>2
  <2>3. evt # <<>> => evt[1].n <= published'
    <3>1. evt # <<>> => evt[1].n <= published /\ evt[1].n \in Nat
      BY OrderTypes DEF InOrder
    <3> QED BY <1>1, <1>2, <3>1
  <2>4. ASSUME NEW c \in Clients
        PROVE  /\ Behind(c, published + 1)'
               /\ \A i \in 1..Len(broadcast') : Behind(c, broadcast[i].n)'
    BY <1>1, <1>4, <2>2 DEF Behind
  <2> QED BY <1>1, <1>3, <2>2, <2>3, <2>4 DEF InOrder
<1> QED BY <1>1, <1>5, <1>6

\* The event taken from the channel is the oldest one queued.
LEMMA HandleBroadcastInOrder ==
  ASSUME TypeOK, InOrder, HandleBroadcast
  PROVE  InOrder'
<1>1. /\ broadcast # <<>> /\ broadcast' = Tail(broadcast)
      /\ evt' = <<Head(broadcast)>> /\ todo' = clients
      /\ UNCHANGED <<published, read, send>>
  BY DEF HandleBroadcast, outbox, callers, tally
<1>2. /\ Len(broadcast') = Len(broadcast) - 1 /\ Len(broadcast) \in Nat \ {0}
      /\ \A i \in 1..Len(broadcast') : broadcast'[i] = broadcast[i + 1]
      /\ evt'[1] = broadcast[1]
  BY <1>1, ReceiveTyped, OrderTypes
<1>3. \A i \in 1..Len(broadcast') : i + 1 \in 1..Len(broadcast)
  BY <1>2
<1>4. \A c \in Clients : Behind(c, evt'[1].n)
  BY <1>2 DEF InOrder
<1>5. OrderedOnce'
  BY <1>1, <1>4 DEF InOrder, OrderedOnce, Behind
<1>6. evt'[1].n <= published /\ \A i \in 1..Len(broadcast') : evt'[1].n < broadcast'[i].n
  BY <1>2, <1>3 DEF InOrder
<1>7. \A i \in 1..Len(broadcast') :
         /\ broadcast'[i].n <= published
         /\ \A j \in 1..(i - 1) : broadcast'[j].n < broadcast'[i].n
         /\ \A c \in Clients : Behind(c, broadcast'[i].n)
  <2> SUFFICES ASSUME NEW i \in 1..Len(broadcast')
      PROVE  /\ broadcast'[i].n <= published
             /\ \A j \in 1..(i - 1) : broadcast'[j].n < broadcast'[i].n
             /\ \A c \in Clients : Behind(c, broadcast'[i].n)
    OBVIOUS
  <2>1. \A j \in 1..(i - 1) : j + 1 \in 1..((i + 1) - 1) /\ j \in 1..Len(broadcast')
    BY <1>2
  <2> QED BY <1>2, <1>3, <2>1 DEF InOrder
<1> QED BY <1>1, <1>5, <1>6, <1>7 DEF InOrder, Behind

\* What a client is sent is newer than what it has, and older than what is queued.
LEMMA VisitInOrder ==
  ASSUME TypeOK, InOrder, NEW c \in Clients, Visit(c)
  PROVE  InOrder'
<1> DEFINE d == [n |-> evt[1].n, resolved |-> resolvePath[c] /\ evt[1].resolved]
<1>1. /\ evt # <<>> /\ c \in todo /\ todo' = todo \ {c}
      /\ UNCHANGED <<broadcast, evt, published, read>>
      /\ send' = send \/ send' = [send EXCEPT ![c] = Append(@, d)]
  BY DEF Visit, channels, callers
<1>2. d \in Delivery /\ d.n = evt[1].n /\ evt[1].n \in Nat
  BY <1>1, OrderTypes DEF Delivery, Event
<1> HIDE DEF d
<1>3. CASE send' = send
  BY <1>1, <1>3 DEF InOrder, OrderedOnce, Behind
<1>4. CASE send' = [send EXCEPT ![c] = Append(@, d)]
  <2>1. /\ send \in [Clients -> Seq(Delivery)]
        /\ \A b \in Clients \ {c} : send'[b] = send[b]
    BY <1>4 DEF TypeOK, OutboxTyped
  <2>2. /\ Len(send'[c]) = Len(send[c]) + 1 /\ Len(send[c]) \in Nat
        /\ \A k \in 1..Len(send[c]) : send'[c][k] = send[c][k]
        /\ send'[c][Len(send[c]) + 1] = d
    BY <1>2, <1>4, <2>1, SendTyped
  <2>3. Behind(c, evt[1].n)
    BY <1>1 DEF InOrder, OrderedOnce, Behind
  <2>4. ASSUME NEW k \in 1..Len(send'[c])
        PROVE  /\ read[c] < send'[c][k].n /\ send'[c][k].n <= evt[1].n
               /\ \A j \in 1..(k - 1) : send'[c][j].n < send'[c][k].n
    <3>1. CASE k \in 1..Len(send[c])
      <4>1. send'[c][k] = send[c][k] /\ send[c][k].n \in Nat
        BY <2>2, <3>1, OrderTypes
      <4>2. send[c][k].n < evt[1].n
        BY <2>3, <3>1 DEF Behind
      <4>3. read[c] < send'[c][k].n /\ send'[c][k].n <= evt[1].n
        BY <1>2, <3>1, <4>1, <4>2 DEF InOrder, OrderedOnce
      <4>4. ASSUME NEW j \in 1..(k - 1) PROVE send'[c][j].n < send'[c][k].n
        <5>1. j \in 1..Len(send[c])
          BY <2>2, <3>1
        <5> QED BY <2>2, <3>1, <4>1, <5>1 DEF InOrder, OrderedOnce
      <4> QED BY <4>3, <4>4
    <3>2. CASE k = Len(send[c]) + 1
      <4>1. send'[c][k].n = evt[1].n /\ read[c] < evt[1].n
        BY <1>2, <2>2, <2>3, <3>2 DEF Behind
      <4>2. ASSUME NEW j \in 1..(k - 1) PROVE send'[c][j].n < send'[c][k].n
        <5>1. j \in 1..Len(send[c])
          BY <2>2, <3>2
        <5> QED BY <2>2, <2>3, <4>1, <5>1 DEF Behind
      <4> QED BY <1>2, <4>1, <4>2
    <3> QED BY <2>2, <3>1, <3>2
  <2>5. ASSUME NEW k \in 1..Len(send'[c]) PROVE send'[c][k].n \in Nat
    <3>1. CASE k \in 1..Len(send[c])
      BY <2>2, <3>1, OrderTypes
    <3>2. CASE k = Len(send[c]) + 1
      BY <1>2, <2>2, <3>2
    <3> QED BY <2>2, <3>1, <3>2
  <2>6. \A k \in 1..Len(send'[c]) :
           /\ send'[c][k].n < published + 1
           /\ \A i \in 1..Len(broadcast) : send'[c][k].n < broadcast[i].n
    <3>1. /\ evt[1].n \in Nat /\ published \in Nat /\ evt[1].n < published + 1
          /\ \A i \in 1..Len(broadcast) :
               evt[1].n < broadcast[i].n /\ broadcast[i].n \in Nat
      BY <1>1, <1>2, OrderTypes DEF InOrder
    <3>2. ASSUME NEW k \in 1..Len(send'[c])
          PROVE  /\ send'[c][k].n < published + 1
                 /\ \A i \in 1..Len(broadcast) : send'[c][k].n < broadcast[i].n
      <4>1. send'[c][k].n \in Nat /\ send'[c][k].n <= evt[1].n
        BY <2>4, <2>5
      <4> QED BY ONLY <3>1, <4>1
    <3> QED BY <3>2
  <2>7. OrderedOnce'
    BY <1>1, <2>1, <2>4 DEF InOrder, OrderedOnce
  <2>8. ASSUME NEW b \in Clients
        PROVE  /\ Behind(b, published + 1)'
               /\ \A i \in 1..Len(broadcast') : Behind(b, broadcast[i].n)'
    BY <1>1, <2>1, <2>6 DEF InOrder, Behind
  <2> QED BY <1>1, <2>7, <2>8 DEF InOrder
<1> QED BY <1>1, <1>3, <1>4

\* Receiving from Send, by the pump or to evict, leaves an ordered suffix.
LEMMA SuffixInOrder ==
  ASSUME TypeOK, InOrder, NEW c \in Clients, send[c] # <<>>,
         send' = [send EXCEPT ![c] = Tail(@)],
         read' \in {read, [read EXCEPT ![c] = Head(send[c]).n]},
         UNCHANGED <<broadcast, evt, todo, published>>
  PROVE  InOrder'
<1>1. /\ send \in [Clients -> Seq(Delivery)] /\ read \in [Clients -> Nat]
      /\ \A b \in Clients \ {c} : send'[b] = send[b] /\ read'[b] = read[b]
      /\ send'[c] = Tail(send[c])
  BY DEF TypeOK, OutboxTyped, TallyTyped
<1>2. /\ Len(send'[c]) = Len(send[c]) - 1 /\ Len(send[c]) \in Nat \ {0}
      /\ \A k \in 1..Len(send'[c]) : send'[c][k] = send[c][k + 1]
      /\ Head(send[c]) = send[c][1]
  BY <1>1, ReceiveTyped
<1>3. read'[c] \in {read[c], send[c][1].n}
  BY <1>1, <1>2
<1>4. \A n \in Nat : Behind(c, n) =>
         read'[c] < n /\ \A k \in 1..Len(send'[c]) : send'[c][k].n < n
  BY <1>2, <1>3 DEF Behind
<1>5. \A k \in 1..Len(send'[c]) :
         /\ read'[c] < send'[c][k].n
         /\ \A j \in 1..(k - 1) : send'[c][j].n < send'[c][k].n
  <2> SUFFICES ASSUME NEW k \in 1..Len(send'[c])
      PROVE  /\ read'[c] < send'[c][k].n
             /\ \A j \in 1..(k - 1) : send'[c][j].n < send'[c][k].n
    OBVIOUS
  <2>1. k + 1 \in 1..Len(send[c]) /\ 1 \in 1..((k + 1) - 1)
    BY <1>2
  <2>2. \A j \in 1..(k - 1) : j + 1 \in 1..((k + 1) - 1) /\ j \in 1..Len(send'[c])
    BY <1>2
  <2> QED BY <1>2, <1>3, <2>1, <2>2 DEF InOrder, OrderedOnce
<1>6. evt # <<>> /\ c \in todo =>
         read'[c] < evt[1].n /\ \A k \in 1..Len(send'[c]) : send'[c][k].n < evt[1].n
  BY <1>4, OrderTypes DEF InOrder, OrderedOnce, Behind
<1>7. OrderedOnce'
  BY <1>1, <1>5, <1>6 DEF InOrder, OrderedOnce
<1>8. ASSUME NEW b \in Clients
      PROVE  /\ Behind(b, published + 1)'
             /\ \A i \in 1..Len(broadcast') : Behind(b, broadcast[i].n)'
  <2>1. CASE b = c
    <3>1. /\ published + 1 \in Nat /\ Behind(c, published + 1)
          /\ \A i \in 1..Len(broadcast) : broadcast[i].n \in Nat /\ Behind(c, broadcast[i].n)
      BY OrderTypes DEF InOrder
    <3>2. /\ read'[c] < published + 1 /\ \A k \in 1..Len(send'[c]) : send'[c][k].n < published + 1
          /\ \A i \in 1..Len(broadcast) :
               read'[c] < broadcast[i].n
               /\ \A k \in 1..Len(send'[c]) : send'[c][k].n < broadcast[i].n
      BY <1>4, <3>1
    <3> QED BY <2>1, <3>2 DEF Behind
  <2>2. CASE b # c
    BY <1>1, <2>2 DEF InOrder, Behind
  <2> QED BY <2>1, <2>2
<1> QED BY <1>7, <1>8 DEF InOrder

\* Every step keeps the events in order.
LEMMA NextInOrder ==
  ASSUME TypeOK, InOrder, [Next]_vars
  PROVE  InOrder'
<1>1. ASSUME NEW c \in Clients, Visit(c) PROVE InOrder'
  BY <1>1, VisitInOrder
<1>2. ASSUME NEW c \in Clients, EvictOldest(c) PROVE InOrder'
  <2>1. UNCHANGED <<broadcast, evt, todo, published, read>>
    BY <1>2 DEF EvictOldest, channels, callers
  <2>2. CASE send[c] = <<>>
    BY <1>2, <2>1, <2>2, UnchangedOrdering DEF EvictOldest, ordering
  <2>3. CASE send[c] # <<>>
    BY <1>2, <2>1, <2>3, SuffixInOrder DEF EvictOldest
  <2> QED BY <2>2, <2>3
<1>3. ASSUME NEW c \in Clients, NotifyLagged(c) PROVE InOrder'
  BY <1>3, UnchangedOrdering DEF NotifyLagged, ordering, channels, callers
<1>4. CASE EndFanout
  BY <1>4 DEF EndFanout, InOrder, OrderedOnce, Behind, channels, outbox, callers, tally
<1>5. CASE HandleBroadcast
  BY <1>5, HandleBroadcastInOrder
<1>6. CASE HandleSubscribe \/ HandleUnsubscribe \/ HandleRemove
  BY <1>6, UnchangedOrdering DEF HandleSubscribe, HandleUnsubscribe, HandleRemove,
     ordering, fanout, outbox, callers, tally
<1>7. ASSUME NEW c \in Clients, Handler(c) PROVE InOrder'
  BY <1>7, UnchangedOrdering DEF Handler, NewClient, AddScope, SetResolvePath,
     RemoveScope, Remove, RequestSubscribe, ordering, fanout, outbox, tally
<1>8. ASSUME NEW c \in Clients, WritePump(c) PROVE InOrder'
  <2>1. CASE ReceiveEvent(c)
    BY <2>1, SuffixInOrder DEF ReceiveEvent, channels, fanout, callers
  <2>2. CASE ReceiveLagged(c)
    BY <2>2, UnchangedOrdering DEF ReceiveLagged, ordering, channels, fanout, callers, tally
  <2> QED BY <1>8, <2>1, <2>2 DEF WritePump
<1>9. ASSUME NEW kind \in Kinds, NEW resolved \in BOOLEAN, Broadcast(kind, resolved)
      PROVE  InOrder'
  BY <1>9, BroadcastInOrder
<1>10. CASE UNCHANGED vars
  BY <1>10, UnchangedOrdering DEF vars, ordering, channels, fanout, outbox, callers, tally
<1> QED BY <1>1, <1>2, <1>3, <1>4, <1>5, <1>6, <1>7, <1>8, <1>9, <1>10
        DEF Next, Run, Fanout

\* A connection receives events in the order they were published and none
\* twice, across overflows, evictions and the closing of its channels.
THEOREM DeliversInOrder == Spec => []OrderedOnce
<1>1. Init => InOrder
  BY DEF Init, InOrder, OrderedOnce, Behind
<1>2. InOrder => OrderedOnce
  BY DEF InOrder
<1> QED BY TypeCorrect, NextInOrder, <1>1, <1>2, PTL DEF Spec

(***************************************************************************)
(* What overflows lose is accounted for, and never silently                *)
(***************************************************************************)

\* The variables Accounted is about.
accounts == <<full, owed, lagged, missed, reported, unsaid>>

\* Accounted depends on these variables only.
LEMMA UnchangedAccounts == Accounted /\ UNCHANGED accounts => Accounted'
BY DEF Accounted, LossAccounting, NoSilentLoss, accounts

\* The tallies are natural numbers.
LEMMA AccountTypes ==
  ASSUME TypeOK, NEW c \in Clients
  PROVE  /\ missed[c] \in Nat /\ reported[c] \in Nat /\ unsaid[c] \in Nat
         /\ lagged[c] \in Seq(Nat) /\ Len(lagged[c]) \in Nat
BY DEF TypeOK, TallyTyped, OutboxTyped

\* A failed send adds one missed event to be accounted for.
LEMMA VisitAccounted ==
  ASSUME TypeOK, Accounted, NEW c \in Clients, Visit(c)
  PROVE  Accounted'
<1>1. /\ full = {} /\ owed = {} /\ owed' = {}
      /\ UNCHANGED <<lagged, reported, unsaid>>
      /\ \/ full' = {} /\ missed' = missed
         \/ full' = {c} /\ missed' = [missed EXCEPT ![c] = @ + 1]
  BY DEF Visit
<1>2. CASE full' = {} /\ missed' = missed
  BY <1>1, <1>2 DEF Accounted, LossAccounting, NoSilentLoss
<1>3. CASE full' = {c} /\ missed' = [missed EXCEPT ![c] = @ + 1]
  <2>1. missed'[c] = missed[c] + 1 /\ \A b \in Clients \ {c} : missed'[b] = missed[b]
    BY <1>3 DEF TypeOK, TallyTyped
  <2>2. LossAccounting'
    BY <1>1, <1>3, <2>1, AccountTypes DEF Accounted, LossAccounting
  <2>3. NoSilentLoss'
    BY <1>1, <1>3, <2>1 DEF Accounted, NoSilentLoss
  <2> QED BY <1>1, <1>3, <2>2, <2>3 DEF Accounted
<1> QED BY <1>1, <1>2, <1>3

\* The eviction adds at most one more.
LEMMA EvictOldestAccounted ==
  ASSUME TypeOK, Accounted, NEW c \in Clients, EvictOldest(c)
  PROVE  Accounted'
<1>1. /\ c \in full /\ full' = {} /\ owed' = {c}
      /\ UNCHANGED <<lagged, reported, unsaid>>
      /\ missed' = missed \/ missed' = [missed EXCEPT ![c] = @ + 1]
  BY DEF EvictOldest
<1>2. missed'[c] \in {missed[c], missed[c] + 1}
      /\ \A b \in Clients \ {c} : missed'[b] = missed[b]
  BY <1>1 DEF TypeOK, TallyTyped
<1>3. full = {c} /\ owed = {}
  BY <1>1 DEF Accounted
<1>4. LossAccounting'
  <2> SUFFICES ASSUME NEW b \in Clients
               PROVE  LET notices == reported'[b] + unsaid'[b] IN
                        /\ missed'[b] >= notices + IF b \in full' \cup owed' THEN 1 ELSE 0
                        /\ missed'[b] <= 2 * notices + IF b \in full' THEN 1
                                                      ELSE IF b \in owed' THEN 2 ELSE 0
    BY DEF LossAccounting
  <2>1. LET notices == reported[b] + unsaid[b] IN
          /\ missed[b] >= notices + IF b \in full \cup owed THEN 1 ELSE 0
          /\ missed[b] <= 2 * notices + IF b \in full THEN 1 ELSE IF b \in owed THEN 2 ELSE 0
    BY DEF Accounted, LossAccounting
  <2>2. missed[b] \in Nat /\ reported[b] \in Nat /\ unsaid[b] \in Nat
    BY AccountTypes
  <2>3. CASE b = c
    BY <1>1, <1>2, <1>3, <2>1, <2>2, <2>3
  <2>4. CASE b # c
    BY <1>1, <1>2, <1>3, <2>1, <2>2, <2>4
  <2> QED BY <2>3, <2>4
<1>5. NoSilentLoss'
  BY <1>1, <1>2, <1>3 DEF Accounted, NoSilentLoss
<1> QED BY <1>1, <1>4, <1>5 DEF Accounted

\* The notice, or its suppression, settles the account.
LEMMA NotifyLaggedAccounted ==
  ASSUME TypeOK, Accounted, NEW c \in Clients, NotifyLagged(c)
  PROVE  Accounted'
<1>1. /\ c \in owed /\ owed' = {} /\ UNCHANGED <<full, missed>>
      /\ \/ /\ lagged' = [lagged EXCEPT ![c] = Append(@, 1)]
            /\ reported' = [reported EXCEPT ![c] = @ + 1]
            /\ unsaid' = unsaid
         \/ /\ Len(lagged[c]) >= LaggedCap
            /\ unsaid' = [unsaid EXCEPT ![c] = @ + 1]
            /\ lagged' = lagged /\ reported' = reported
  BY HubAssumption, AccountTypes DEF NotifyLagged, DroppedCount, HubAssumption
<1>2. full = {} /\ owed = {c}
  BY <1>1 DEF Accounted
<1>3. /\ reported'[c] + unsaid'[c] = reported[c] + unsaid[c] + 1
      /\ reported'[c] > 0
      /\ Len(lagged'[c]) <= reported'[c]
      /\ \A b \in Clients \ {c} :
           reported'[b] = reported[b] /\ unsaid'[b] = unsaid[b] /\ lagged'[b] = lagged[b]
  <2>1. /\ Len(Append(lagged[c], 1)) = Len(lagged[c]) + 1
        /\ LaggedCap \in Nat \ {0} /\ Len(lagged[c]) <= reported[c]
    BY HubAssumption, AccountTypes, SendTyped DEF Accounted, HubAssumption
  <2>2. /\ lagged \in [Clients -> Seq(Nat)] /\ reported \in [Clients -> Nat]
        /\ unsaid \in [Clients -> Nat]
    BY DEF TypeOK, TallyTyped, OutboxTyped
  <2>3. CASE /\ lagged' = [lagged EXCEPT ![c] = Append(@, 1)]
             /\ reported' = [reported EXCEPT ![c] = @ + 1]
             /\ unsaid' = unsaid
    <3>1. reported'[c] = reported[c] + 1 /\ lagged'[c] = Append(lagged[c], 1)
      BY <2>2, <2>3
    <3> QED BY <2>1, <2>2, <2>3, <3>1, AccountTypes
  <2>4. CASE /\ Len(lagged[c]) >= LaggedCap
             /\ unsaid' = [unsaid EXCEPT ![c] = @ + 1]
             /\ lagged' = lagged /\ reported' = reported
    <3>1. unsaid'[c] = unsaid[c] + 1 /\ reported[c] > 0
      BY <2>1, <2>2, <2>4, AccountTypes
    <3> QED BY <2>1, <2>2, <2>4, <3>1, AccountTypes
  <2> QED BY <1>1, <2>3, <2>4
<1>4. LossAccounting'
  <2> SUFFICES ASSUME NEW b \in Clients
      PROVE  /\ missed[b] >= (reported'[b] + unsaid'[b]) + 0
             /\ missed[b] <= 2 * (reported'[b] + unsaid'[b]) + 0
    BY <1>1, <1>2 DEF LossAccounting
  <2>1. CASE b = c
    <3>1. missed[c] >= reported[c] + unsaid[c] + 1
          /\ missed[c] <= 2 * (reported[c] + unsaid[c]) + 2
      BY <1>2 DEF Accounted, LossAccounting
    <3> QED BY <1>3, <2>1, <3>1, AccountTypes
  <2>2. CASE b # c
    <3>1. missed[b] >= reported[b] + unsaid[b] + 0
          /\ missed[b] <= 2 * (reported[b] + unsaid[b]) + 0
      BY <1>2, <2>2 DEF Accounted, LossAccounting
    <3> QED BY <1>3, <2>2, <3>1, AccountTypes
  <2> QED BY <2>1, <2>2
<1>5. NoSilentLoss'
  BY <1>1, <1>2, <1>3 DEF Accounted, NoSilentLoss
<1>6. \A b \in Clients : Len(lagged'[b]) <= reported'[b]
  BY <1>3 DEF Accounted
<1> QED BY <1>1, <1>2, <1>4, <1>5, <1>6 DEF Accounted

\* Reading a notice makes room in laggedCH.
LEMMA ReceiveLaggedAccounted ==
  ASSUME TypeOK, Accounted, NEW c \in Clients, ReceiveLagged(c)
  PROVE  Accounted'
<1>1. /\ lagged[c] # <<>> /\ lagged' = [lagged EXCEPT ![c] = Tail(@)]
      /\ UNCHANGED <<full, owed, missed, reported, unsaid>>
  BY DEF ReceiveLagged, fanout, tally
<1>2. Len(Tail(lagged[c])) = Len(lagged[c]) - 1
  BY <1>1, ReceiveTyped, AccountTypes
<1>3. \A b \in Clients : Len(lagged'[b]) <= Len(lagged[b])
  BY <1>1, <1>2, AccountTypes DEF TypeOK, OutboxTyped
<1>4. \A b \in Clients : Len(lagged'[b]) \in Nat
  BY <1>1, <1>2, AccountTypes DEF TypeOK, OutboxTyped
<1>5. \A b \in Clients : Len(lagged'[b]) <= reported'[b]
  BY <1>1, <1>3, <1>4, AccountTypes DEF Accounted
<1> QED BY <1>1, <1>5 DEF Accounted, LossAccounting, NoSilentLoss

\* Every step keeps the account.
LEMMA NextAccounted ==
  ASSUME TypeOK, Accounted, [Next]_vars
  PROVE  Accounted'
<1>1. ASSUME NEW c \in Clients, Visit(c) \/ EvictOldest(c) \/ NotifyLagged(c)
      PROVE  Accounted'
  BY <1>1, VisitAccounted, EvictOldestAccounted, NotifyLaggedAccounted
<1>2. CASE EndFanout \/ HandleBroadcast
  BY <1>2, UnchangedAccounts DEF EndFanout, HandleBroadcast, accounts, outbox, tally
<1>3. CASE HandleSubscribe \/ HandleUnsubscribe \/ HandleRemove
  BY <1>3, UnchangedAccounts DEF HandleSubscribe, HandleUnsubscribe, HandleRemove,
     accounts, fanout, outbox, tally
<1>4. ASSUME NEW c \in Clients, Handler(c) PROVE Accounted'
  BY <1>4, UnchangedAccounts DEF Handler, NewClient, AddScope, SetResolvePath,
     RemoveScope, Remove, RequestSubscribe, accounts, fanout, outbox, tally
<1>5. ASSUME NEW c \in Clients, WritePump(c) PROVE Accounted'
  <2>1. CASE ReceiveEvent(c)
    BY <2>1, UnchangedAccounts DEF ReceiveEvent, accounts, fanout
  <2>2. CASE ReceiveLagged(c)
    BY <2>2, ReceiveLaggedAccounted
  <2> QED BY <1>5, <2>1, <2>2 DEF WritePump
<1>6. ASSUME NEW kind \in Kinds, NEW resolved \in BOOLEAN, Broadcast(kind, resolved)
      PROVE  Accounted'
  BY <1>6, UnchangedAccounts DEF Broadcast, accounts, fanout, outbox, tally
<1>7. CASE UNCHANGED vars
  BY <1>7, UnchangedAccounts DEF vars, accounts, fanout, outbox, tally
<1> QED BY <1>1, <1>2, <1>3, <1>4, <1>5, <1>6, <1>7 DEF Next, Run, Fanout

\* Nothing is lost at first.
LEMMA InitAccounted == Init => Accounted
BY DEF Init, Accounted, LossAccounting, NoSilentLoss

\* Each overflow loses one or two events and produces one notice, sent or
\* suppressed: the notices bound the loss from both sides.
THEOREM LossIsAccounted == Spec => []LossAccounting
<1>1. Accounted => LossAccounting
  BY DEF Accounted
<1> QED BY TypeCorrect, InitAccounted, NextAccounted, <1>1, PTL DEF Spec

\* No client loses an event without being sent at least one lagged notice,
\* though a full laggedCH suppresses notices.
THEOREM LossIsNotSilent == Spec => []NoSilentLoss
<1>1. Accounted => NoSilentLoss
  BY DEF Accounted
<1> QED BY TypeCorrect, InitAccounted, NextAccounted, <1>1, PTL DEF Spec

(***************************************************************************)
(* The broker implements the lossy ordered feed                            *)
(***************************************************************************)

\* The numbers of a channel's events, and what sending and receiving do to them.
LEMMA NumberedTyped ==
  ASSUME NEW q \in Seq(Delivery)
  PROVE  /\ Len(Numbered(q)) = Len(q)
         /\ \A i \in 1..Len(q) : Numbered(q)[i] = q[i].n
         /\ \A d \in Delivery : Numbered(Append(q, d)) = Append(Numbered(q), d.n)
         /\ q # <<>> => /\ Numbered(q) # <<>>
                        /\ Head(Numbered(q)) = Head(q).n
                        /\ Numbered(Tail(q)) = Tail(Numbered(q))
<1>1. Numbered(q) \in Seq(Nat) /\ Len(Numbered(q)) = Len(q)
  <2>1. DOMAIN q = 1..Len(q) /\ Len(q) \in Nat
    OBVIOUS
  <2>2. \A i \in 1..Len(q) : q[i].n \in Nat
    <3>1. \A i \in 1..Len(q) : q[i] \in Delivery
      OBVIOUS
    <3> QED BY <3>1 DEF Delivery
  <2> QED BY <2>1, <2>2 DEF Numbered
<1>2. \A i \in 1..Len(q) : Numbered(q)[i] = q[i].n
  BY DEF Numbered
<1>3. ASSUME NEW d \in Delivery PROVE Numbered(Append(q, d)) = Append(Numbered(q), d.n)
  BY <1>1, <1>2 DEF Numbered, Delivery
<1>4. ASSUME q # <<>>
      PROVE  /\ Numbered(q) # <<>>
             /\ Head(Numbered(q)) = Head(q).n
             /\ Numbered(Tail(q)) = Tail(Numbered(q))
  BY <1>1, <1>2, <1>4 DEF Numbered
<1> QED BY <1>1, <1>2, <1>3, <1>4

\* Broadcast is called at most MaxEvents times.
WithinBound == published <= MaxEvents

\* The bound on Broadcast calls is kept.
LEMMA NextWithinBound == TypeOK /\ WithinBound /\ [Next]_vars => WithinBound'
<1> SUFFICES ASSUME TypeOK, WithinBound, [Next]_vars PROVE WithinBound'
  OBVIOUS
<1>1. published \in Nat /\ MaxEvents \in Nat
  BY HubAssumption DEF TypeOK, CallersTyped, HubAssumption
<1>2. published' \in {published, published + 1} /\ (published' # published => published < MaxEvents)
  BY DEF Next, Run, Fanout, HandleSubscribe, HandleUnsubscribe, HandleRemove,
     HandleBroadcast, Visit, EvictOldest, NotifyLagged, EndFanout, Handler, NewClient,
     AddScope, SetResolvePath, RemoveScope, Remove, WritePump, ReceiveEvent,
     ReceiveLagged, Broadcast, vars, callers
<1> QED BY <1>1, <1>2 DEF WithinBound

\* The abstract feed and debt, as named expressions.
feedOf == [c \in Clients |-> Numbered(send[c])]
debtors == full \cup owed

\* The abstract variables only depend on these.
feedState == <<send, read, full, owed, reported, closed>>

\* A step that leaves these variables alone is a stuttering step of the feed.
LEMMA FeedStutter == UNCHANGED feedState => UNCHANGED Feed!vars
<1> SUFFICES ASSUME UNCHANGED feedState PROVE UNCHANGED Feed!vars
  OBVIOUS
<1>1. UNCHANGED <<send, read, full, owed, reported, closed>>
  BY DEF feedState
<1> QED BY <1>1 DEF Feed!vars, Numbered

\* A change of one client's Send is a change of its feed only.
LEMMA FeedUpdate ==
  ASSUME TypeOK, NEW c \in Clients, NEW q \in Seq(Delivery),
         send' = [send EXCEPT ![c] = q]
  PROVE  feedOf' = [feedOf EXCEPT ![c] = Numbered(q)]
<1>1. send \in [Clients -> Seq(Delivery)]
  BY DEF TypeOK, OutboxTyped
<1>2. send' = [b \in Clients |-> IF b = c THEN q ELSE send[b]]
  BY <1>1
<1>3. feedOf' = [b \in Clients |-> IF b = c THEN Numbered(q) ELSE Numbered(send[b])]
  BY <1>2 DEF feedOf
<1> QED BY <1>3 DEF feedOf

\* A visit delivers, starts an overflow, or stutters.
LEMMA VisitFeed ==
  ASSUME TypeOK, RegisteredOnce, InOrder, WithinBound, NEW c \in Clients, Visit(c)
  PROVE  [Feed!Next]_(Feed!vars)
<1> DEFINE d == [n |-> evt[1].n, resolved |-> resolvePath[c] /\ evt[1].resolved]
<1>1. /\ evt # <<>> /\ c \in todo /\ full = {} /\ owed = {} /\ owed' = {}
      /\ UNCHANGED <<read, reported, closed>>
      /\ \/ send' = send /\ full' = {}
         \/ send' = [send EXCEPT ![c] = Append(@, d)] /\ full' = {} /\ Len(send[c]) < SendCap
         \/ send' = send /\ full' = {c} /\ Len(send[c]) = SendCap
  BY DEF Visit
<1>2. c \notin closed
  BY <1>1 DEF RegisteredOnce
<1>3. d \in Delivery /\ d.n = evt[1].n /\ evt[1].n \in Nat /\ published \in Nat
  BY <1>1, OrderTypes DEF Delivery, Event
<1>4. send \in [Clients -> Seq(Delivery)] /\ read[c] \in Nat
  BY DEF TypeOK, OutboxTyped, TallyTyped
<1> HIDE DEF d
<1>5. CASE send' = send /\ full' = {}
  BY <1>1, <1>5, FeedStutter DEF feedState
<1>6. CASE send' = [send EXCEPT ![c] = Append(@, d)] /\ full' = {} /\ Len(send[c]) < SendCap
  <2>1. read[c] < evt[1].n /\ \A k \in 1..Len(send[c]) : send[c][k].n < evt[1].n
    BY <1>1 DEF InOrder, OrderedOnce
  <2>2. evt[1].n \in 1..MaxEvents
    <3>1. evt[1].n <= published /\ published <= MaxEvents /\ MaxEvents \in Nat
      BY <1>1, HubAssumption DEF InOrder, WithinBound, HubAssumption
    <3> QED BY <1>3, <1>4, <2>1, <3>1
  <2>3. feedOf' = [feedOf EXCEPT ![c] = Append(@, evt[1].n)]
    <3>1. Append(send[c], d) \in Seq(Delivery) /\ send' = [send EXCEPT ![c] = Append(send[c], d)]
      BY <1>3, <1>4, <1>6
    <3>2. feedOf' = [feedOf EXCEPT ![c] = Numbered(Append(send[c], d))]
      BY <3>1, FeedUpdate
    <3>3. Numbered(Append(send[c], d)) = Append(Numbered(send[c]), evt[1].n)
      BY <1>3, <1>4, NumberedTyped
    <3> QED BY <3>2, <3>3 DEF feedOf
  <2>4. Len(feedOf[c]) < SendCap /\ \A k \in 1..Len(feedOf[c]) : evt[1].n > feedOf[c][k]
    <3>1. /\ Len(Numbered(send[c])) = Len(send[c])
          /\ \A k \in 1..Len(send[c]) : Numbered(send[c])[k] = send[c][k].n
      BY <1>4, NumberedTyped
    <3> QED BY <1>6, <2>1, <3>1 DEF feedOf
  <2>5. Feed!Deliver(c, evt[1].n)
    BY <1>1, <1>2, <1>6, <2>1, <2>3, <2>4 DEF Feed!Deliver, feedOf
  <2> QED BY <2>2, <2>5 DEF Feed!Next
<1>7. CASE send' = send /\ full' = {c} /\ Len(send[c]) = SendCap
  <2>1. Len(feedOf[c]) = SendCap
    BY <1>4, <1>7, NumberedTyped DEF feedOf
  <2>2. feedOf' = feedOf
    BY <1>7 DEF feedOf, Numbered
  <2>3. Feed!Lose(c)
    BY <1>1, <1>2, <1>7, <2>1, <2>2 DEF Feed!Lose, feedOf
  <2> QED BY <2>3 DEF Feed!Next
<1> QED BY <1>1, <1>5, <1>6, <1>7

\* Receiving from Send takes the oldest number off the feed.
LEMMA FeedTail ==
  ASSUME TypeOK, NEW c \in Clients, send[c] # <<>>, send' = [send EXCEPT ![c] = Tail(@)]
  PROVE  /\ feedOf[c] # <<>> /\ Head(feedOf[c]) = Head(send[c]).n
         /\ feedOf' = [feedOf EXCEPT ![c] = Tail(@)]
<1>1. send[c] \in Seq(Delivery)
  BY DEF TypeOK, OutboxTyped
<1>2. Tail(send[c]) \in Seq(Delivery)
  BY <1>1, ReceiveTyped
<1>3. feedOf' = [feedOf EXCEPT ![c] = Numbered(Tail(send[c]))]
  BY <1>2, FeedUpdate
<1> QED BY <1>1, <1>3, NumberedTyped DEF feedOf

\* An eviction loses the oldest event of the feed, or stutters.
LEMMA EvictOldestFeed ==
  ASSUME TypeOK, Accounted, NEW c \in Clients, EvictOldest(c)
  PROVE  [Feed!Next]_(Feed!vars)
<1>1. /\ c \in full /\ full' = {} /\ owed' = {c}
      /\ UNCHANGED <<read, reported, closed>>
  BY DEF EvictOldest
<1>2. debtors' = debtors /\ c \in debtors
  BY <1>1 DEF Accounted, debtors
<1>3. CASE send[c] = <<>>
  <2>1. send' = send
    BY <1>3 DEF EvictOldest
  <2>2. feedOf' = feedOf
    BY <2>1 DEF feedOf, Numbered
  <2> QED BY <1>1, <1>2, <2>2 DEF Feed!vars, feedOf, debtors
<1>4. CASE send[c] # <<>>
  <2>1. send' = [send EXCEPT ![c] = Tail(@)]
    BY <1>4 DEF EvictOldest
  <2>2. feedOf[c] # <<>> /\ feedOf' = [feedOf EXCEPT ![c] = Tail(@)]
    BY <1>4, <2>1, FeedTail
  <2>3. Feed!LoseOldest(c)
    BY <1>1, <1>2, <2>2 DEF Feed!LoseOldest, feedOf, debtors
  <2> QED BY <2>3 DEF Feed!Next
<1> QED BY <1>3, <1>4

\* A notice, sent or suppressed, is Tell.
LEMMA NotifyLaggedFeed ==
  ASSUME TypeOK, Accounted, NEW c \in Clients, NotifyLagged(c)
  PROVE  [Feed!Next]_(Feed!vars)
<1>1. /\ c \in owed /\ owed' = {} /\ UNCHANGED <<full, send, read, closed>>
      /\ \/ reported' = [reported EXCEPT ![c] = @ + 1]
         \/ Len(lagged[c]) >= LaggedCap /\ reported' = reported
  BY HubAssumption, AccountTypes DEF NotifyLagged, DroppedCount, HubAssumption
<1>2. full = {} /\ owed = {c}
  BY <1>1 DEF Accounted
<1>3. Len(lagged[c]) >= LaggedCap => reported[c] > 0
  BY HubAssumption, AccountTypes DEF Accounted, HubAssumption
<1>4. feedOf' = feedOf
  BY <1>1 DEF feedOf, Numbered
<1>5. Feed!Tell(c)
  BY <1>1, <1>2, <1>3, <1>4 DEF Feed!Tell, feedOf
<1> QED BY <1>5 DEF Feed!Next

\* Receiving from Send is Take.
LEMMA WritePumpFeed ==
  ASSUME TypeOK, NEW c \in Clients, WritePump(c)
  PROVE  [Feed!Next]_(Feed!vars)
<1>1. CASE ReceiveEvent(c)
  <2>1. /\ send[c] # <<>> /\ send' = [send EXCEPT ![c] = Tail(@)]
        /\ read' = [read EXCEPT ![c] = Head(send[c]).n]
        /\ UNCHANGED <<full, owed, reported, closed>>
    BY <1>1 DEF ReceiveEvent, fanout
  <2>2. /\ feedOf[c] # <<>> /\ Head(feedOf[c]) = Head(send[c]).n
        /\ feedOf' = [feedOf EXCEPT ![c] = Tail(@)]
    BY <2>1, FeedTail
  <2>3. Feed!Take(c)
    BY <2>1, <2>2 DEF Feed!Take, feedOf
  <2> QED BY <2>3 DEF Feed!Next
<1>2. CASE ReceiveLagged(c)
  BY <1>2, FeedStutter DEF ReceiveLagged, feedState, fanout, tally
<1> QED BY <1>1, <1>2 DEF WritePump

\* Closing a client is End.
LEMMA HandleRemoveFeed ==
  ASSUME TypeOK, RegisteredOnce, HandleRemove
  PROVE  [Feed!Next]_(Feed!vars)
<1> DEFINE c == Head(remove)
<1>1. /\ remove # <<>> /\ full = {} /\ owed = {}
      /\ closed' = closed \cup (clients \cap {c})
      /\ UNCHANGED <<send, read, full, owed, reported>>
  BY DEF HandleRemove, RegisteredOnce, fanout, tally
<1>2. c \in Clients
  BY <1>1, ReceiveTyped DEF TypeOK, ChannelsTyped
<1> HIDE DEF c
<1>3. CASE c \in clients
  <2>1. closed' = closed \cup {c} /\ c \notin closed
    BY <1>1, <1>3 DEF RegisteredOnce
  <2>2. feedOf' = feedOf
    BY <1>1 DEF feedOf, Numbered
  <2>3. Feed!End(c)
    BY <1>1, <2>1, <2>2 DEF Feed!End, feedOf
  <2> QED BY <1>2, <2>3 DEF Feed!Next
<1>4. CASE c \notin clients
  BY <1>1, <1>4, FeedStutter DEF feedState
<1> QED BY <1>3, <1>4

\* Every step of the broker is a step of the feed or a stutter.
LEMMA NextFeed ==
  ASSUME TypeOK, RegisteredOnce, InOrder, Accounted, WithinBound, [Next]_vars
  PROVE  [Feed!Next]_(Feed!vars)
<1>1. ASSUME NEW c \in Clients, Visit(c) \/ EvictOldest(c) \/ NotifyLagged(c)
      PROVE  [Feed!Next]_(Feed!vars)
  BY <1>1, VisitFeed, EvictOldestFeed, NotifyLaggedFeed
<1>2. CASE EndFanout \/ HandleBroadcast \/ HandleSubscribe \/ HandleUnsubscribe
  BY <1>2, FeedStutter DEF EndFanout, HandleBroadcast, HandleSubscribe, HandleUnsubscribe,
     feedState, fanout, outbox, tally
<1>3. CASE HandleRemove
  BY <1>3, HandleRemoveFeed
<1>4. ASSUME NEW c \in Clients, Handler(c) PROVE [Feed!Next]_(Feed!vars)
  BY <1>4, FeedStutter DEF Handler, NewClient, AddScope, SetResolvePath, RemoveScope,
     Remove, RequestSubscribe, feedState, fanout, outbox, tally
<1>5. ASSUME NEW c \in Clients, WritePump(c) PROVE [Feed!Next]_(Feed!vars)
  BY <1>5, WritePumpFeed
<1>6. ASSUME NEW kind \in Kinds, NEW resolved \in BOOLEAN, Broadcast(kind, resolved)
      PROVE  [Feed!Next]_(Feed!vars)
  BY <1>6, FeedStutter DEF Broadcast, feedState, fanout, outbox, tally
<1>7. CASE UNCHANGED vars
  BY <1>7, FeedStutter DEF vars, feedState, fanout, outbox, tally
<1> QED BY <1>1, <1>2, <1>3, <1>4, <1>5, <1>6, <1>7 DEF Next, Run, Fanout

\* For every connection the broker is a lossy feed that keeps the order, loses
\* nothing silently and ends for good: it implements LossyFeed.
THEOREM ImplementsFeed == Spec => FeedSpec
<1>1. Init => RegisteredOnce /\ InOrder /\ WithinBound /\ Feed!Init
  <2> SUFFICES ASSUME Init PROVE RegisteredOnce /\ InOrder /\ WithinBound /\ Feed!Init
    OBVIOUS
  <2>1. RegisteredOnce
    BY DEF Init, RegisteredOnce
  <2>2. InOrder
    BY DEF Init, InOrder, OrderedOnce, Behind
  <2>3. WithinBound
    BY HubAssumption DEF Init, WithinBound, HubAssumption
  <2>4. Feed!Init
    BY DEF Init, Feed!Init, Numbered
  <2> QED BY <2>1, <2>2, <2>3, <2>4
<1> QED BY TypeCorrect, InitAccounted, NextRegisteredOnce, NextInOrder, NextAccounted,
           NextWithinBound, NextFeed, <1>1, PTL DEF Spec, FeedSpec, Feed!Spec

(***************************************************************************)
(* The composition implements Hub                                          *)
(***************************************************************************)

\* A step of a connection is a step of its handler or its pump, or one the
\* broker does not see.
LEMMA ConnectionIsHub ==
  ASSUME NEW c \in Clients, Connection(c)
  PROVE  [Next]_vars
<1>1. CASE (Acquire(c) \/ Release(c)) /\ UNCHANGED <<vars, pump, cut>>
  BY <1>1
<1>2. CASE (AcceptFails(c) \/ HelloFails(c) \/ ReadEnds(c)) /\ UNCHANGED <<vars, count, pump, cut>>
  BY <1>2
<1>3. CASE Hello(c) /\ UNCHANGED <<vars, count, cut>>
  BY <1>3
<1>4. CASE (Accept(c) \/ Deregister(c)) /\ UNCHANGED <<count, pump, cut>>
  BY <1>4 DEF Accept, Deregister, Next, Handler
<1>5. CASE Request(c) /\ UNCHANGED connection
  BY <1>5 DEF Request, Next, Handler
<1>6. CASE PeerLost(c) /\ UNCHANGED <<vars, count, stage, pump>>
  BY <1>6
<1>7. CASE PumpWrite(c) /\ UNCHANGED <<count, stage>>
  BY <1>7 DEF PumpWrite, Next, WritePump
<1>8. CASE PumpEnds(c) /\ UNCHANGED <<vars, count, stage, cut>>
  BY <1>8
<1> QED BY <1>1, <1>2, <1>3, <1>4, <1>5, <1>6, <1>7, <1>8 DEF Connection

\* Each step of the server is a step of the broker, or none.
LEMMA StepIsHub == [WsNext]_wsVars => [Next]_vars
<1> SUFFICES ASSUME [WsNext]_wsVars PROVE [Next]_vars
  OBVIOUS
<1>1. CASE Broker
  BY <1>1 DEF Broker, Next
<1>2. CASE \E c \in Clients : Connection(c)
  BY <1>2, ConnectionIsHub
<1>3. CASE UNCHANGED wsVars
  BY <1>3 DEF wsVars
<1> QED BY <1>1, <1>2, <1>3 DEF WsNext

\* The server is a run of Hub: handler.go calls the broker in the order that
\* Hub assumes of it, whatever becomes of the connection.
THEOREM ImplementsHub == WsSpec => Spec
<1>1. WsInit => Init
  BY DEF WsInit
<1> QED BY <1>1, StepIsHub, PTL DEF WsSpec, Spec

(***************************************************************************)
(* What the broker's steps leave alone                                     *)
(***************************************************************************)

lifecycle == <<remove, closed, phase>>

\* Of the steps of Run only HandleRemove closes a client.
LEMMA RunKeeps ==
  ASSUME Run
  PROVE  HandleRemove \/ UNCHANGED lifecycle
<1>1. CASE HandleSubscribe
  BY <1>1 DEF HandleSubscribe, lifecycle, outbox, callers
<1>2. CASE HandleUnsubscribe
  BY <1>2 DEF HandleUnsubscribe, lifecycle, outbox, callers
<1>3. CASE HandleBroadcast
  BY <1>3 DEF HandleBroadcast, lifecycle, outbox, callers
<1>4. CASE EndFanout
  BY <1>4 DEF EndFanout, lifecycle, channels, outbox, callers
<1>5. ASSUME NEW c \in Clients, Visit(c) \/ EvictOldest(c) \/ NotifyLagged(c)
      PROVE  UNCHANGED lifecycle
  BY <1>5 DEF Visit, EvictOldest, NotifyLagged, lifecycle, channels, callers
<1> QED BY <1>1, <1>2, <1>3, <1>4, <1>5 DEF Run, Fanout

\* Nor do Broadcast, a request and the write pump.
LEMMA CallsKeep ==
  /\ \A kind, resolved : Broadcast(kind, resolved) => UNCHANGED lifecycle
  /\ \A c : Request(c) => UNCHANGED lifecycle
  /\ \A c : ReceiveEvent(c) \/ ReceiveLagged(c) => UNCHANGED lifecycle
<1>1. \A kind, resolved : Broadcast(kind, resolved) => UNCHANGED lifecycle
  BY DEF Broadcast, lifecycle, outbox
<1>2. ASSUME NEW c, Request(c) PROVE UNCHANGED lifecycle
  BY <1>2 DEF Request, AddScope, RemoveScope, SetResolvePath, RequestSubscribe, lifecycle, outbox
<1>3. ASSUME NEW c, ReceiveEvent(c) \/ ReceiveLagged(c) PROVE UNCHANGED lifecycle
  BY <1>3 DEF ReceiveEvent, ReceiveLagged, lifecycle, channels, callers
<1> QED BY <1>1, <1>2, <1>3

(***************************************************************************)
(* Type correctness                                                        *)
(***************************************************************************)

\* The variables of the endpoint have their types.
ConnectionTyped ==
  /\ count \in [Ips -> Nat]
  /\ stage \in [Clients -> Stages]
  /\ pump \in [Clients -> {"none", "running", "ended"}]
  /\ cut \subseteq Clients

\* A step of a connection keeps the types of the endpoint.
LEMMA ConnectionKeepsTypes ==
  ASSUME ConnectionTyped, NEW c \in Clients, Connection(c)
  PROVE  ConnectionTyped'
<1> USE DEF ConnectionTyped, Stages
<1>1. CASE Acquire(c) /\ UNCHANGED <<vars, pump, cut>>
  BY <1>1, WsAssumption DEF Acquire, Advance, WsAssumption
<1>2. CASE Release(c) /\ UNCHANGED <<vars, pump, cut>>
  <2>1. IpOf[c] \in Ips /\ count[IpOf[c]] \in Nat
    BY WsAssumption DEF WsAssumption
  <2>2. (IF count[IpOf[c]] - 1 <= 0 THEN 0 ELSE count[IpOf[c]] - 1) \in Nat
    BY <2>1
  <2>3. count' \in [Ips -> Nat]
    BY <1>2, <2>1, <2>2 DEF Release
  <2> QED BY <1>2, <2>3 DEF Release, Advance
<1>3. CASE (AcceptFails(c) \/ HelloFails(c) \/ ReadEnds(c)) /\ UNCHANGED <<vars, count, pump, cut>>
  BY <1>3 DEF AcceptFails, HelloFails, ReadEnds, Advance
<1>4. CASE Hello(c) /\ UNCHANGED <<vars, count, cut>>
  BY <1>4 DEF Hello, Advance
<1>5. CASE (Accept(c) \/ Deregister(c)) /\ UNCHANGED <<count, pump, cut>>
  BY <1>5 DEF Accept, Deregister, Advance
<1>6. CASE Request(c) /\ UNCHANGED connection
  BY <1>6 DEF connection
<1>7. CASE PeerLost(c) /\ UNCHANGED <<vars, count, stage, pump>>
  BY <1>7 DEF PeerLost
<1>8. CASE PumpWrite(c) /\ UNCHANGED <<count, stage>>
  BY <1>8 DEF PumpWrite
<1>9. CASE PumpEnds(c) /\ UNCHANGED <<vars, count, stage, cut>>
  BY <1>9 DEF PumpEnds
<1> QED BY <1>1, <1>2, <1>3, <1>4, <1>5, <1>6, <1>7, <1>8, <1>9 DEF Connection

\* Types, limiter map and channel capacities of the whole server.
THEOREM WsTypeCorrect == WsSpec => []WsTypeOK
<1>1. WsInit => ConnectionTyped
  BY DEF WsInit, ConnectionTyped, Stages
<1>2. ConnectionTyped /\ [WsNext]_wsVars => ConnectionTyped'
  <2> SUFFICES ASSUME ConnectionTyped, [WsNext]_wsVars PROVE ConnectionTyped'
    OBVIOUS
  <2>1. CASE Broker \/ UNCHANGED wsVars
    BY <2>1 DEF Broker, wsVars, connection, ConnectionTyped
  <2> QED BY <2>1, ConnectionKeepsTypes DEF WsNext
<1>3. TypeOK /\ ConnectionTyped => WsTypeOK
  BY DEF WsTypeOK, ConnectionTyped
<1> QED BY <1>1, <1>2, <1>3, ImplementsHub, TypeCorrect, PTL DEF WsSpec

\* What HubProofs shows holds of the composed server: Run never offers an
\* event to a connection that it has closed.
THEOREM WsNeverServesClosed == WsSpec => []ClosedNeverServed
BY ImplementsHub, NeverServesClosed, PTL

(***************************************************************************)
(* The limiter                                                             *)
(***************************************************************************)

\* A connection that stays in or out of Holding changes no address's set.
LEMMA OpenStays ==
  ASSUME NEW c \in Clients, NEW to, stage \in [Clients -> Stages],
         stage' = [stage EXCEPT ![c] = to], stage[c] \in Holding <=> to \in Holding
  PROVE  \A ip : Open(ip)' = Open(ip)
BY DEF Open

\* A connection that is let in joins the set of its address.
LEMMA OpenGrows ==
  ASSUME NEW c \in Clients, NEW to \in Holding, stage \in [Clients -> Stages],
         stage' = [stage EXCEPT ![c] = to], stage[c] \notin Holding
  PROVE  /\ c \notin Open(IpOf[c])
         /\ \A ip : Open(ip)' = IF ip = IpOf[c] THEN Open(ip) \cup {c} ELSE Open(ip)
BY DEF Open

\* A connection that is done leaves the set of its address.
LEMMA OpenShrinks ==
  ASSUME NEW c \in Clients, NEW to, to \notin Holding, stage \in [Clients -> Stages],
         stage' = [stage EXCEPT ![c] = to], stage[c] \in Holding
  PROVE  /\ c \in Open(IpOf[c])
         /\ \A ip : Open(ip)' = IF ip = IpOf[c] THEN Open(ip) \ {c} ELSE Open(ip)
BY DEF Open

\* The sets are finite.
LEMMA OpenFinite == \A ip : IsFiniteSet(Open(ip)) /\ Cardinality(Open(ip)) \in Nat
<1> TAKE ip
<1>1. Open(ip) \in SUBSET Clients
  BY DEF Open
<1> QED BY <1>1, WsAssumption, FS_Subset, FS_CardinalityType DEF WsAssumption

\* acquire counts the connection it lets in, and keeps to the limit.
LEMMA AcquireExact ==
  ASSUME ConnectionTyped, LimiterExact, NEW c \in Clients, Acquire(c)
  PROVE  LimiterExact'
<1> DEFINE ip == IpOf[c]
<1>1. stage \in [Clients -> Stages] /\ ip \in Ips /\ count \in [Ips -> Nat] /\ MaxConns \in Nat
  BY WsAssumption DEF ConnectionTyped, WsAssumption
<1>2. CASE Advance(c, "away", "refused") /\ UNCHANGED count
  <2>1. \A i : Open(i)' = Open(i)
    BY <1>1, <1>2, OpenStays DEF Advance, Holding
  <2> QED BY <1>2, <2>1 DEF LimiterExact
<1>3. CASE count[ip] < MaxConns /\ Advance(c, "away", "admitted") /\ count' = [count EXCEPT ![ip] = @ + 1]
  <2>1. /\ c \notin Open(ip)
        /\ \A i : Open(i)' = IF i = ip THEN Open(i) \cup {c} ELSE Open(i)
    BY <1>1, <1>3, OpenGrows DEF Advance, Holding
  <2>2. Cardinality(Open(ip) \cup {c}) = Cardinality(Open(ip)) + 1
    BY <2>1, OpenFinite, FS_AddElement
  <2>3. ASSUME NEW i \in Ips PROVE count'[i] = Cardinality(Open(i)') /\ count'[i] <= MaxConns
    <3>1. CASE i = ip
      BY <1>1, <1>3, <2>1, <2>2, <3>1 DEF LimiterExact
    <3>2. CASE i # ip
      BY <1>1, <1>3, <2>1, <3>2 DEF LimiterExact
    <3> QED BY <3>1, <3>2
  <2>4. MaxConns' = MaxConns /\ Ips' = Ips
    OBVIOUS
  <2> QED BY <2>3 DEF LimiterExact
<1> QED BY <1>2, <1>3 DEF Acquire

\* release takes exactly the connection off again.
LEMMA ReleaseExact ==
  ASSUME ConnectionTyped, LimiterExact, NEW c \in Clients, Release(c)
  PROVE  LimiterExact'
<1> DEFINE ip == IpOf[c]
<1>1. stage \in [Clients -> Stages] /\ ip \in Ips /\ count \in [Ips -> Nat] /\ MaxConns \in Nat
  BY WsAssumption DEF ConnectionTyped, WsAssumption
<1>2. /\ c \in Open(ip)
      /\ \A i : Open(i)' = IF i = ip THEN Open(i) \ {c} ELSE Open(i)
  BY <1>1, OpenShrinks DEF Release, Advance, Holding
<1>3. Cardinality(Open(ip) \ {c}) = Cardinality(Open(ip)) - 1
  BY <1>2, OpenFinite, FS_RemoveElement
<1>4. Cardinality(Open(ip)) # 0
  BY <1>2, OpenFinite, FS_EmptySet
<1>5. ASSUME NEW i \in Ips PROVE count'[i] = Cardinality(Open(i)') /\ count'[i] <= MaxConns
  <2>1. CASE i = ip
    <3>1. count[ip] = Cardinality(Open(ip)) /\ count[ip] <= MaxConns /\ count[ip] \in Nat
      BY <1>1 DEF LimiterExact
    <3>2. count[ip] - 1 <= 0 => count[ip] = 1
      BY <1>4, <3>1
    <3>3. count'[ip] = count[ip] - 1
      BY <1>1, <3>1, <3>2 DEF Release
    <3>4. Open(i)' = Open(ip) \ {c}
      BY <1>2, <2>1
    <3> QED BY <1>1, <1>3, <2>1, <3>1, <3>3, <3>4
  <2>2. CASE i # ip
    BY <1>1, <1>2, <2>2 DEF LimiterExact, Release
  <2> QED BY <2>1, <2>2
<1> QED BY <1>5 DEF LimiterExact

\* No other step of a connection takes or gives a slot.
LEMMA ConnectionExact ==
  ASSUME ConnectionTyped, LimiterExact, NEW c \in Clients, Connection(c)
  PROVE  LimiterExact'
<1>1. stage \in [Clients -> Stages]
  BY DEF ConnectionTyped
<1>2. CASE /\ UNCHANGED count
           /\ \/ AcceptFails(c) \/ HelloFails(c) \/ ReadEnds(c) \/ Hello(c)
              \/ Accept(c) \/ Deregister(c)
  <2>1. \A ip : Open(ip)' = Open(ip)
    BY <1>1, <1>2, OpenStays
       DEF AcceptFails, HelloFails, ReadEnds, Hello, Accept, Deregister, Advance, Holding
  <2> QED BY <1>2, <2>1 DEF LimiterExact
<1>3. CASE UNCHANGED <<count, stage>>
  BY <1>3 DEF LimiterExact, Open
<1> QED BY <1>2, <1>3, AcquireExact, ReleaseExact DEF Connection, connection

\* Whatever path a connection takes through the handler, the limiter counts
\* it while it is between acquire and release, and never past the limit.
THEOREM LimiterCounts == WsSpec => []LimiterExact
<1>1. WsInit => LimiterExact
  <2> SUFFICES ASSUME WsInit PROVE LimiterExact
    OBVIOUS
  <2>1. \A ip : Open(ip) = {}
    BY DEF WsInit, Open, Holding
  <2> QED BY <2>1, FS_EmptySet, WsAssumption DEF LimiterExact, WsInit, WsAssumption
<1>2. ConnectionTyped /\ LimiterExact /\ [WsNext]_wsVars => LimiterExact'
  <2> SUFFICES ASSUME ConnectionTyped, LimiterExact, [WsNext]_wsVars PROVE LimiterExact'
    OBVIOUS
  <2>1. CASE Broker \/ UNCHANGED wsVars
    BY <2>1 DEF Broker, wsVars, connection, LimiterExact, Open
  <2> QED BY <2>1, ConnectionExact DEF WsNext
<1>3. WsTypeOK => ConnectionTyped
  BY DEF WsTypeOK, ConnectionTyped
<1> QED BY <1>1, <1>2, <1>3, WsTypeCorrect, PTL DEF WsSpec

(***************************************************************************)
(* No connection is deaf                                                   *)
(***************************************************************************)

\* The broker has closed, or is asked to remove, only connections that have
\* called Remove; the handler calls NewClient and Remove in these stages.
Staged ==
  /\ \A c \in closed : phase[c] = "left"
  /\ \A i \in 1..Len(remove) : phase[remove[i]] = "left"
  /\ \A c \in Clients :
       /\ stage[c] \in {"away", "refused", "admitted"} => phase[c] = "unborn"
       /\ stage[c] \in {"accepted", "serving", "leaving"} => phase[c] = "open"

\* HandleRemove closes a connection that has asked for it.
LEMMA HandleRemoveStaged ==
  ASSUME WsTypeOK, Staged, HandleRemove, UNCHANGED connection
  PROVE  Staged'
<1>1. remove \in Seq(Clients) /\ remove # <<>>
  BY DEF WsTypeOK, TypeOK, ChannelsTyped, HandleRemove
<1>2. phase[Head(remove)] = "left"
  BY <1>1, ReceiveTyped DEF Staged
<1>3. \A i \in 1..Len(remove') : phase[remove'[i]] = "left"
  BY <1>1, ReceiveTyped DEF Staged, HandleRemove
<1>4. \A c \in closed' : phase[c] = "left"
  BY <1>2 DEF Staged, HandleRemove
<1>5. UNCHANGED <<phase, stage>>
  BY DEF HandleRemove, callers, connection
<1> QED BY <1>3, <1>4, <1>5 DEF Staged

\* Deregister queues the removal, as the phase says.
LEMMA DeregisterStaged ==
  ASSUME WsTypeOK, Staged, NEW c \in Clients, Deregister(c)
  PROVE  Staged'
<1>1. remove \in Seq(Clients) /\ phase \in [Clients -> {"unborn", "open", "left"}]
      /\ stage \in [Clients -> Stages]
  BY DEF WsTypeOK, TypeOK, ChannelsTyped, CallersTyped
<1>2. /\ remove' = Append(remove, c) /\ phase' = [phase EXCEPT ![c] = "left"]
      /\ closed' = closed /\ stage' = [stage EXCEPT ![c] = "removed"]
  BY DEF Deregister, Advance, Remove, outbox
<1>3. \A i \in 1..Len(remove') : phase'[remove'[i]] = "left"
  <2> SUFFICES ASSUME NEW i \in 1..Len(remove') PROVE phase'[remove'[i]] = "left"
    OBVIOUS
  <2>1. CASE i = Len(remove) + 1
    BY <1>1, <1>2, <2>1, SendTyped
  <2>2. CASE i # Len(remove) + 1
    <3>1. i \in 1..Len(remove) /\ remove'[i] = remove[i] /\ remove[i] \in Clients
      BY <1>1, <1>2, <2>2, SendTyped
    <3> QED BY <1>1, <1>2, <3>1 DEF Staged
  <2> QED BY <2>1, <2>2
<1>4. \A d \in closed' : phase'[d] = "left"
  BY <1>1, <1>2 DEF Staged, WsTypeOK, TypeOK, OutboxTyped
<1>5. \A d \in Clients :
        /\ stage'[d] \in {"away", "refused", "admitted"} => phase'[d] = "unborn"
        /\ stage'[d] \in {"accepted", "serving", "leaving"} => phase'[d] = "open"
  BY <1>1, <1>2 DEF Staged
<1> QED BY <1>3, <1>4, <1>5 DEF Staged

\* Accept registers a connection nobody has asked to remove.
LEMMA AcceptStaged ==
  ASSUME WsTypeOK, Staged, NEW c \in Clients, Accept(c)
  PROVE  Staged'
<1>1. remove \in Seq(Clients) /\ phase \in [Clients -> {"unborn", "open", "left"}]
      /\ stage \in [Clients -> Stages] /\ closed \subseteq Clients
  BY DEF WsTypeOK, TypeOK, ChannelsTyped, CallersTyped, OutboxTyped
<1>2. /\ phase[c] = "unborn" /\ phase' = [phase EXCEPT ![c] = "open"]
      /\ remove' = remove /\ closed' = closed /\ stage' = [stage EXCEPT ![c] = "accepted"]
  BY DEF Accept, Advance, NewClient, RequestSubscribe, outbox
<1>3. \A i \in 1..Len(remove) : remove[i] \in Clients
  BY <1>1
<1> QED BY <1>1, <1>2, <1>3 DEF Staged

\* The other stages are passed without the broker.
LEMMA ConnectionStaged ==
  ASSUME WsTypeOK, Staged, NEW c \in Clients, Connection(c)
  PROVE  Staged'
<1>1. stage \in [Clients -> Stages]
  BY DEF WsTypeOK
<1>2. CASE Acquire(c) /\ UNCHANGED vars
  BY <1>1, <1>2 DEF Acquire, Advance, Staged, vars, channels, outbox, callers
<1>3. CASE Release(c) /\ UNCHANGED vars
  BY <1>1, <1>3 DEF Release, Advance, Staged, vars, channels, outbox, callers
<1>4. CASE (AcceptFails(c) \/ HelloFails(c) \/ ReadEnds(c) \/ Hello(c)) /\ UNCHANGED vars
  BY <1>1, <1>4
     DEF AcceptFails, HelloFails, ReadEnds, Hello, Advance, Staged, vars, channels, outbox, callers
<1>5. CASE UNCHANGED lifecycle /\ UNCHANGED stage
  BY <1>5 DEF lifecycle, Staged
<1>6. UNCHANGED vars => UNCHANGED lifecycle
  BY DEF vars, channels, outbox, callers, lifecycle
<1>7. CASE Request(c) /\ UNCHANGED connection
  BY <1>5, <1>7, CallsKeep DEF connection
<1>8. CASE PumpWrite(c) /\ UNCHANGED <<count, stage>>
  BY <1>5, <1>8, CallsKeep DEF PumpWrite
<1>9. CASE (PeerLost(c) \/ PumpEnds(c)) /\ UNCHANGED <<vars, stage>>
  BY <1>5, <1>6, <1>9
<1> QED BY <1>2, <1>3, <1>4, <1>7, <1>8, <1>9, DeregisterStaged, AcceptStaged DEF Connection

\* A step of the broker.
LEMMA BrokerStaged ==
  ASSUME WsTypeOK, Staged, Broker
  PROVE  Staged'
<1>1. HandleRemove \/ UNCHANGED lifecycle
  BY RunKeeps, CallsKeep DEF Broker
<1>2. UNCHANGED connection
  BY DEF Broker
<1>3. CASE UNCHANGED lifecycle
  BY <1>2, <1>3 DEF lifecycle, connection, Staged
<1> QED BY <1>1, <1>2, <1>3, HandleRemoveStaged

\* The pump of a connection that is served ends with the context only, since
\* Staged keeps its channels open.
LEMMA ConnectionNotDeaf ==
  ASSUME WsTypeOK, Staged, Staged', NeverDeaf, NEW c \in Clients, Connection(c)
  PROVE  NeverDeaf'
<1>1. /\ stage \in [Clients -> Stages] /\ cut \subseteq Clients
      /\ pump \in [Clients -> {"none", "running", "ended"}]
  BY DEF WsTypeOK
<1> DEFINE Hears(d) == stage[d] = "serving" /\ d \notin cut => pump[d] = "running"
<1>2. \A d \in Clients : Hears(d)
  BY DEF NeverDeaf
<1>3. ASSUME \A d \in Clients : Hears(d)' PROVE NeverDeaf'
  <2>1. \A d \in Clients : stage'[d] = "serving" => d \notin closed'
    BY DEF Staged
  <2> QED BY <1>3, <2>1 DEF NeverDeaf
<1>4. CASE (Acquire(c) \/ Release(c)) /\ UNCHANGED <<vars, pump, cut>>
  <2>1. \A d \in Clients : Hears(d)'
    BY <1>1, <1>2, <1>4 DEF Acquire, Release, Advance
  <2> QED BY <1>3, <2>1
<1>5. CASE (AcceptFails(c) \/ HelloFails(c) \/ ReadEnds(c)) /\ UNCHANGED <<vars, count, pump, cut>>
  <2>1. \A d \in Clients : Hears(d)'
    BY <1>1, <1>2, <1>5 DEF AcceptFails, HelloFails, ReadEnds, Advance
  <2> QED BY <1>3, <2>1
<1>6. CASE Hello(c) /\ UNCHANGED <<vars, count, cut>>
  <2>1. \A d \in Clients : Hears(d)'
    BY <1>1, <1>2, <1>6 DEF Hello, Advance
  <2> QED BY <1>3, <2>1
<1>7. CASE (Accept(c) \/ Deregister(c)) /\ UNCHANGED <<count, pump, cut>>
  <2>1. \A d \in Clients : Hears(d)'
    BY <1>1, <1>2, <1>7 DEF Accept, Deregister, Advance
  <2> QED BY <1>3, <2>1
<1>8. CASE Request(c) /\ UNCHANGED connection
  <2>1. \A d \in Clients : Hears(d)'
    BY <1>2, <1>8 DEF connection
  <2> QED BY <1>3, <2>1
<1>9. CASE PeerLost(c) /\ UNCHANGED <<vars, count, stage, pump>>
  <2>1. \A d \in Clients : Hears(d)'
    BY <1>1, <1>2, <1>9 DEF PeerLost
  <2> QED BY <1>3, <2>1
<1>10. CASE PumpWrite(c) /\ UNCHANGED <<count, stage>>
  <2>1. \A d \in Clients : Hears(d)'
    BY <1>1, <1>2, <1>10 DEF PumpWrite
  <2> QED BY <1>3, <2>1
<1>11. CASE PumpEnds(c) /\ UNCHANGED <<vars, count, stage, cut>>
  <2>1. stage[c] # "serving"
    BY <1>11 DEF PumpEnds, Cancelled, Staged
  <2>2. \A d \in Clients : Hears(d)'
    BY <1>1, <1>2, <1>11, <2>1 DEF PumpEnds
  <2> QED BY <1>3, <2>2
<1> QED BY <1>4, <1>5, <1>6, <1>7, <1>8, <1>9, <1>10, <1>11 DEF Connection

\* A connection that is read from, and that nothing has cut off, has a write
\* pump and open channels.
THEOREM ServedIsHeard == WsSpec => []NeverDeaf
<1>1. WsInit => Staged /\ NeverDeaf
  BY DEF WsInit, Init, Staged, NeverDeaf
<1>2. WsTypeOK /\ Staged /\ NeverDeaf /\ [WsNext]_wsVars => Staged' /\ NeverDeaf'
  <2> SUFFICES ASSUME WsTypeOK, Staged, NeverDeaf, [WsNext]_wsVars PROVE Staged' /\ NeverDeaf'
    OBVIOUS
  <2>1. CASE UNCHANGED wsVars
    BY <2>1 DEF wsVars, vars, connection, channels, outbox, callers, Staged, NeverDeaf
  <2>2. CASE Broker
    <3>1. Staged'
      BY <2>2, BrokerStaged
    <3>2. UNCHANGED connection
      BY <2>2 DEF Broker
    <3>3. \A c \in Clients : stage'[c] = "serving" => c \notin closed'
      BY <3>1 DEF Staged
    <3> QED BY <3>1, <3>2, <3>3 DEF NeverDeaf, connection
  <2>3. CASE \E c \in Clients : Connection(c)
    BY <2>3, ConnectionStaged, ConnectionNotDeaf
  <2> QED BY <2>1, <2>2, <2>3 DEF WsNext
<1> QED BY <1>1, <1>2, WsTypeCorrect, PTL DEF WsSpec
=============================================================================
