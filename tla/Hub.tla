-------------------------------- MODULE Hub --------------------------------
(***************************************************************************)
(* The fan-out broker of internal/hub/hub.go: one goroutine, Run, owns the *)
(* client map and serves four buffered Go channels with one select.  The   *)
(* goroutine of each WebSocket connection calls NewClient first, then      *)
(* AddScope, RemoveScope and SetResolvePath in any order, and Remove last  *)
(* (internal/ws/handler.go); the ingest goroutines call Broadcast; the     *)
(* write pump of each connection receives from Send and laggedCH.          *)
(*                                                                         *)
(* The fan-out of one event is not atomic: the write pumps run while Run   *)
(* walks the client map, so the failed send, the eviction and the lagged   *)
(* notice are three steps a pump may come between.                         *)
(*                                                                         *)
(* Data.  An event is its place in the order of the Broadcast calls, the   *)
(* kind its routing metadata makes it, and whether it carries the          *)
(* opt-in PayloadResolved.  A Scope is the set of kinds scopeMatches       *)
(* accepts for it.  Subscription ids are uuids minted by the server, so an *)
(* id stands for one AddScope call and ScopeOf gives the scope of it.      *)
(***************************************************************************)
EXTENDS Naturals, Sequences

CONSTANTS
  Clients,       \* the *Client values, one per WebSocket connection
  SubIds,        \* the subscription ids that can be minted
  Kinds,         \* the kinds of event subscriptions tell apart
  ScopeOf,       \* ScopeOf[id]: the kinds the subscription id matches
  SubscribeCap, UnsubscribeCap, RemoveCap, BroadcastCap,   \* 64, 64, 64, 512
  SendCap, LaggedCap,                                      \* 256, 8
  MaxEvents,     \* bound: Broadcast calls
  MaxConfigures  \* bound: SetResolvePath calls of one connection

ASSUME HubAssumption ==
  /\ ScopeOf \in [SubIds -> SUBSET Kinds]
  /\ {SubscribeCap, UnsubscribeCap, RemoveCap, BroadcastCap,
      SendCap, LaggedCap} \subseteq Nat \ {0}
  /\ {MaxEvents, MaxConfigures} \subseteq Nat

VARIABLES
  subscribe,     \* channel: registrations, scopes and configures
  unsubscribe,   \* channel: RemoveScope requests
  remove,        \* channel: clients to deregister
  broadcast,     \* channel: events
  clients,       \* Run's map of registered clients
  subscriptions, \* subscriptions[c]: the ids in the client's map
  resolvePath,   \* resolvePath[c]: the client's ResolvePath flag
  send,          \* send[c]: the client's Send channel
  lagged,        \* lagged[c]: the client's laggedCH channel
  closed,        \* the clients whose channels Run has closed
  evt,           \* <<e>> while Run fans e out, <<>> while it selects
  todo,          \* the clients the range loop has still to visit
  full,          \* the client whose Send was full, before the eviction
  owed,          \* the client to notify, after the eviction
  phase,         \* phase[c]: how far the connection's goroutine has come
  wanted,        \* history: the value of the last SetResolvePath
  configures,    \* history: the number of SetResolvePath calls
  issued,        \* history: issued[c], the ids AddScope was called with
  ended,         \* history: ended[c], the ids RemoveScope was called with
  published,     \* history: the number of Broadcast calls
  read,          \* history: read[c], the last event the pump received
  missed,        \* history: missed[c], events matched but not delivered
  reported,      \* history: reported[c], the sum of the DroppedCounts sent
  unsaid         \* history: unsaid[c], notices laggedCH had no room for

channels == <<subscribe, unsubscribe, remove, broadcast>>
registry == <<clients, subscriptions, resolvePath>>
fanout   == <<evt, todo, full, owed>>
outbox   == <<send, lagged, closed>>
callers  == <<phase, wanted, configures, issued, ended, published>>
tally    == <<read, missed, reported, unsaid>>
vars     == <<channels, registry, fanout, outbox, callers, tally>>

-----------------------------------------------------------------------------
(* Messages *)

Event == [n : Nat, kind : Kinds, resolved : BOOLEAN]

SubscribeMsg ==
       [type : {"register"}, client : Clients]
  \cup [type : {"scope"}, client : Clients, id : SubIds]
  \cup [type : {"configure"}, client : Clients, on : BOOLEAN]

UnsubscribeMsg == [client : Clients, id : SubIds]

Delivery == [n : Nat, resolved : BOOLEAN]

ChannelsTyped ==
  /\ subscribe \in Seq(SubscribeMsg) /\ Len(subscribe) <= SubscribeCap
  /\ unsubscribe \in Seq(UnsubscribeMsg) /\ Len(unsubscribe) <= UnsubscribeCap
  /\ remove \in Seq(Clients) /\ Len(remove) <= RemoveCap
  /\ broadcast \in Seq(Event) /\ Len(broadcast) <= BroadcastCap

RegistryTyped ==
  /\ clients \subseteq Clients
  /\ subscriptions \in [Clients -> SUBSET SubIds]
  /\ resolvePath \in [Clients -> BOOLEAN]

FanoutTyped ==
  /\ evt \in Seq(Event) /\ Len(evt) <= 1
  /\ todo \subseteq Clients /\ full \subseteq Clients /\ owed \subseteq Clients

OutboxTyped ==
  /\ send \in [Clients -> Seq(Delivery)]
  /\ \A c \in Clients : Len(send[c]) <= SendCap
  /\ lagged \in [Clients -> Seq(Nat)]
  /\ \A c \in Clients : Len(lagged[c]) <= LaggedCap
  /\ closed \subseteq Clients

CallersTyped ==
  /\ phase \in [Clients -> {"unborn", "open", "left"}]
  /\ wanted \in [Clients -> BOOLEAN]
  /\ configures \in [Clients -> Nat]
  /\ issued \in [Clients -> SUBSET SubIds]
  /\ ended \in [Clients -> SUBSET SubIds]
  /\ published \in Nat

TallyTyped ==
  /\ read \in [Clients -> Nat]
  /\ missed \in [Clients -> Nat]
  /\ reported \in [Clients -> Nat]
  /\ unsaid \in [Clients -> Nat]

\* Every variable has its type, and no channel holds more than its capacity.
TypeOK ==
  ChannelsTyped /\ RegistryTyped /\ FanoutTyped /\ OutboxTyped /\ CallersTyped /\ TallyTyped

Init ==
  /\ subscribe = <<>> /\ unsubscribe = <<>> /\ remove = <<>> /\ broadcast = <<>>
  /\ clients = {}
  /\ subscriptions = [c \in Clients |-> {}]
  /\ resolvePath = [c \in Clients |-> FALSE]
  /\ evt = <<>> /\ todo = {} /\ full = {} /\ owed = {}
  /\ send = [c \in Clients |-> <<>>]
  /\ lagged = [c \in Clients |-> <<>>]
  /\ closed = {}
  /\ phase = [c \in Clients |-> "unborn"]
  /\ wanted = [c \in Clients |-> FALSE]
  /\ configures = [c \in Clients |-> 0]
  /\ issued = [c \in Clients |-> {}]
  /\ ended = [c \in Clients |-> {}]
  /\ published = 0
  /\ read = [c \in Clients |-> 0]
  /\ missed = [c \in Clients |-> 0]
  /\ reported = [c \in Clients |-> 0]
  /\ unsaid = [c \in Clients |-> 0]

-----------------------------------------------------------------------------
(* Calls of the connection goroutines.  A send on a full channel blocks,   *)
(* so the call is not enabled until Run has made room.                     *)

\* Mutant: requests of a connection can overtake one another.
RequestSubscribeUnordered(msg) ==
  /\ Len(subscribe) < SubscribeCap
  /\ subscribe' = <<msg>> \o subscribe
  /\ UNCHANGED <<unsubscribe, remove, broadcast, registry, fanout, outbox, tally>>

RequestSubscribe(msg) ==
  /\ Len(subscribe) < SubscribeCap
  /\ subscribe' = Append(subscribe, msg)
  /\ UNCHANGED <<unsubscribe, remove, broadcast, registry, fanout, outbox, tally>>

NewClient(c) ==
  /\ phase[c] = "unborn"
  /\ RequestSubscribe([type |-> "register", client |-> c])
  /\ phase' = [phase EXCEPT ![c] = "open"]
  /\ UNCHANGED <<wanted, configures, issued, ended, published>>

AddScope(c, id) ==
  /\ phase[c] = "open"
  /\ \A d \in Clients : id \notin issued[d]
  /\ RequestSubscribe([type |-> "scope", client |-> c, id |-> id])
  /\ issued' = [issued EXCEPT ![c] = @ \cup {id}]
  /\ UNCHANGED <<phase, wanted, configures, ended, published>>

SetResolvePath(c, on) ==
  /\ phase[c] = "open"
  /\ configures[c] < MaxConfigures
  /\ RequestSubscribe([type |-> "configure", client |-> c, on |-> on])
  /\ wanted' = [wanted EXCEPT ![c] = on]
  /\ configures' = [configures EXCEPT ![c] = @ + 1]
  /\ UNCHANGED <<phase, issued, ended, published>>

\* The id was learnt from the "subscribed" reply, which follows AddScope.
RemoveScope(c, id) ==
  /\ phase[c] = "open"
  /\ id \in issued[c] \ ended[c]
  /\ Len(unsubscribe) < UnsubscribeCap
  /\ unsubscribe' = Append(unsubscribe, [client |-> c, id |-> id])
  /\ ended' = [ended EXCEPT ![c] = @ \cup {id}]
  /\ UNCHANGED <<subscribe, remove, broadcast, registry, fanout, outbox, tally,
                 phase, wanted, configures, issued, published>>

Remove(c) ==
  /\ phase[c] = "open"
  /\ Len(remove) < RemoveCap
  /\ remove' = Append(remove, c)
  /\ phase' = [phase EXCEPT ![c] = "left"]
  /\ UNCHANGED <<subscribe, unsubscribe, broadcast, registry, fanout, outbox,
                 tally, wanted, configures, issued, ended, published>>

\* Broadcast never blocks: an event that finds the channel full is dropped.
Broadcast(kind, resolved) ==
  /\ published < MaxEvents
  /\ published' = published + 1
  /\ broadcast' = IF Len(broadcast) < BroadcastCap
                  THEN Append(broadcast, [n |-> published + 1, kind |-> kind,
                                          resolved |-> resolved])
                  ELSE broadcast
  /\ UNCHANGED <<subscribe, unsubscribe, remove, registry, fanout, outbox,
                 tally, phase, wanted, configures, issued, ended>>

-----------------------------------------------------------------------------
(* The write pump of a connection.  What is buffered in a closed channel   *)
(* can still be received.                                                  *)

\* Mutant: an event whose write failed goes back to the channel.
ReceiveEventRequeue(c) ==
  /\ send[c] # <<>>
  /\ read' = [read EXCEPT ![c] = Head(send[c]).n]
  /\ \E failed \in BOOLEAN :
       send' = [send EXCEPT ![c] = IF failed THEN Append(Tail(@), Head(@)) ELSE Tail(@)]
  /\ UNCHANGED <<channels, registry, fanout, lagged, closed, callers,
                 missed, reported, unsaid>>

ReceiveEvent(c) ==
  /\ send[c] # <<>>
  /\ read' = [read EXCEPT ![c] = Head(send[c]).n]
  /\ send' = [send EXCEPT ![c] = Tail(@)]
  /\ UNCHANGED <<channels, registry, fanout, lagged, closed, callers,
                 missed, reported, unsaid>>

ReceiveLagged(c) ==
  /\ lagged[c] # <<>>
  /\ lagged' = [lagged EXCEPT ![c] = Tail(@)]
  /\ UNCHANGED <<channels, registry, fanout, send, closed, callers, tally>>

-----------------------------------------------------------------------------
(* Run: one iteration of the select is one of the Handle actions.          *)

\* NewClient's message.
Register(msg) ==
  /\ msg.type = "register"
  /\ clients' = clients \cup {msg.client}
  /\ UNCHANGED <<subscriptions, resolvePath>>

\* SetResolvePath's message: ignored unless the client is registered.
Configure(msg) ==
  /\ msg.type = "configure"
  /\ resolvePath' = IF msg.client \in clients
                    THEN [resolvePath EXCEPT ![msg.client] = msg.on]
                    ELSE resolvePath
  /\ UNCHANGED <<clients, subscriptions>>

\* Mutant: a scope registers its client if need be.
SubscribeRegistering(msg) ==
  /\ msg.type = "scope"
  /\ clients' = clients \cup {msg.client}
  /\ subscriptions' = [subscriptions EXCEPT ![msg.client] = @ \cup {msg.id}]
  /\ UNCHANGED resolvePath

\* AddScope's message: ignored unless the client is registered.
Subscribe(msg) ==
  /\ msg.type = "scope"
  /\ subscriptions' = IF msg.client \in clients
                      THEN [subscriptions EXCEPT ![msg.client] = @ \cup {msg.id}]
                      ELSE subscriptions
  /\ UNCHANGED <<clients, resolvePath>>

HandleSubscribe ==
  /\ evt = <<>>
  /\ subscribe # <<>>
  /\ subscribe' = Tail(subscribe)
  /\ LET msg == Head(subscribe) IN Register(msg) \/ Configure(msg) \/ Subscribe(msg)
  /\ UNCHANGED <<unsubscribe, remove, broadcast, fanout, outbox, callers, tally>>

HandleUnsubscribe ==
  /\ evt = <<>>
  /\ unsubscribe # <<>>
  /\ unsubscribe' = Tail(unsubscribe)
  /\ LET msg == Head(unsubscribe) IN
       subscriptions' = IF msg.client \in clients
                        THEN [subscriptions EXCEPT ![msg.client] = @ \ {msg.id}]
                        ELSE subscriptions
  /\ UNCHANGED <<subscribe, remove, broadcast, clients, resolvePath, fanout,
                 outbox, callers, tally>>

\* Mutant: the client is deleted before the check that guards the close.
HandleRemoveSwapped ==
  /\ evt = <<>>
  /\ remove # <<>>
  /\ remove' = Tail(remove)
  /\ clients' = clients \ {Head(remove)}
  /\ closed' = closed \cup (clients' \cap {Head(remove)})
  /\ UNCHANGED <<subscribe, unsubscribe, broadcast, subscriptions, resolvePath,
                 fanout, send, lagged, callers, tally>>

HandleRemove ==
  /\ evt = <<>>
  /\ remove # <<>>
  /\ remove' = Tail(remove)
  /\ clients' = clients \ {Head(remove)}
  /\ closed' = closed \cup (clients \cap {Head(remove)})
  /\ UNCHANGED <<subscribe, unsubscribe, broadcast, subscriptions, resolvePath,
                 fanout, send, lagged, callers, tally>>

HandleBroadcast ==
  /\ evt = <<>>
  /\ broadcast # <<>>
  /\ broadcast' = Tail(broadcast)
  /\ evt' = <<Head(broadcast)>>
  /\ todo' = clients
  /\ UNCHANGED <<subscribe, unsubscribe, remove, registry, full, owed, outbox,
                 callers, tally>>

Matches(c, e) == \E id \in subscriptions[c] : e.kind \in ScopeOf[id]

\* Mutant: the send on a full channel blocks.
VisitBlocking(c) ==
  /\ evt # <<>> /\ full = {} /\ owed = {}
  /\ c \in todo
  /\ todo' = todo \ {c}
  /\ \/ /\ ~Matches(c, evt[1])
        /\ UNCHANGED send
     \/ /\ Matches(c, evt[1])
        /\ Len(send[c]) < SendCap
        /\ send' = [send EXCEPT ![c] =
                      Append(@, [n |-> evt[1].n,
                                 resolved |-> resolvePath[c] /\ evt[1].resolved])]
  /\ UNCHANGED <<channels, registry, evt, full, owed, lagged, closed, callers, tally>>

\* Mutant: a full Send drops the event without a notice.
VisitSilent(c) ==
  /\ evt # <<>> /\ full = {} /\ owed = {}
  /\ c \in todo
  /\ todo' = todo \ {c}
  /\ LET hit == Matches(c, evt[1]) IN
       IF hit /\ Len(send[c]) < SendCap
       THEN /\ send' = [send EXCEPT ![c] =
                          Append(@, [n |-> evt[1].n,
                                     resolved |-> resolvePath[c] /\ evt[1].resolved])]
            /\ UNCHANGED missed
       ELSE /\ missed' = [missed EXCEPT ![c] = @ + IF hit THEN 1 ELSE 0]
            /\ UNCHANGED send
  /\ UNCHANGED <<channels, registry, evt, full, owed, lagged, closed, callers,
                 read, reported, unsaid>>

\* One iteration of the range over clients, up to the send or its failure.
Visit(c) ==
  /\ evt # <<>> /\ full = {} /\ owed = {}
  /\ c \in todo
  /\ todo' = todo \ {c}
  /\ \/ /\ ~Matches(c, evt[1])
        /\ UNCHANGED <<send, full, missed>>
     \/ /\ Matches(c, evt[1])
        /\ Len(send[c]) < SendCap
        /\ send' = [send EXCEPT ![c] =
                      Append(@, [n |-> evt[1].n,
                                 resolved |-> resolvePath[c] /\ evt[1].resolved])]
        /\ UNCHANGED <<full, missed>>
     \/ /\ Matches(c, evt[1])
        /\ Len(send[c]) = SendCap
        /\ full' = {c}
        /\ missed' = [missed EXCEPT ![c] = @ + 1]
        /\ UNCHANGED send
  /\ UNCHANGED <<channels, registry, evt, owed, lagged, closed, callers, read,
                 reported, unsaid>>

\* Mutant: the whole buffer is drained.
EvictAll(c) ==
  /\ c \in full
  /\ full' = {}
  /\ owed' = {c}
  /\ send' = [send EXCEPT ![c] = <<>>]
  /\ missed' = [missed EXCEPT ![c] = @ + Len(send[c])]
  /\ UNCHANGED <<channels, registry, evt, todo, lagged, closed, callers, read,
                 reported, unsaid>>

\* The non-blocking receive that makes room; the pump may have emptied Send.
EvictOldest(c) ==
  /\ c \in full
  /\ full' = {}
  /\ owed' = {c}
  /\ IF send[c] # <<>>
     THEN /\ send' = [send EXCEPT ![c] = Tail(@)]
          /\ missed' = [missed EXCEPT ![c] = @ + 1]
     ELSE UNCHANGED <<send, missed>>
  /\ UNCHANGED <<channels, registry, evt, todo, lagged, closed, callers, read,
                 reported, unsaid>>

DroppedCount == 1

\* Mutant: off by one in the room left in laggedCH.
NotifyLaggedShort(c) ==
  /\ c \in owed
  /\ owed' = {}
  /\ IF Len(lagged[c]) + 1 < LaggedCap
     THEN /\ lagged' = [lagged EXCEPT ![c] = Append(@, DroppedCount)]
          /\ reported' = [reported EXCEPT ![c] = @ + DroppedCount]
          /\ UNCHANGED unsaid
     ELSE /\ unsaid' = [unsaid EXCEPT ![c] = @ + 1]
          /\ UNCHANGED <<lagged, reported>>
  /\ UNCHANGED <<channels, registry, evt, todo, full, send, closed, callers,
                 read, missed>>

\* The non-blocking send on laggedCH.
NotifyLagged(c) ==
  /\ c \in owed
  /\ owed' = {}
  /\ IF Len(lagged[c]) < LaggedCap
     THEN /\ lagged' = [lagged EXCEPT ![c] = Append(@, DroppedCount)]
          /\ reported' = [reported EXCEPT ![c] = @ + DroppedCount]
          /\ UNCHANGED unsaid
     ELSE /\ unsaid' = [unsaid EXCEPT ![c] = @ + 1]
          /\ UNCHANGED <<lagged, reported>>
  /\ UNCHANGED <<channels, registry, evt, todo, full, send, closed, callers,
                 read, missed>>

\* The range loop is over and Run is back at its select.
EndFanout ==
  /\ evt # <<>> /\ todo = {} /\ full = {} /\ owed = {}
  /\ evt' = <<>>
  /\ UNCHANGED <<channels, registry, todo, full, owed, outbox, callers, tally>>

Fanout == EndFanout \/ \E c \in Clients : Visit(c) \/ EvictOldest(c) \/ NotifyLagged(c)

Run == HandleSubscribe \/ HandleUnsubscribe \/ HandleRemove \/ HandleBroadcast \/ Fanout

Handler(c) ==
  \/ NewClient(c) \/ Remove(c)
  \/ \E id \in SubIds : AddScope(c, id) \/ RemoveScope(c, id)
  \/ \E on \in BOOLEAN : SetResolvePath(c, on)

WritePump(c) == ReceiveEvent(c) \/ ReceiveLagged(c)

Next ==
  \/ Run
  \/ \E c \in Clients : Handler(c) \/ WritePump(c)
  \/ \E kind \in Kinds, resolved \in BOOLEAN : Broadcast(kind, resolved)

(***************************************************************************)
(* Run is a goroutine that never stops and never blocks outside its        *)
(* select, so the fan-out steps are weakly fair.  The select picks among   *)
(* the ready channels uniformly at random: a channel that is ready again   *)
(* and again is eventually served, which is strong fairness of each case.  *)
(* Nothing is assumed of the connections, the pumps or the publishers.     *)
(***************************************************************************)
HubFairness ==
  /\ WF_vars(Fanout)
  /\ SF_vars(HandleSubscribe) /\ SF_vars(HandleUnsubscribe)
  /\ SF_vars(HandleRemove) /\ SF_vars(HandleBroadcast)

Spec == Init /\ [][Next]_vars
FairSpec == Spec /\ HubFairness

-----------------------------------------------------------------------------
(* Safety *)

\* A send on a closed channel would panic and take the whole server down:
\* Run never holds, visits or owes a notice to a client it has closed.  This
\* rests on NewClient's registration being unique and queued before any scope.
ClosedNeverServed == closed \cap (clients \cup todo \cup full \cup owed) = {}

\* What a connection has received, what is buffered for it and what Run still
\* has to offer are in the order of the Broadcast calls, with no repetition:
\* an overflow may lose events, never reorder or duplicate them.
OrderedOnce ==
  \A c \in Clients :
    /\ \A i \in 1..Len(send[c]) :
         /\ read[c] < send[c][i].n
         /\ \A j \in 1..(i - 1) : send[c][j].n < send[c][i].n
    /\ evt # <<>> /\ c \in todo =>
         /\ read[c] < evt[1].n
         /\ \A i \in 1..Len(send[c]) : send[c][i].n < evt[1].n

\* Events lost against lagged notices (the three select statements of the
\* overflow): an overflow loses the new event and at most one old one and
\* accounts for exactly one notice, whatever the pump does in between.
LossAccounting ==
  \A c \in Clients :
    LET notices == reported[c] + unsaid[c] IN
      /\ missed[c] >= notices + IF c \in full \cup owed THEN 1 ELSE 0
      /\ missed[c] <= 2 * notices + IF c \in full THEN 1 ELSE IF c \in owed THEN 2 ELSE 0

\* A client that missed an event has been sent a lagged notice, or is about to
\* be, even when laggedCH was full and some notices were suppressed.
NoSilentLoss ==
  \A c \in Clients : missed[c] > 0 => reported[c] > 0 \/ c \in full \cup owed

\* Once the subscribe channel is drained, a registered client has the
\* subscriptions it asked for and has not given up, and the resolvePath it
\* configured last, though each call only queued a message: this is what the
\* single channel described at subscribeMsg buys.
SubscribeSettles ==
  subscribe = <<>> =>
    \A c \in clients :
      /\ issued[c] \ ended[c] \subseteq subscriptions[c]
      /\ subscriptions[c] \subseteq issued[c]
      /\ resolvePath[c] = wanted[c]

Quiescent == subscribe = <<>> /\ unsubscribe = <<>> /\ remove = <<>> /\ evt = <<>>

\* RemoveScope "removes a single subscription by ID": when every request has
\* been handled, a subscription that was given up is gone.
RemoveScopeRemoves ==
  Quiescent => \A c \in Clients : subscriptions[c] \cap ended[c] = {}

-----------------------------------------------------------------------------
(* Inductive strengthenings of the safety invariants *)

Registering(queue, i, c) == queue[i].type = "register" /\ queue[i].client = c

\* Why ClosedNeverServed holds: a client is registered at most once, so no
\* registration is queued for a client that is or was in the map, and the
\* fan-out only concerns clients in the map, which change between events.
RegisteredOnce ==
  /\ closed \cap clients = {}
  /\ todo \cup full \cup owed \subseteq clients
  /\ evt = <<>> => todo = {} /\ full = {} /\ owed = {}
  /\ \A c \in Clients, i \in 1..Len(subscribe) :
       Registering(subscribe, i, c) =>
         /\ c \notin clients \cup closed
         /\ phase[c] # "unborn"
         /\ \A j \in 1..Len(subscribe) : Registering(subscribe, j, c) => j = i
  /\ \A c \in Clients : phase[c] = "unborn" => c \notin clients \cup closed

Behind(c, n) == read[c] < n /\ \A k \in 1..Len(send[c]) : send[c][k].n < n

\* Why OrderedOnce holds: events wait in the order they were published, and
\* each client is behind everything it has still to be offered.
InOrder ==
  /\ \A i \in 1..Len(broadcast) :
       /\ broadcast[i].n <= published
       /\ \A j \in 1..(i - 1) : broadcast[j].n < broadcast[i].n
  /\ evt # <<>> => /\ evt[1].n <= published
                   /\ \A i \in 1..Len(broadcast) : evt[1].n < broadcast[i].n
  /\ \A c \in Clients :
       /\ Behind(c, published + 1)
       /\ \A i \in 1..Len(broadcast) : Behind(c, broadcast[i].n)
  /\ OrderedOnce

Configuring(queue, i, c) == queue[i].type = "configure" /\ queue[i].client = c

\* Each id that is wanted is in the client's map or on its way there.
Subscribed(c) ==
  \A id \in issued[c] \ ended[c] :
    \/ id \in subscriptions[c]
    \/ \E i \in 1..Len(subscribe) :
         subscribe[i] = [type |-> "scope", client |-> c, id |-> id]

\* The last configure that is queued, or else the flag, is what was asked for.
Configured(c) ==
  \/ /\ resolvePath[c] = wanted[c]
     /\ \A i \in 1..Len(subscribe) : ~Configuring(subscribe, i, c)
  \/ \E i \in 1..Len(subscribe) :
       /\ subscribe[i] = [type |-> "configure", client |-> c, on |-> wanted[c]]
       /\ \A j \in 1..Len(subscribe) : j > i => ~Configuring(subscribe, j, c)

\* The registration is ahead of every request of its client, so Run ignores
\* no request of a client it has not closed.
Introduced ==
  /\ \A c \in Clients :
       IF phase[c] = "unborn"
       THEN \A i \in 1..Len(subscribe) : subscribe[i].client # c
       ELSE \/ c \in clients \cup closed
            \/ \E i \in 1..Len(subscribe) : Registering(subscribe, i, c)
  /\ \A i \in 1..Len(subscribe) :
       \/ subscribe[i].client \in clients \cup closed
       \/ \E j \in 1..i : Registering(subscribe, j, subscribe[i].client)

\* What is queued or in the map was asked for.
Asked ==
  /\ \A c \in Clients : subscriptions[c] \subseteq issued[c]
  /\ \A i \in 1..Len(subscribe) :
       subscribe[i].type = "scope" => subscribe[i].id \in issued[subscribe[i].client]
  /\ \A i \in 1..Len(unsubscribe) : unsubscribe[i].id \in ended[unsubscribe[i].client]

\* Why SubscribeSettles holds: what is not in the map is on its way, in order.
Settling ==
  /\ Introduced
  /\ Asked
  /\ \A c \in Clients : c \notin closed => Subscribed(c) /\ Configured(c)

\* Why LossAccounting and NoSilentLoss hold: one client at a time is in the
\* overflow, and what laggedCH holds has been reported.
Accounted ==
  /\ \A c \in full \cup owed, d \in full \cup owed : c = d
  /\ full \cap owed = {}
  /\ \A c \in Clients : Len(lagged[c]) <= reported[c]
  /\ LossAccounting
  /\ NoSilentLoss

-----------------------------------------------------------------------------
(* Action properties and liveness *)

\* Run comes back to its select whatever the write pumps do: a connection that
\* never reads cannot stall the broadcast loop (the package comment).
FanoutCompletes == evt # <<>> ~> evt = <<>>

\* A disconnect of a client Run has registered ends with its channels closed,
\* however many events and requests compete with it in the select.
DisconnectCloses ==
  \A c \in Clients : c \in clients /\ phase[c] = "left" /\ c \in {remove[i] : i \in 1..Len(remove)}
                      ~> c \in closed
=============================================================================
