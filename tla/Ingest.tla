------------------------------- MODULE Ingest -------------------------------
(***************************************************************************)
(* The pipeline of a /packets message (internal/ingest/packet.go and       *)
(* side_effects.go) run by two workers at once, and the decryption         *)
(* backfill at boot (backfill.go, cmd/beacon/main.go).  Each worker        *)
(* handles the messages of one broker, one at a time; an observer          *)
(* publishes to both brokers, so the same observation reaches both         *)
(* workers, in any order, and a broker may repeat it.  A handler is a      *)
(* sequence of SQL statements, each a step of its own and none in a        *)
(* transaction with another: the other worker runs between them, the       *)
(* process can stop between them, and the 30 s context of the message can  *)
(* expire, after which every statement of that handler fails.              *)
(*                                                                         *)
(* Data.  A packet is its hash; what a packet resolves to on its path is   *)
(* left open.  A failed statement may have taken effect (the reply was     *)
(* lost) unless the context had expired.  The coalescer in front of the    *)
(* store is module Presence; here UpsertObserver, UpsertObserverBroker and *)
(* UpsertIATA are one step without tables, and UpsertPacket answers isNew  *)
(* as it does there: only for the call that creates the row.               *)
(***************************************************************************)
EXTENDS Naturals

CONSTANTS
  Workers, Observers, Packets,
  Payload,       \* Payload[h]: what packet h carries
  Multihop,      \* the packets whose path has more than one hop
  Scoped,        \* the packets whose transport code matches a known scope
  MaxMessages,   \* bound: messages received
  MaxFailures,   \* bound: statements that fail, contexts that expire
  MaxRestarts    \* bound: restarts of the process

Boot == "boot"   \* main, before it starts the workers

ASSUME IngestAssumption ==
  /\ Boot \notin Workers
  /\ Payload \in [Packets -> {"text", "advert", "trace", "other"}]
  /\ Multihop \subseteq Packets /\ Scoped \subseteq Packets
  /\ {MaxMessages, MaxFailures, MaxRestarts} \subseteq Nat

VARIABLES
  packets, decrypted,      \* table packets: its rows, those marked decrypted
  observations,            \* table packet_observations: unique <<packet, observer>>
  channels, messages,      \* tables channels and channel_messages, by packet
  nodes, nodeIatas, shortIds,   \* tables nodes, node_iatas, node_short_ids, by advert
  edges, routes,           \* node_neighbors and known_routes: observation_count
  filters,                 \* tables channel_iatas and trace_iatas
  capable,                 \* packets whose hops have been flagged capable
  observerScopes,          \* table observer_scopes, by observer
  nodeScopes,              \* nodes: default_scope_id set, by advert
  announced,               \* packetObservation events sent for <<packet, observer>>
  firsts,                  \* those of them with isFirstObservation, by packet
  told, updated,           \* channelMessage and nodeUpdate events sent, by packet
  pc, job,                 \* pc[a], job[a]: the statement a is at, and for what
  expired,                 \* workers whose context has expired
  life,                    \* "boot" while main prepares, then "up"
  keyed,                   \* text packets that a configured key decrypts
  todo,                    \* packets the backfill has still to try
  skipped,                 \* history: those this backfill failed on
  surfaced,                \* history: packets whose message a backfill stored
  received, failures, restarts   \* history: against the bounds

Texts  == {h \in Packets : Payload[h] = "text"}
Actors == Workers \cup {Boot}
Pairs  == Packets \X Observers

tables  == <<packets, decrypted, observations, channels, messages, nodes, nodeIatas,
             shortIds, edges, routes, filters, capable, observerScopes, nodeScopes>>
events  == <<announced, firsts, told, updated>>
control == <<pc, job, expired>>
scopes  == <<observerScopes, nodeScopes>>
boot    == <<life, keyed, todo, skipped, surfaced>>
tally   == <<received, failures, restarts>>
vars    == <<tables, events, control, boot, tally>>

NoJob == [none |-> TRUE]
WorkerJob   == [packet : Packets, observer : Observers, isNew : BOOLEAN,
                inserted : BOOLEAN]
BackfillJob == [packet : Packets]

Init ==
  /\ packets = {} /\ decrypted = {} /\ observations = {}
  /\ channels = {} /\ messages = {}
  /\ nodes = {} /\ nodeIatas = {} /\ shortIds = {}
  /\ edges = [h \in Packets |-> 0] /\ routes = [h \in Packets |-> 0]
  /\ filters = {} /\ capable = {} /\ observerScopes = {} /\ nodeScopes = {}
  /\ announced = [p \in Pairs |-> 0] /\ firsts = [h \in Packets |-> 0]
  /\ told = [h \in Packets |-> 0] /\ updated = [h \in Packets |-> 0]
  /\ pc = [a \in Actors |-> IF a = Boot THEN "list" ELSE "idle"]
  /\ job = [a \in Actors |-> NoJob]
  /\ expired = {}
  /\ life = "boot"
  /\ keyed \in SUBSET Texts
  /\ todo = {} /\ skipped = {} /\ surfaced = {}
  /\ received = 0 /\ failures = 0 /\ restarts = 0

-----------------------------------------------------------------------------
(* Statements *)

Move(a, j, next) ==
  /\ pc' = [pc EXCEPT ![a] = next]
  /\ job' = [job EXCEPT ![a] = IF next \in {"idle", "scan"} THEN NoJob ELSE j]
  /\ expired' = IF next = "idle" THEN expired \ {a} ELSE expired

Goto(a, next) == Move(a, job[a], next)

Fails(a) ==
  \/ a \in expired /\ UNCHANGED failures
  \/ a \notin expired /\ failures < MaxFailures /\ failures' = failures + 1

\* a runs a statement that writes; nothing says that it did not.
Attempt(a, write, nothing, done, failed) ==
  \/ /\ a \notin expired
     /\ write
     /\ Goto(a, done)
     /\ UNCHANGED failures
  \/ /\ Fails(a)
     /\ nothing \/ (a \notin expired /\ write)
     /\ Goto(a, failed)

\* The same when an error is only logged.
Logged(a, write, nothing, next) == Attempt(a, write, nothing, next, next)

\* The message context runs out (30 s): handleMessage.
Expire(w) ==
  /\ pc[w] # "idle" /\ w \notin expired
  /\ failures < MaxFailures
  /\ failures' = failures + 1
  /\ expired' = expired \cup {w}
  /\ UNCHANGED <<tables, events, pc, job, boot, received, restarts>>

-----------------------------------------------------------------------------
(* handlePacket *)

Receive(w) ==
  /\ life = "up" /\ pc[w] = "idle"
  /\ received < MaxMessages
  /\ received' = received + 1
  /\ \E h \in Packets, o \in Observers :
       job' = [job EXCEPT ![w] = [packet |-> h, observer |-> o,
                                  isNew |-> FALSE, inserted |-> FALSE]]
  /\ pc' = [pc EXCEPT ![w] = "register"]
  /\ UNCHANGED <<tables, events, expired, boot, failures, restarts>>

\* UpsertObserver, UpsertObserverBroker, UpsertIATA: any error ends it.
Register(w) ==
  /\ pc[w] = "register"
  /\ \/ /\ w \notin expired
        /\ Goto(w, IF Payload[job[w].packet] = "trace" THEN "edges" ELSE "packet")
        /\ UNCHANGED failures
     \/ Fails(w) /\ Goto(w, "idle")
  /\ UNCHANGED <<tables, events, boot, received, restarts>>

\* The edges of a TRACE or DISCOVER_RESP, before anything is deduplicated.
Edges(w) ==
  /\ pc[w] = "edges"
  /\ Logged(w, edges' \in {edges, [edges EXCEPT ![job[w].packet] = @ + 1]},
            UNCHANGED edges, "packet")
  /\ UNCHANGED <<packets, decrypted, observations, channels, messages, nodes, nodeIatas,
                 shortIds, routes, filters, capable, scopes, events, boot, received, restarts>>

\* Mutant: every bump of the row is taken for its creation.
UpsertPacketNew(w) ==
  /\ pc[w] = "packet"
  /\ LET h == job[w].packet IN
       \/ /\ w \notin expired
          /\ packets' = packets \cup {h}
          /\ Move(w, [job[w] EXCEPT !.isNew = TRUE], "observation")
          /\ UNCHANGED failures
       \/ /\ Fails(w)
          /\ packets' = packets \/ (w \notin expired /\ packets' = packets \cup {h})
          /\ Goto(w, "idle")
  /\ UNCHANGED <<decrypted, observations, channels, messages, nodes, nodeIatas, shortIds,
                 edges, routes, filters, capable, scopes, events, boot, received, restarts>>

UpsertPacket(w) ==
  /\ pc[w] = "packet"
  /\ LET h == job[w].packet IN
       \/ /\ w \notin expired
          /\ packets' = packets \cup {h}
          /\ Move(w, [job[w] EXCEPT !.isNew = h \notin packets], "observation")
          /\ UNCHANGED failures
       \/ /\ Fails(w)
          /\ packets' = packets \/ (w \notin expired /\ packets' = packets \cup {h})
          /\ Goto(w, "idle")
  /\ UNCHANGED <<decrypted, observations, channels, messages, nodes, nodeIatas, shortIds,
                 edges, routes, filters, capable, scopes, events, boot, received, restarts>>

\* Mutant: a conflict updates and returns the row (DO UPDATE).
InsertObservationUpdating(w) ==
  /\ pc[w] = "observation"
  /\ LET p == <<job[w].packet, job[w].observer>> IN
       \/ /\ w \notin expired
          /\ observations' = observations \cup {p}
          /\ Move(w, [job[w] EXCEPT !.inserted = TRUE],
                  IF job[w].packet \in Scoped THEN "scope" ELSE "filters")
          /\ UNCHANGED failures
       \/ /\ Fails(w)
          /\ \/ UNCHANGED observations
             \/ w \notin expired /\ observations' = observations \cup {p}
          /\ Goto(w, "idle")
  /\ UNCHANGED <<packets, decrypted, channels, messages, nodes, nodeIatas, shortIds,
                 edges, routes, filters, capable, scopes, events, boot, received, restarts>>

\* ON CONFLICT (packet_hash, observer_id) DO NOTHING.
InsertObservation(w) ==
  /\ pc[w] = "observation"
  /\ LET p == <<job[w].packet, job[w].observer>> IN
       \/ /\ w \notin expired
          /\ observations' = observations \cup {p}
          /\ Move(w, [job[w] EXCEPT !.inserted = p \notin observations],
                  IF p \notin observations /\ job[w].packet \in Scoped THEN "scope"
                                                               ELSE "filters")
          /\ UNCHANGED failures
       \/ /\ Fails(w)
          /\ \/ UNCHANGED observations
             \/ w \notin expired /\ observations' = observations \cup {p}
          /\ Goto(w, "idle")
  /\ UNCHANGED <<packets, decrypted, channels, messages, nodes, nodeIatas, shortIds,
                 edges, routes, filters, capable, scopes, events, boot, received, restarts>>

\* UpsertObserverScope, for a new observation only.
UpsertObserverScope(w) ==
  /\ pc[w] = "scope"
  /\ Logged(w, observerScopes' = observerScopes \cup {job[w].observer},
            UNCHANGED observerScopes, "filters")
  /\ UNCHANGED <<packets, decrypted, observations, channels, messages, nodes, nodeIatas,
                 shortIds, edges, routes, filters, capable, nodeScopes, events, boot,
                 received, restarts>>

\* Mutant: duplicates are announced too.
AfterNoDedup(w) ==
  IF job[w].inserted /\ Payload[job[w].packet] = "advert" THEN "node" ELSE "announce"

\* Where the handler goes: duplicates have nothing more to do.
AfterDedup(w) ==
  LET h == job[w].packet IN
    IF ~job[w].inserted THEN "idle"
    ELSE IF Payload[h] = "advert" THEN "node"
    ELSE IF h \in keyed THEN "channel"
    ELSE IF h \in Texts THEN "hashOnly"
    ELSE "announce"

\* UpsertChannelIATA and UpsertTraceIATA, on duplicates too.
UpsertFilters(w) ==
  /\ pc[w] = "filters"
  /\ LET h == job[w].packet
         next == IF h \in Multihop THEN "route" ELSE AfterDedup(w) IN
       IF Payload[h] \in {"text", "trace"}
       THEN Logged(w, filters' = filters \cup {h}, UNCHANGED filters, next)
       ELSE Goto(w, next) /\ UNCHANGED <<filters, failures>>
  /\ UNCHANGED <<packets, decrypted, observations, channels, messages, nodes, nodeIatas,
                 shortIds, edges, routes, capable, scopes, events, boot, received, restarts>>

\* ResolvePathHashes and, if every hop has one candidate, UpsertKnownRoute.
UpsertRoute(w) ==
  /\ pc[w] = "route"
  /\ Logged(w, routes' \in {routes, [routes EXCEPT ![job[w].packet] = @ + 1]},
            UNCHANGED routes, "capability")
  /\ UNCHANGED <<packets, decrypted, observations, channels, messages, nodes, nodeIatas,
                 shortIds, edges, filters, capable, scopes, events, boot, received, restarts>>

\* runCapabilityDetection on the hops that resolved.
DetectCapability(w) ==
  /\ pc[w] = "capability"
  /\ Logged(w, capable' \in {capable, capable \cup {job[w].packet}},
            UNCHANGED capable, AfterDedup(w))
  /\ UNCHANGED <<packets, decrypted, observations, channels, messages, nodes, nodeIatas,
                 shortIds, edges, routes, filters, scopes, events, boot, received, restarts>>

-----------------------------------------------------------------------------
(* handlePayloadTypeSideEffects *)

\* UpsertNode: an error ends the side effects, not the handler.
UpsertNode(w) ==
  /\ pc[w] = "node"
  /\ Attempt(w, nodes' = nodes \cup {job[w].packet}, UNCHANGED nodes, "advertiser",
             "announce")
  /\ UNCHANGED <<packets, decrypted, observations, channels, messages, nodeIatas,
                 shortIds, edges, routes, filters, capable, scopes, events, boot, received,
                 restarts>>

\* The advertiser's edge, node_iatas row, default scope and short id: four
\* statements, of which one may fail, or all when the context has expired.
UpsertAdvertiser(w) ==
  /\ pc[w] = "advertiser"
  /\ LET h == job[w].packet IN
       \/ /\ w \notin expired
          /\ edges' \in {edges, [edges EXCEPT ![h] = @ + 1]}
          /\ nodeIatas' \in {nodeIatas, nodeIatas \cup {h}}
          /\ nodeScopes' \in {nodeScopes, nodeScopes \cup ({h} \cap Scoped)}
          /\ shortIds' \in {shortIds, shortIds \cup {h}}
          /\ \/ /\ {h} \subseteq nodeIatas' \cap shortIds'
                /\ {h} \cap Scoped \subseteq nodeScopes'
                /\ UNCHANGED failures
             \/ Fails(w)
       \/ w \in expired /\ UNCHANGED <<edges, nodeIatas, nodeScopes, shortIds, failures>>
  /\ Goto(w, "update")
  /\ UNCHANGED <<packets, decrypted, observations, channels, messages, nodes, routes,
                 filters, capable, observerScopes, events, boot, received, restarts>>

BroadcastNodeUpdate(w) ==
  /\ pc[w] = "update"
  /\ updated' = [updated EXCEPT ![job[w].packet] = @ + 1]
  /\ Goto(w, "announce")
  /\ UNCHANGED <<tables, announced, firsts, told, boot, tally>>

\* No key decrypts it: UpsertChannelHashOnly, whose error is dropped.
UpsertChannelHashOnly(w) ==
  /\ pc[w] = "hashOnly"
  /\ Logged(w, channels' = channels \cup {<<"hash", job[w].packet>>},
            UNCHANGED channels, "announce")
  /\ UNCHANGED <<packets, decrypted, observations, messages, nodes, nodeIatas, shortIds,
                 edges, routes, filters, capable, scopes, events, boot, received, restarts>>

-----------------------------------------------------------------------------
(* DecryptGroupText, shared by the workers and the backfill *)

\* Mutant: a message that is not new is told of.
DoneTelling(a) == IF a = Boot THEN "scan" ELSE "tell"

\* Where a goes when it has no message to tell of.
Done(a) == IF a = Boot THEN "scan" ELSE "announce"

\* History: the backfill has failed on its packet.
Skip(a) ==
  skipped' = IF a = Boot /\ failures' # failures THEN skipped \cup {job[a].packet} ELSE skipped

UpsertChannel(a) ==
  /\ pc[a] = "channel"
  /\ Attempt(a, channels' = channels \cup {<<"key", job[a].packet>>}, UNCHANGED channels,
             "message", Done(a))
  /\ Skip(a)
  /\ UNCHANGED <<packets, decrypted, observations, messages, nodes, nodeIatas, shortIds,
                 edges, routes, filters, capable, scopes, events, life, keyed, todo, surfaced,
                 received, restarts>>

StoreMessage(a, h) ==
  /\ messages' = messages \cup {h}
  /\ surfaced' = IF a = Boot /\ h \notin messages THEN surfaced \cup {h} ELSE surfaced

\* Mutant: NewMessage is not looked at.
InsertAnyMessage(a) ==
  /\ pc[a] = "message"
  /\ Attempt(a, StoreMessage(a, job[a].packet), UNCHANGED <<messages, surfaced>>,
             "mark", Done(a))
  /\ Skip(a)
  /\ UNCHANGED <<packets, decrypted, observations, channels, nodes, nodeIatas, shortIds,
                 edges, routes, filters, capable, scopes, events, life, keyed, todo, received,
                 restarts>>

\* Mutant: the packet is marked though the message was not stored.
InsertMessageUnchecked(a) ==
  /\ pc[a] = "message"
  /\ LET h == job[a].packet IN
       Attempt(a, StoreMessage(a, h), UNCHANGED <<messages, surfaced>>,
               IF h \in messages THEN Done(a) ELSE "mark", "mark")
  /\ Skip(a)
  /\ UNCHANGED <<packets, decrypted, observations, channels, nodes, nodeIatas, shortIds,
                 edges, routes, filters, capable, scopes, events, life, keyed, todo, received,
                 restarts>>

\* ON CONFLICT (packet_hash) DO NOTHING: only a new message goes on.
InsertChannelMessage(a) ==
  /\ pc[a] = "message"
  /\ LET h == job[a].packet IN
       Attempt(a, StoreMessage(a, h), UNCHANGED <<messages, surfaced>>,
               IF h \in messages THEN Done(a) ELSE "mark", Done(a))
  /\ Skip(a)
  /\ UNCHANGED <<packets, decrypted, observations, channels, nodes, nodeIatas, shortIds,
                 edges, routes, filters, capable, scopes, events, life, keyed, todo, received,
                 restarts>>

\* Mutant: an error of SetPacketDecrypted fails the decryption.
SetDecryptedOrGiveUp(a) ==
  /\ pc[a] = "mark"
  /\ Attempt(a, decrypted' = decrypted \cup {job[a].packet}, UNCHANGED decrypted,
             IF a = Boot THEN "scan" ELSE "tell", Done(a))
  /\ UNCHANGED <<packets, observations, channels, messages, nodes, nodeIatas, shortIds,
                 edges, routes, filters, capable, scopes, events, boot, received, restarts>>

\* SetPacketDecrypted: the message is kept whether or not it works.
SetPacketDecrypted(a) ==
  /\ pc[a] = "mark"
  /\ Logged(a, decrypted' = decrypted \cup {job[a].packet}, UNCHANGED decrypted,
            IF a = Boot THEN "scan" ELSE "tell")
  /\ UNCHANGED <<packets, observations, channels, messages, nodes, nodeIatas, shortIds,
                 edges, routes, filters, capable, scopes, events, boot, received, restarts>>

BroadcastChannelMessage(w) ==
  /\ pc[w] = "tell"
  /\ told' = [told EXCEPT ![job[w].packet] = @ + 1]
  /\ Goto(w, "announce")
  /\ UNCHANGED <<tables, announced, firsts, updated, boot, tally>>

\* The packetObservation event, after the side effects whatever came of them.
Announce(w) ==
  /\ pc[w] = "announce"
  /\ announced' = [announced EXCEPT ![<<job[w].packet, job[w].observer>>] = @ + 1]
  /\ firsts' = [firsts EXCEPT ![job[w].packet] = IF job[w].isNew THEN @ + 1 ELSE @]
  /\ Goto(w, "idle")
  /\ UNCHANGED <<tables, told, updated, boot, tally>>

-----------------------------------------------------------------------------
(* Boot and restart *)

\* Mutant: only packets recorded under a hash-only channel are retried.
ListHashOnly ==
  /\ pc[Boot] = "list"
  /\ \/ /\ todo' = {h \in packets : <<"hash", h>> \in channels /\ h \notin decrypted}
        /\ UNCHANGED <<skipped, failures>>
     \/ /\ Fails(Boot)
        /\ skipped' = Packets
        /\ UNCHANGED todo
  /\ Goto(Boot, "scan")
  /\ UNCHANGED <<tables, events, life, keyed, surfaced, received, restarts>>

\* ListUndecryptedGroupTextPackets; if it fails the backfill is given up.
ListUndecrypted ==
  /\ pc[Boot] = "list"
  /\ \/ /\ todo' = {h \in packets : h \in Texts /\ h \notin decrypted}
        /\ UNCHANGED <<skipped, failures>>
     \/ /\ Fails(Boot)
        /\ skipped' = Packets
        /\ UNCHANGED todo
  /\ Goto(Boot, "scan")
  /\ UNCHANGED <<tables, events, life, keyed, surfaced, received, restarts>>

\* Mutant: a packet stays on the list.
ScanAgain ==
  /\ pc[Boot] = "scan"
  /\ \/ \E h \in todo :
          /\ IF h \in keyed THEN Move(Boot, [packet |-> h], "channel")
                            ELSE Goto(Boot, "scan")
          /\ UNCHANGED <<life, todo>>
     \/ /\ todo = {}
        /\ life' = "up"
        /\ Goto(Boot, "idle")
        /\ UNCHANGED todo
  /\ UNCHANGED <<tables, events, keyed, skipped, surfaced, tally>>

\* The next packet of the list, in any order; main starts the workers after
\* the last one.
Scan ==
  /\ pc[Boot] = "scan"
  /\ \/ \E h \in todo :
          /\ todo' = todo \ {h}
          /\ IF h \in keyed THEN Move(Boot, [packet |-> h], "channel")
                            ELSE Goto(Boot, "scan")
          /\ UNCHANGED life
     \/ /\ todo = {}
        /\ life' = "up"
        /\ Goto(Boot, "idle")
        /\ UNCHANGED todo
  /\ UNCHANGED <<tables, events, keyed, skipped, surfaced, tally>>

\* The process dies, or main returns without waiting for the workers; the
\* next one starts with the keys the config then has.
Restart ==
  /\ restarts < MaxRestarts
  /\ restarts' = restarts + 1
  /\ pc' = [a \in Actors |-> IF a = Boot THEN "list" ELSE "idle"]
  /\ job' = [a \in Actors |-> NoJob]
  /\ expired' = {} /\ life' = "boot"
  /\ keyed' \in SUBSET Texts
  /\ todo' = {} /\ skipped' = {}
  /\ UNCHANGED <<tables, events, surfaced, received, failures>>

-----------------------------------------------------------------------------

Decrypt(a) == UpsertChannel(a) \/ InsertChannelMessage(a) \/ SetPacketDecrypted(a)

Worker(w) ==
  \/ Register(w) \/ Edges(w) \/ UpsertPacket(w) \/ InsertObservation(w)
  \/ UpsertObserverScope(w)
  \/ UpsertFilters(w) \/ UpsertRoute(w) \/ DetectCapability(w)
  \/ UpsertNode(w) \/ UpsertAdvertiser(w) \/ BroadcastNodeUpdate(w)
  \/ UpsertChannelHashOnly(w) \/ Decrypt(w) \/ BroadcastChannelMessage(w)
  \/ Announce(w)

Backfill == ListUndecrypted \/ Scan \/ Decrypt(Boot)

Next ==
  \/ \E w \in Workers : Receive(w) \/ Expire(w) \/ Worker(w)
  \/ Backfill
  \/ Restart

Spec == Init /\ [][Next]_vars

\* Statements end, by an answer or by an error: so do handlers and backfill.
Fairness == WF_vars(Backfill) /\ \A w \in Workers : WF_vars(Worker(w))
FairSpec == Spec /\ Fairness

-----------------------------------------------------------------------------
(* Invariants *)

\* The statements of a handler before a row has been stored, while it is open
\* whether the row was new, and once it was.
Early  == {"register", "edges", "packet", "observation"}
Shared == {"scope", "filters", "route", "capability"}
Late   == {"node", "advertiser", "update", "hashOnly", "channel", "message", "mark", "tell",
           "announce"}

Decryption == {"channel", "message", "mark"}

TablesTyped ==
  /\ packets \subseteq Packets /\ decrypted \subseteq Packets
  /\ observations \subseteq Pairs
  /\ channels \subseteq {"key", "hash"} \X Texts /\ messages \subseteq Texts
  /\ nodes \subseteq Packets /\ nodeIatas \subseteq Packets /\ shortIds \subseteq Packets
  /\ edges \in [Packets -> Nat] /\ routes \in [Packets -> Nat]
  /\ filters \subseteq Packets /\ capable \subseteq Multihop
  /\ observerScopes \subseteq Observers /\ nodeScopes \subseteq Packets

EventsTyped ==
  /\ announced \in [Pairs -> Nat] /\ firsts \in [Packets -> Nat]
  /\ told \in [Packets -> Nat] /\ updated \in [Packets -> Nat]

\* An actor is at a statement that fits what it does it for.
ControlTyped ==
  /\ pc \in [Actors -> Early \cup Shared \cup Late \cup {"idle", "list", "scan"}]
  /\ job \in [Actors -> WorkerJob \cup BackfillJob \cup {NoJob}]
  /\ expired \subseteq Workers
  /\ pc[Boot] \in {"idle", "list", "scan"} \cup Decryption
  /\ pc[Boot] \in Decryption => job[Boot] \in BackfillJob /\ job[Boot].packet \in Texts
  /\ \A w \in Workers :
       /\ pc[w] \notin {"list", "scan"}
       /\ pc[w] # "idle" => job[w] \in WorkerJob
       /\ pc[w] \in Decryption \cup {"hashOnly", "tell"} => job[w].packet \in Texts
       /\ pc[w] \in {"route", "capability"} => job[w].packet \in Multihop

BootTyped ==
  /\ life \in {"boot", "up"}
  /\ keyed \subseteq Texts /\ todo \subseteq Texts
  /\ skipped \subseteq Packets /\ surfaced \subseteq Texts

TallyTyped == {received, failures, restarts} \subseteq Nat

\* Every variable has its type.
TypeOK == TablesTyped /\ EventsTyped /\ ControlTyped /\ BootTyped /\ TallyTyped

\* The workers that handle p and have been told that its row is new, those
\* that have stored the message of h and not told of it, and those that have
\* been told that packet h is new.
Claims(p) ==
  {w \in Workers : pc[w] # "idle" /\ job[w].inserted
                   /\ p = <<job[w].packet, job[w].observer>>}
Tellers(h)   == {w \in Workers : pc[w] \in {"mark", "tell"} /\ job[w].packet = h}
Newcomers(h) == {w \in Workers : pc[w] # "idle" /\ job[w].isNew /\ job[w].packet = h}

\* However the copies of an observation interleave, repeat, fail or are cut
\* off, its packetObservation event is sent at most once, and only for a
\* stored row (step 8 of the pipeline in ingest.go).
AnnouncedOnce ==
  \A p \in Pairs : announced[p] <= 1 /\ (announced[p] = 1 => p \in observations)

\* A channelMessage event is sent at most once per message, and never for one
\* that a backfill has stored (BackfillChannelMessages).
ToldOnce ==
  \A h \in Packets : told[h] <= 1 /\ (told[h] = 1 => h \in messages \ surfaced)

\* A packet that no later backfill looks at has its message, and a message
\* has its packet: DecryptGroupText marks last.
MarkedHasMessage == decrypted \subseteq messages /\ messages \subseteq packets

\* At most one event of a packet says that it is the first observation.
FirstOnce == \A h \in Packets : firsts[h] <= 1

-----------------------------------------------------------------------------
(* Why they hold: the parts of the inductive invariant *)

AtMostOneOf(S) == \A x \in S, y \in S : x = y

\* One worker at most claims a row, and only while its event is not sent.
Announcing ==
  /\ AnnouncedOnce
  /\ \A w \in Workers : /\ pc[w] \in Early => ~job[w].inserted
                        /\ pc[w] \in Late => job[w].inserted
  /\ \A p \in Pairs :
       /\ AtMostOneOf(Claims(p))
       /\ Claims(p) # {} => p \in observations /\ announced[p] = 0

\* The same of a message.
Telling ==
  /\ ToldOnce
  /\ surfaced \subseteq messages
  /\ \A h \in Packets :
       /\ AtMostOneOf(Tellers(h))
       /\ Tellers(h) # {} => h \in messages \ surfaced /\ told[h] = 0

\* And of the creation of a packet.
Creating ==
  /\ FirstOnce
  /\ \A h \in Packets :
       /\ firsts[h] = 1 \/ Newcomers(h) # {} => h \in packets
       /\ AtMostOneOf(Newcomers(h))
       /\ Newcomers(h) # {} => firsts[h] = 0

\* Who is about to store or mark a message has its packet.
Marking ==
  /\ MarkedHasMessage
  /\ todo \subseteq packets
  /\ pc[Boot] \in Decryption => job[Boot].packet \in packets
  /\ \A w \in Workers : pc[w] \in {"observation"} \cup Shared \cup Late
                         => job[w].packet \in packets
  /\ \A a \in Actors : pc[a] = "mark" => job[a].packet \in messages

\* What the backfill has still to do: nothing else runs beside it, and a
\* packet is on its list, in its hands, done or skipped.
Backfilling ==
  /\ pc[Boot] = "idle" <=> life = "up"
  /\ life = "boot" => \A w \in Workers : pc[w] = "idle"
  /\ pc[Boot] \in {"scan"} \cup Decryption =>
       \A h \in packets \cap keyed :
         \/ h \in todo \cup messages \cup skipped
         \/ pc[Boot] \in {"channel", "message"} /\ h = job[Boot].packet

\* The inductive invariant.
IInv == TypeOK /\ Announcing /\ Telling /\ Creating /\ Marking /\ Backfilling

-----------------------------------------------------------------------------
(* Action properties and liveness *)

\* When main starts the workers, every stored text packet that a configured
\* key decrypts has its message, whatever stopped it from being decrypted
\* before: no key then, a failed statement, a crash.  Only a packet that this
\* very backfill failed on may wait for the next boot.
Surfaces ==
  [][life = "boot" /\ life' = "up"
       => \A h \in packets \cap keyed : h \in messages \cup skipped]_vars

\* An event that is owed is sent, though statements fail and contexts expire
\* on the way to it, unless the process is restarted first.
OwedIsSent ==
  \A r \in 0..MaxRestarts :
    /\ \A p \in Pairs :
         (Claims(p) # {} /\ restarts = r) ~> (announced[p] = 1 \/ restarts # r)
    /\ \A h \in Packets :
         (restarts = r /\ Tellers(h) # {})
           ~> (told[h] = 1 \/ restarts # r)

\* The backfill ends and the workers start, however often statements fail.
BootEnds == life = "boot" ~> life = "up"
=============================================================================
