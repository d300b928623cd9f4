---------------------------- MODULE IngestProofs ----------------------------
(***************************************************************************)
(* Proofs about the ingest pipeline, for any number of workers, observers  *)
(* and packets, and any number of messages, failures and restarts.         *)
(***************************************************************************)
EXTENDS IngestFeeds, TLAPS

(***************************************************************************)
(* How the actors move                                                     *)
(***************************************************************************)

\* Boot is an actor of its own.
LEMMA BootApart == Boot \in Actors /\ Boot \notin Workers /\ Workers \subseteq Actors
BY IngestAssumption DEF Actors

\* What Move does to each actor.
LEMMA MoveMoves ==
  ASSUME TypeOK, NEW a \in Actors, NEW j, NEW next, Move(a, j, next)
  PROVE  /\ pc'[a] = next
         /\ next \notin {"idle", "scan"} => job'[a] = j
         /\ next \in {"idle", "scan"} => job'[a] = NoJob
         /\ \A b \in Actors \ {a} : pc'[b] = pc[b] /\ job'[b] = job[b]
         /\ expired' \subseteq Workers
BY DEF Move, TypeOK, ControlTyped

\* A move to a statement that fits keeps the control typed.
LEMMA MoveTyped ==
  ASSUME TypeOK, NEW w \in Workers, NEW j \in WorkerJob,
         NEW next \in Early \cup Shared \cup Late \cup {"idle"},
         Move(w, j, next),
         next \in Decryption \cup {"hashOnly", "tell"} => j.packet \in Texts,
         next \in {"route", "capability"} => j.packet \in Multihop
  PROVE  ControlTyped'
<1>1. /\ w \in Actors /\ w # Boot
  BY BootApart
<1>2. /\ pc'[w] = next
      /\ next # "idle" => job'[w] = j
      /\ \A b \in Actors \ {w} : pc'[b] = pc[b] /\ job'[b] = job[b]
      /\ expired' \subseteq Workers
  BY <1>1, MoveMoves DEF Early, Shared, Late
<1>3. /\ pc' \in [Actors -> Early \cup Shared \cup Late \cup {"idle", "list", "scan"}]
      /\ job' \in [Actors -> WorkerJob \cup BackfillJob \cup {NoJob}]
  BY <1>1 DEF Move, TypeOK, ControlTyped
<1>4. pc'[Boot] = pc[Boot] /\ job'[Boot] = job[Boot]
  BY <1>1, <1>2, BootApart
<1>5. ASSUME NEW v \in Workers
      PROVE  /\ pc'[v] \notin {"list", "scan"}
             /\ pc'[v] # "idle" => job'[v] \in WorkerJob
             /\ pc'[v] \in Decryption \cup {"hashOnly", "tell"} => job'[v].packet \in Texts
             /\ pc'[v] \in {"route", "capability"} => job'[v].packet \in Multihop
  <2>1. CASE v = w
    <3>1. pc'[v] = "idle" => pc'[v] \notin Decryption \cup {"hashOnly", "tell", "route", "capability"}
      BY DEF Decryption
    <3> QED BY <2>1, <1>2, <3>1 DEF Early, Shared, Late
  <2>2. CASE v # w
    BY <2>2, <1>2, BootApart DEF TypeOK, ControlTyped
  <2> QED BY <2>1, <2>2
<1> QED BY <1>2, <1>3, <1>4, <1>5 DEF TypeOK, ControlTyped

\* What the type invariant says of a worker that handles a message.
LEMMA WorkerTyped ==
  ASSUME TypeOK, NEW w \in Workers, pc[w] # "idle"
  PROVE  /\ job[w] \in WorkerJob
         /\ job[w].packet \in Packets /\ job[w].observer \in Observers
         /\ job[w].isNew \in BOOLEAN /\ job[w].inserted \in BOOLEAN
         /\ <<job[w].packet, job[w].observer>> \in Pairs
         /\ pc[w] \in Early \cup Shared \cup Late
<1>1. job[w] \in WorkerJob
  BY DEF TypeOK, ControlTyped
<1>2. pc[w] \in Early \cup Shared \cup Late
  BY BootApart DEF TypeOK, ControlTyped
<1> QED BY <1>1, <1>2 DEF WorkerJob, Pairs

\* Where a handler goes once the row has been stored fits its packet.
LEMMA AfterDedupFits ==
  ASSUME TypeOK, NEW w \in Workers, pc[w] # "idle"
  PROVE  LET next == AfterDedup(w) IN
           /\ next \in {"idle", "node", "channel", "hashOnly", "announce"}
           /\ next = "idle" <=> ~job[w].inserted
           /\ next \in {"channel", "hashOnly"} => job[w].packet \in Texts
<1>1. job[w].packet \in Packets /\ job[w].inserted \in BOOLEAN
  BY WorkerTyped
<1>2. keyed \subseteq Texts
  BY DEF TypeOK, BootTyped
<1> QED BY <1>1, <1>2 DEF AfterDedup

-----------------------------------------------------------------------------
(***************************************************************************)
(* The steps of a worker.  All but five leave alone what the events and    *)
(* the messages depend on, and only move the worker.                       *)
(***************************************************************************)

core == <<packets, decrypted, observations, messages, announced, firsts, told,
          life, keyed, todo, surfaced, skipped>>

\* The statements with no bearing on the events or the messages, and where a
\* handler goes from each of them.
Plain(w, next) ==
  \/ pc[w] = "register" /\ next \in {"edges", "packet", "idle"}
  \/ pc[w] = "edges" /\ next = "packet"
  \/ pc[w] = "scope" /\ next = "filters"
  \/ pc[w] = "filters" /\ next \in {AfterDedup(w), "route"}
       /\ (next = "route" => job[w].packet \in Multihop)
  \/ pc[w] = "route" /\ next = "capability"
  \/ pc[w] = "capability" /\ next = AfterDedup(w)
  \/ pc[w] = "node" /\ next \in {"advertiser", "announce"}
  \/ pc[w] = "advertiser" /\ next = "update"
  \/ pc[w] \in {"update", "hashOnly"} /\ next = "announce"
  \/ pc[w] = "channel" /\ next \in {"message", "announce"}

PlainStep(w) ==
  /\ UNCHANGED core
  /\ \E next : Goto(w, next) /\ Plain(w, next)

\* The remaining tables keep their types.
SideTyped ==
  /\ channels \subseteq {"key", "hash"} \X Texts
  /\ nodes \subseteq Packets /\ nodeIatas \subseteq Packets /\ shortIds \subseteq Packets
  /\ edges \in [Packets -> Nat] /\ routes \in [Packets -> Nat]
  /\ filters \subseteq Packets /\ capable \subseteq Multihop
  /\ observerScopes \subseteq Observers /\ nodeScopes \subseteq Packets
  /\ updated \in [Packets -> Nat]
  /\ {received, failures, restarts} \subseteq Nat

side == <<channels, nodes, nodeIatas, shortIds, edges, routes, filters, capable, scopes,
          updated>>

\* A step that leaves the side tables alone keeps their types.
LEMMA SideStays ==
  ASSUME TypeOK, UNCHANGED side, {received', failures', restarts'} \subseteq Nat
  PROVE  SideTyped'
BY DEF TypeOK, TablesTyped, EventsTyped, TallyTyped, SideTyped, side, scopes

\* The failure count of a statement is a natural number.
LEMMA FailureNat ==
  ASSUME TypeOK, NEW a, Fails(a) \/ UNCHANGED failures, UNCHANGED <<received, restarts>>
  PROVE  {received', failures', restarts'} \subseteq Nat
BY DEF TypeOK, TallyTyped, Fails

\* A plain step keeps every type.
LEMMA PlainTypeOK ==
  ASSUME TypeOK, NEW w \in Workers, PlainStep(w), SideTyped'
  PROVE  TypeOK'
<1>1. PICK next : Goto(w, next) /\ Plain(w, next)
  BY DEF PlainStep
<1>2. pc[w] # "idle"
  BY <1>1 DEF Plain
<1>3. /\ job[w] \in WorkerJob
      /\ AfterDedup(w) \in {"idle", "node", "channel", "hashOnly", "announce"}
      /\ AfterDedup(w) \in {"channel", "hashOnly"} => job[w].packet \in Texts
  BY <1>2, WorkerTyped, AfterDedupFits
<1>4. /\ next \in Early \cup Shared \cup Late \cup {"idle"}
      /\ next \in Decryption \cup {"hashOnly", "tell"} => job[w].packet \in Texts
      /\ next \in {"route", "capability"} => job[w].packet \in Multihop
  BY <1>1, <1>3 DEF Plain, Early, Shared, Late, Decryption, TypeOK, ControlTyped
<1>5. ControlTyped'
  BY <1>1, <1>3, <1>4, MoveTyped DEF Goto
<1> QED BY <1>5 DEF PlainStep, core, SideTyped, TypeOK, TablesTyped, EventsTyped, BootTyped,
                    TallyTyped

\* Registering the observer is plain: go on, or end before any row.
LEMMA RegisterPlain ==
  ASSUME TypeOK, NEW w \in Workers, Register(w)
  PROVE  PlainStep(w) /\ SideTyped'
<1>1. UNCHANGED core /\ UNCHANGED side
  BY DEF Register, core, side, tables, events, boot, scopes
<1>2. \E next : Goto(w, next) /\ Plain(w, next)
  BY DEF Register, Plain
<1>3. SideTyped'
  BY <1>1, SideStays, FailureNat DEF Register
<1> QED BY <1>1, <1>2, <1>3 DEF PlainStep

\* So are the edges of a trace, which always go on to the packet,
LEMMA EdgesPlain ==
  ASSUME TypeOK, NEW w \in Workers, Edges(w)
  PROVE  PlainStep(w) /\ SideTyped'
<1>1. UNCHANGED core
  BY DEF Edges, core, events, boot
<1>2. Goto(w, "packet") /\ Plain(w, "packet")
  BY DEF Edges, Logged, Attempt, Plain
<1>3. edges' \in [Packets -> Nat]
  <2>1. edges' \in {edges, [edges EXCEPT ![job[w].packet] = @ + 1]}
    BY DEF Edges, Logged, Attempt
  <2> QED BY <2>1 DEF TypeOK, TablesTyped
<1>4. {received', failures', restarts'} \subseteq Nat
  BY FailureNat DEF Edges, Logged, Attempt
<1>5. SideTyped'
  BY <1>3, <1>4 DEF Edges, scopes, events, TypeOK, TablesTyped, EventsTyped, SideTyped
<1> QED BY <1>1, <1>2, <1>5 DEF PlainStep

\* the observer's scope, whose error is only logged,
LEMMA ScopePlain ==
  ASSUME TypeOK, NEW w \in Workers, UpsertObserverScope(w)
  PROVE  PlainStep(w) /\ SideTyped'
<1>1. UNCHANGED core
  BY DEF UpsertObserverScope, core, events, boot
<1>2. Goto(w, "filters") /\ Plain(w, "filters")
  BY DEF UpsertObserverScope, Logged, Attempt, Plain
<1>3. observerScopes' \subseteq Observers
  <2>1. job[w].observer \in Observers
    BY WorkerTyped DEF UpsertObserverScope
  <2>2. observerScopes' \subseteq observerScopes \cup {job[w].observer}
    BY DEF UpsertObserverScope, Logged, Attempt
  <2> QED BY <2>1, <2>2 DEF TypeOK, TablesTyped
<1>4. {received', failures', restarts'} \subseteq Nat
  BY FailureNat DEF UpsertObserverScope, Logged, Attempt
<1>5. SideTyped'
  BY <1>3, <1>4 DEF UpsertObserverScope, events, TypeOK, TablesTyped, EventsTyped, SideTyped
<1> QED BY <1>1, <1>2, <1>5 DEF PlainStep

\* the channel and trace filters, written for duplicates too,
LEMMA FiltersPlain ==
  ASSUME TypeOK, NEW w \in Workers, UpsertFilters(w)
  PROVE  PlainStep(w) /\ SideTyped'
<1> DEFINE next == IF job[w].packet \in Multihop THEN "route" ELSE AfterDedup(w)
<1>1. UNCHANGED core
  BY DEF UpsertFilters, core, events, boot
<1>2. Goto(w, next)
  BY DEF UpsertFilters, Logged, Attempt
<1>3. Plain(w, next)
  <2>1. AfterDedup(w) # "route"
    BY AfterDedupFits DEF UpsertFilters
  <2> QED BY <2>1 DEF UpsertFilters, Plain
<1>4. filters' \subseteq Packets
  <2>1. job[w].packet \in Packets
    BY WorkerTyped DEF UpsertFilters
  <2>2. filters' \subseteq filters \cup {job[w].packet}
    BY DEF UpsertFilters, Logged, Attempt
  <2> QED BY <2>1, <2>2 DEF TypeOK, TablesTyped
<1>5. {received', failures', restarts'} \subseteq Nat
  BY FailureNat DEF UpsertFilters, Logged, Attempt
<1>6. SideTyped'
  BY <1>4, <1>5 DEF UpsertFilters, scopes, events, TypeOK, TablesTyped, EventsTyped, SideTyped
<1> QED BY <1>1, <1>2, <1>3, <1>6 DEF PlainStep

\* the known route of a multihop packet,
LEMMA RoutePlain ==
  ASSUME TypeOK, NEW w \in Workers, UpsertRoute(w)
  PROVE  PlainStep(w) /\ SideTyped'
<1>1. UNCHANGED core
  BY DEF UpsertRoute, core, events, boot
<1>2. Goto(w, "capability") /\ Plain(w, "capability")
  BY DEF UpsertRoute, Logged, Attempt, Plain
<1>3. routes' \in [Packets -> Nat]
  <2>1. routes' \in {routes, [routes EXCEPT ![job[w].packet] = @ + 1]}
    BY DEF UpsertRoute, Logged, Attempt
  <2> QED BY <2>1 DEF TypeOK, TablesTyped
<1>4. {received', failures', restarts'} \subseteq Nat
  BY FailureNat DEF UpsertRoute, Logged, Attempt
<1>5. SideTyped'
  BY <1>3, <1>4 DEF UpsertRoute, scopes, events, TypeOK, TablesTyped, EventsTyped, SideTyped
<1> QED BY <1>1, <1>2, <1>5 DEF PlainStep

\* the capability flags, after which a duplicate ends,
LEMMA CapabilityPlain ==
  ASSUME TypeOK, NEW w \in Workers, DetectCapability(w)
  PROVE  PlainStep(w) /\ SideTyped'
<1>1. UNCHANGED core
  BY DEF DetectCapability, core, events, boot
<1>2. Goto(w, AfterDedup(w)) /\ Plain(w, AfterDedup(w))
  BY DEF DetectCapability, Logged, Attempt, Plain
<1>3. capable' \subseteq Multihop
  <2>1. job[w].packet \in Multihop
    BY DEF DetectCapability, TypeOK, ControlTyped
  <2>2. capable' \subseteq capable \cup {job[w].packet}
    BY DEF DetectCapability, Logged, Attempt
  <2> QED BY <2>1, <2>2 DEF TypeOK, TablesTyped
<1>4. {received', failures', restarts'} \subseteq Nat
  BY FailureNat DEF DetectCapability, Logged, Attempt
<1>5. SideTyped'
  BY <1>3, <1>4 DEF DetectCapability, scopes, events, TypeOK, TablesTyped, EventsTyped,
                    SideTyped
<1> QED BY <1>1, <1>2, <1>5 DEF PlainStep

\* the node of an advert, whose error skips the rest of the side effects,
LEMMA NodePlain ==
  ASSUME TypeOK, NEW w \in Workers, UpsertNode(w)
  PROVE  PlainStep(w) /\ SideTyped'
<1>1. UNCHANGED core
  BY DEF UpsertNode, core, events, boot
<1>2. \E next \in {"advertiser", "announce"} : Goto(w, next) /\ Plain(w, next)
  BY DEF UpsertNode, Attempt, Plain
<1>3. nodes' \subseteq Packets
  <2>1. job[w].packet \in Packets
    BY WorkerTyped DEF UpsertNode
  <2>2. nodes' \subseteq nodes \cup {job[w].packet}
    BY DEF UpsertNode, Attempt
  <2> QED BY <2>1, <2>2 DEF TypeOK, TablesTyped
<1>4. {received', failures', restarts'} \subseteq Nat
  BY FailureNat DEF UpsertNode, Attempt
<1>5. SideTyped'
  BY <1>3, <1>4 DEF UpsertNode, scopes, events, TypeOK, TablesTyped, EventsTyped, SideTyped
<1> QED BY <1>1, <1>2, <1>5 DEF PlainStep

\* the four statements about the advertiser, whatever fails of them,
LEMMA AdvertiserPlain ==
  ASSUME TypeOK, NEW w \in Workers, UpsertAdvertiser(w)
  PROVE  PlainStep(w) /\ SideTyped'
<1> DEFINE h == job[w].packet
<1>1. UNCHANGED core
  BY DEF UpsertAdvertiser, core, events, boot
<1>2. Goto(w, "update") /\ Plain(w, "update")
  BY DEF UpsertAdvertiser, Plain
<1>3. h \in Packets
  BY WorkerTyped DEF UpsertAdvertiser
<1>4. /\ edges' \in {edges, [edges EXCEPT ![h] = @ + 1]}
      /\ nodeIatas' \subseteq nodeIatas \cup {h}
      /\ nodeScopes' \subseteq nodeScopes \cup {h}
      /\ shortIds' \subseteq shortIds \cup {h}
  BY DEF UpsertAdvertiser
<1>5. edges' \in [Packets -> Nat]
  BY <1>4 DEF TypeOK, TablesTyped
<1>6. nodeIatas' \subseteq Packets /\ nodeScopes' \subseteq Packets /\ shortIds' \subseteq Packets
  BY <1>3, <1>4 DEF TypeOK, TablesTyped
<1>7. {received', failures', restarts'} \subseteq Nat
  BY FailureNat DEF UpsertAdvertiser
<1>8. SideTyped'
  BY <1>5, <1>6, <1>7 DEF UpsertAdvertiser, events, TypeOK, TablesTyped, EventsTyped, SideTyped
<1> QED BY <1>1, <1>2, <1>8 DEF PlainStep

\* the nodeUpdate broadcast,
LEMMA UpdatePlain ==
  ASSUME TypeOK, NEW w \in Workers, BroadcastNodeUpdate(w)
  PROVE  PlainStep(w) /\ SideTyped'
<1>1. UNCHANGED core
  BY DEF BroadcastNodeUpdate, core, tables, boot
<1>2. Goto(w, "announce") /\ Plain(w, "announce")
  BY DEF BroadcastNodeUpdate, Plain
<1>3. updated' \in [Packets -> Nat]
  <2>1. job[w].packet \in Packets
    BY WorkerTyped DEF BroadcastNodeUpdate
  <2> QED BY <2>1 DEF BroadcastNodeUpdate, TypeOK, EventsTyped
<1>4. SideTyped'
  BY <1>3 DEF BroadcastNodeUpdate, tables, scopes, tally, TypeOK, TablesTyped, EventsTyped,
              TallyTyped, SideTyped
<1> QED BY <1>1, <1>2, <1>4 DEF PlainStep

\* the channel of a text that no key decrypts,
LEMMA HashOnlyPlain ==
  ASSUME TypeOK, NEW w \in Workers, UpsertChannelHashOnly(w)
  PROVE  PlainStep(w) /\ SideTyped'
<1>1. UNCHANGED core
  BY DEF UpsertChannelHashOnly, core, events, boot
<1>2. Goto(w, "announce") /\ Plain(w, "announce")
  BY DEF UpsertChannelHashOnly, Logged, Attempt, Plain
<1>3. channels' \subseteq {"key", "hash"} \X Texts
  <2>1. job[w].packet \in Texts
    BY DEF UpsertChannelHashOnly, TypeOK, ControlTyped
  <2>2. channels' \subseteq channels \cup {<<"hash", job[w].packet>>}
    BY DEF UpsertChannelHashOnly, Logged, Attempt
  <2> QED BY <2>1, <2>2 DEF TypeOK, TablesTyped
<1>4. {received', failures', restarts'} \subseteq Nat
  BY FailureNat DEF UpsertChannelHashOnly, Logged, Attempt
<1>5. SideTyped'
  BY <1>3, <1>4 DEF UpsertChannelHashOnly, scopes, events, TypeOK, TablesTyped, EventsTyped,
                    SideTyped
<1> QED BY <1>1, <1>2, <1>5 DEF PlainStep

\* UpsertChannel leaves its actor at the message or gives up; whoever runs it,
\* nothing but channels changes.
LEMMA UpsertChannelSide ==
  ASSUME TypeOK, NEW a \in Actors, UpsertChannel(a)
  PROVE  /\ SideTyped'
         /\ UNCHANGED <<packets, decrypted, observations, messages, announced, firsts, told,
                        life, keyed, todo, surfaced>>
<1>1. channels' \subseteq {"key", "hash"} \X Texts
  <2>1. job[a].packet \in Texts
    BY DEF UpsertChannel, TypeOK, ControlTyped, Actors, Decryption
  <2>2. channels' \subseteq channels \cup {<<"key", job[a].packet>>}
    BY DEF UpsertChannel, Attempt
  <2> QED BY <2>1, <2>2 DEF TypeOK, TablesTyped
<1>2. {received', failures', restarts'} \subseteq Nat
  BY FailureNat DEF UpsertChannel, Attempt
<1>3. SideTyped'
  BY <1>1, <1>2 DEF UpsertChannel, scopes, events, TypeOK, TablesTyped, EventsTyped, SideTyped
<1> QED BY <1>3 DEF UpsertChannel, events

\* and the channel of one that a key decrypts.
LEMMA ChannelPlain ==
  ASSUME TypeOK, NEW w \in Workers, UpsertChannel(w)
  PROVE  PlainStep(w) /\ SideTyped'
<1>1. w \in Actors /\ w # Boot
  BY BootApart
<1>2. UNCHANGED core
  BY <1>1, UpsertChannelSide DEF UpsertChannel, Skip, core
<1>3. \E next \in {"message", "announce"} : Goto(w, next) /\ Plain(w, next)
  BY <1>1 DEF UpsertChannel, Attempt, Done, Plain
<1> QED BY <1>1, <1>2, <1>3, UpsertChannelSide DEF PlainStep

\* The statements of a worker that are not plain.
Pivotal(w) ==
  \/ UpsertPacket(w) \/ InsertObservation(w) \/ InsertChannelMessage(w)
  \/ SetPacketDecrypted(w) \/ BroadcastChannelMessage(w) \/ Announce(w)

\* A statement of a worker is plain or pivotal.
LEMMA WorkerCases ==
  ASSUME TypeOK, NEW w \in Workers, Worker(w)
  PROVE  (PlainStep(w) /\ SideTyped') \/ Pivotal(w)
BY RegisterPlain, EdgesPlain, ScopePlain, FiltersPlain, RoutePlain, CapabilityPlain,
   NodePlain, AdvertiserPlain, UpdatePlain, HashOnlyPlain, ChannelPlain
   DEF Worker, Decrypt, Pivotal

-----------------------------------------------------------------------------
(***************************************************************************)
(* Type correctness of the other steps                                     *)
(***************************************************************************)

\* What a step that leaves the side tables alone has to show.
LEMMA CoreTypeOK ==
  ASSUME TypeOK, UNCHANGED side, ControlTyped', BootTyped',
         packets' \subseteq Packets, decrypted' \subseteq Packets,
         observations' \subseteq Pairs, messages' \subseteq Texts,
         announced' \in [Pairs -> Nat], firsts' \in [Packets -> Nat],
         told' \in [Packets -> Nat], {received', failures', restarts'} \subseteq Nat
  PROVE  TypeOK'
BY DEF TypeOK, TablesTyped, EventsTyped, TallyTyped, side, scopes

\* Each pivotal statement keeps the types, ending or going on: the packet row,
LEMMA UpsertPacketTypeOK ==
  ASSUME TypeOK, NEW w \in Workers, UpsertPacket(w)
  PROVE  TypeOK'
<1>1. /\ job[w] \in WorkerJob /\ job[w].packet \in Packets
  BY WorkerTyped DEF UpsertPacket
<1>2. ControlTyped'
  <2>1. CASE Goto(w, "idle")
    <3>1. "idle" \notin Decryption \cup {"hashOnly", "tell"} \cup {"route", "capability"}
      BY DEF Decryption
    <3> QED BY <2>1, <3>1, <1>1, MoveTyped DEF Goto
  <2>2. CASE Move(w, [job[w] EXCEPT !.isNew = job[w].packet \notin packets], "observation")
    <3>1. [job[w] EXCEPT !.isNew = job[w].packet \notin packets] \in WorkerJob
      BY <1>1 DEF WorkerJob
    <3>2. "observation" \notin Decryption \cup {"hashOnly", "tell"} \cup {"route", "capability"}
      BY DEF Decryption
    <3>3. "observation" \in Early
      BY DEF Early
    <3> QED BY <2>2, <3>1, <3>2, <3>3, MoveTyped
  <2> QED BY <2>1, <2>2 DEF UpsertPacket
<1>3. packets' \subseteq Packets
  <2>1. packets' \subseteq packets \cup {job[w].packet}
    BY DEF UpsertPacket
  <2> QED BY <2>1, <1>1 DEF TypeOK, TablesTyped
<1>4. {received', failures', restarts'} \subseteq Nat
  BY FailureNat DEF UpsertPacket
<1>5. BootTyped'
  BY DEF UpsertPacket, boot, TypeOK, BootTyped
<1> QED BY <1>2, <1>3, <1>4, <1>5, CoreTypeOK
        DEF UpsertPacket, side, scopes, events, TypeOK, TablesTyped, EventsTyped

\* the observation row,
LEMMA InsertObservationTypeOK ==
  ASSUME TypeOK, NEW w \in Workers, InsertObservation(w)
  PROVE  TypeOK'
<1> DEFINE p == <<job[w].packet, job[w].observer>>
           j == [job[w] EXCEPT !.inserted = p \notin observations]
<1>1. job[w] \in WorkerJob /\ p \in Pairs
  BY WorkerTyped DEF InsertObservation
<1>2. ControlTyped'
  <2>1. CASE Goto(w, "idle")
    <3>1. "idle" \notin Decryption \cup {"hashOnly", "tell"} \cup {"route", "capability"}
      BY DEF Decryption
    <3> QED BY <2>1, <3>1, <1>1, MoveTyped DEF Goto
  <2>2. CASE \E next \in {"scope", "filters"} : Move(w, j, next)
    <3>1. PICK next \in {"scope", "filters"} : Move(w, j, next)
      BY <2>2
    <3>2. j \in WorkerJob
      BY <1>1 DEF WorkerJob
    <3>3. next \notin Decryption \cup {"hashOnly", "tell"} \cup {"route", "capability"}
      BY DEF Decryption
    <3>4. next \in Shared
      BY DEF Shared
    <3> QED BY <3>1, <3>2, <3>3, <3>4, MoveTyped
  <2> QED BY <2>1, <2>2 DEF InsertObservation
<1>3. observations' \subseteq Pairs
  <2>1. observations' \subseteq observations \cup {p}
    BY DEF InsertObservation
  <2> QED BY <2>1, <1>1 DEF TypeOK, TablesTyped
<1>4. {received', failures', restarts'} \subseteq Nat
  BY FailureNat DEF InsertObservation
<1>5. BootTyped'
  BY DEF InsertObservation, boot, TypeOK, BootTyped
<1> QED BY <1>2, <1>3, <1>4, <1>5, CoreTypeOK
        DEF InsertObservation, side, scopes, events, TypeOK, TablesTyped, EventsTyped

\* What InsertChannelMessage does, whoever runs it.
LEMMA InsertMessageSide ==
  ASSUME TypeOK, NEW a \in Actors, InsertChannelMessage(a)
  PROVE  /\ job[a].packet \in Texts
         /\ \/ StoreMessage(a, job[a].packet)
            \/ UNCHANGED <<messages, surfaced>>
         /\ {received', failures', restarts'} \subseteq Nat
         /\ messages' \subseteq Texts /\ surfaced' \subseteq Texts
         /\ UNCHANGED side
         /\ UNCHANGED <<packets, decrypted, observations, announced, firsts, told, life,
                        keyed, todo>>
<1>1. job[a].packet \in Texts
  BY DEF InsertChannelMessage, TypeOK, ControlTyped, Actors, Decryption
<1>2. \/ StoreMessage(a, job[a].packet)
      \/ UNCHANGED <<messages, surfaced>>
  BY DEF InsertChannelMessage, Attempt
<1>3. messages' \subseteq Texts /\ surfaced' \subseteq Texts
  BY <1>1, <1>2 DEF StoreMessage, TypeOK, TablesTyped, BootTyped
<1>4. {received', failures', restarts'} \subseteq Nat
  BY FailureNat DEF InsertChannelMessage, Attempt
<1> QED BY <1>1, <1>2, <1>3, <1>4 DEF InsertChannelMessage, side, scopes, events

\* the message row,
LEMMA InsertMessageTypeOK ==
  ASSUME TypeOK, NEW w \in Workers, InsertChannelMessage(w)
  PROVE  TypeOK'
<1>1. w \in Actors /\ w # Boot
  BY BootApart
<1>2. PICK next \in {"mark", "announce"} : Goto(w, next)
  BY <1>1 DEF InsertChannelMessage, Attempt, Done
<1>3. job[w] \in WorkerJob /\ job[w].packet \in Texts
  BY <1>1, WorkerTyped, InsertMessageSide DEF InsertChannelMessage
<1>4. ControlTyped'
  BY <1>2, <1>3, MoveTyped DEF Goto, Late
<1>5. BootTyped'
  BY <1>1, InsertMessageSide DEF InsertChannelMessage, Skip, TypeOK, BootTyped
<1> QED BY <1>1, <1>4, <1>5, InsertMessageSide, CoreTypeOK DEF TypeOK, TablesTyped, EventsTyped

\* What SetPacketDecrypted does, whoever runs it.
LEMMA SetDecryptedSide ==
  ASSUME TypeOK, NEW a \in Actors, SetPacketDecrypted(a)
  PROVE  /\ job[a].packet \in Texts
         /\ decrypted' \subseteq decrypted \cup {job[a].packet}
         /\ {received', failures', restarts'} \subseteq Nat
         /\ Goto(a, IF a = Boot THEN "scan" ELSE "tell")
         /\ UNCHANGED side
         /\ UNCHANGED <<packets, observations, messages, announced, firsts, told, life,
                        keyed, todo, surfaced, skipped>>
<1>1. job[a].packet \in Texts
  BY DEF SetPacketDecrypted, TypeOK, ControlTyped, Actors, Decryption
<1>2. {received', failures', restarts'} \subseteq Nat
  BY FailureNat DEF SetPacketDecrypted, Logged, Attempt
<1>3. decrypted' \subseteq decrypted \cup {job[a].packet}
  BY DEF SetPacketDecrypted, Logged, Attempt
<1>4. Goto(a, IF a = Boot THEN "scan" ELSE "tell")
  BY DEF SetPacketDecrypted, Logged, Attempt
<1> QED BY <1>1, <1>2, <1>3, <1>4 DEF SetPacketDecrypted, side, scopes, events, boot

\* the decrypted mark,
LEMMA SetDecryptedTypeOK ==
  ASSUME TypeOK, NEW w \in Workers, SetPacketDecrypted(w)
  PROVE  TypeOK'
<1>1. w \in Actors /\ w # Boot
  BY BootApart
<1>2. job[w] \in WorkerJob /\ job[w].packet \in Texts
  BY <1>1, WorkerTyped, SetDecryptedSide DEF SetPacketDecrypted
<1>3. ControlTyped'
  <2>1. "tell" \in Late /\ "tell" \notin {"route", "capability"}
    BY DEF Late
  <2> QED BY <2>1, <1>1, <1>2, SetDecryptedSide, MoveTyped DEF Goto
<1>4. BootTyped'
  BY <1>1, SetDecryptedSide DEF TypeOK, BootTyped
<1>5. decrypted' \subseteq Packets
  BY <1>1, SetDecryptedSide DEF TypeOK, TablesTyped, Texts
<1> QED BY <1>1, <1>3, <1>4, <1>5, SetDecryptedSide, CoreTypeOK
        DEF TypeOK, TablesTyped, EventsTyped

\* and the two broadcasts, which count a natural number up.
LEMMA BroadcastTypeOK ==
  ASSUME TypeOK, NEW w \in Workers, BroadcastChannelMessage(w) \/ Announce(w)
  PROVE  TypeOK'
<1>1. job[w] \in WorkerJob /\ job[w].packet \in Packets
      /\ <<job[w].packet, job[w].observer>> \in Pairs
  BY WorkerTyped DEF BroadcastChannelMessage, Announce
<1>2. PICK next \in {"announce", "idle"} : Goto(w, next)
  BY DEF BroadcastChannelMessage, Announce
<1>3. ControlTyped'
  <2>1. next \notin Decryption \cup {"hashOnly", "tell"} \cup {"route", "capability"}
    BY DEF Decryption
  <2> QED BY <2>1, <1>1, <1>2, MoveTyped DEF Goto, Late
<1>4. BootTyped'
  BY DEF BroadcastChannelMessage, Announce, boot, TypeOK, BootTyped
<1>5. told' \in [Packets -> Nat]
  BY <1>1 DEF BroadcastChannelMessage, Announce, TypeOK, EventsTyped
<1>6. announced' \in [Pairs -> Nat] /\ firsts' \in [Packets -> Nat]
  BY <1>1 DEF BroadcastChannelMessage, Announce, TypeOK, EventsTyped
<1>7. UNCHANGED side /\ UNCHANGED <<tables, tally>>
  BY DEF BroadcastChannelMessage, Announce, tables, side, scopes
<1> QED BY <1>3, <1>4, <1>5, <1>6, <1>7, CoreTypeOK
        DEF tables, tally, TypeOK, TablesTyped, TallyTyped

\* Every statement of a worker keeps the types.
LEMMA WorkerTypeOK ==
  ASSUME TypeOK, NEW w \in Workers, Worker(w)
  PROVE  TypeOK'
BY WorkerCases, PlainTypeOK, UpsertPacketTypeOK, InsertObservationTypeOK, InsertMessageTypeOK,
   SetDecryptedTypeOK, BroadcastTypeOK DEF Pivotal

\* A step of the boot process leaves the workers where they are.
LEMMA BootMoveTyped ==
  ASSUME TypeOK, NEW j, NEW next \in {"idle", "scan"} \cup Decryption, Move(Boot, j, next),
         next \in Decryption => j \in BackfillJob /\ j.packet \in Texts
  PROVE  /\ ControlTyped'
         /\ pc'[Boot] = next
         /\ next \in Decryption => job'[Boot] = j
         /\ \A w \in Workers : pc'[w] = pc[w] /\ job'[w] = job[w]
<1>1. /\ pc'[Boot] = next
      /\ next \notin {"idle", "scan"} => job'[Boot] = j
      /\ \A b \in Actors \ {Boot} : pc'[b] = pc[b] /\ job'[b] = job[b]
      /\ expired' \subseteq Workers
  BY BootApart, MoveMoves
<1>2. next \in Decryption => next \notin {"idle", "scan"}
  BY DEF Decryption
<1>3. \A w \in Workers : pc'[w] = pc[w] /\ job'[w] = job[w]
  BY <1>1, BootApart
<1>4. pc' \in [Actors -> Early \cup Shared \cup Late \cup {"idle", "list", "scan"}]
  BY DEF Move, TypeOK, ControlTyped, Decryption, Late
<1>5. job' \in [Actors -> WorkerJob \cup BackfillJob \cup {NoJob}]
  BY DEF Move, TypeOK, ControlTyped
<1> QED BY <1>1, <1>2, <1>3, <1>4, <1>5 DEF TypeOK, ControlTyped

\* A message that is received becomes a job for an idle worker.
LEMMA ReceiveTypeOK ==
  ASSUME TypeOK, NEW w \in Workers, Receive(w)
  PROVE  TypeOK'
<1>1. PICK h \in Packets, o \in Observers :
        job' = [job EXCEPT ![w] = [packet |-> h, observer |-> o,
                                   isNew |-> FALSE, inserted |-> FALSE]]
  BY DEF Receive
<1> DEFINE j == [packet |-> h, observer |-> o, isNew |-> FALSE, inserted |-> FALSE]
<1>2. j \in WorkerJob
  BY DEF WorkerJob
<1>3. Move(w, j, "register")
  BY <1>1 DEF Receive, Move
<1>4. ControlTyped'
  <2>1. "register" \in Early
        /\ "register" \notin Decryption \cup {"hashOnly", "tell"} \cup {"route", "capability"}
    BY DEF Early, Decryption
  <2> QED BY <2>1, <1>2, <1>3, MoveTyped
<1>5. {received', failures', restarts'} \subseteq Nat
  BY DEF Receive, TypeOK, TallyTyped
<1>6. BootTyped'
  BY DEF Receive, boot, TypeOK, BootTyped
<1> QED BY <1>4, <1>5, <1>6, CoreTypeOK
        DEF Receive, tables, events, side, scopes, TypeOK, TablesTyped, EventsTyped

\* An expired context touches nothing but the flag.
LEMMA ExpireTypeOK ==
  ASSUME TypeOK, NEW w \in Workers, Expire(w)
  PROVE  TypeOK'
<1>1. {received', failures', restarts'} \subseteq Nat
  BY DEF Expire, TypeOK, TallyTyped
<1>2. ControlTyped'
  BY DEF Expire, TypeOK, ControlTyped
<1>3. BootTyped'
  BY DEF Expire, boot, TypeOK, BootTyped
<1> QED BY <1>1, <1>2, <1>3, CoreTypeOK
        DEF Expire, tables, events, side, scopes, TypeOK, TablesTyped, EventsTyped

\* The backfill lists text packets, and moves no worker.
LEMMA ListTypeOK ==
  ASSUME TypeOK, ListUndecrypted
  PROVE  TypeOK' /\ \A w \in Workers : pc'[w] = pc[w] /\ job'[w] = job[w]
<1>1. ControlTyped' /\ \A w \in Workers : pc'[w] = pc[w] /\ job'[w] = job[w]
  <2>1. "scan" \notin Decryption
    BY DEF Decryption
  <2> QED BY <2>1, BootMoveTyped DEF ListUndecrypted, Goto
<1>2. {received', failures', restarts'} \subseteq Nat
  BY FailureNat DEF ListUndecrypted
<1>3. BootTyped'
  BY DEF ListUndecrypted, TypeOK, BootTyped
<1> QED BY <1>1, <1>2, <1>3, CoreTypeOK
        DEF ListUndecrypted, tables, events, side, scopes, TypeOK, TablesTyped, EventsTyped

\* It takes a text packet from its list, or lets main start the workers.
LEMMA ScanTypeOK ==
  ASSUME TypeOK, Scan
  PROVE  TypeOK' /\ \A w \in Workers : pc'[w] = pc[w] /\ job'[w] = job[w]
<1>1. \/ \E h \in todo : Move(Boot, [packet |-> h], "channel")
      \/ Goto(Boot, "scan") \/ Goto(Boot, "idle")
  BY DEF Scan
<1>2. ControlTyped' /\ \A w \in Workers : pc'[w] = pc[w] /\ job'[w] = job[w]
  <2>1. CASE \E h \in todo : Move(Boot, [packet |-> h], "channel")
    <3>1. PICK h \in todo : Move(Boot, [packet |-> h], "channel")
      BY <2>1
    <3>2. [packet |-> h] \in BackfillJob /\ h \in Texts
      BY DEF BackfillJob, TypeOK, BootTyped, Texts
    <3>3. "channel" \in Decryption
      BY DEF Decryption
    <3> QED BY <3>1, <3>2, <3>3, BootMoveTyped
  <2>2. CASE Goto(Boot, "scan") \/ Goto(Boot, "idle")
    <3>1. "scan" \notin Decryption /\ "idle" \notin Decryption
      BY DEF Decryption
    <3> QED BY <2>2, <3>1, BootMoveTyped DEF Goto
  <2> QED BY <1>1, <2>1, <2>2
<1>3. {received', failures', restarts'} \subseteq Nat
  BY DEF Scan, tally, TypeOK, TallyTyped
<1>4. BootTyped'
  BY DEF Scan, TypeOK, BootTyped
<1> QED BY <1>2, <1>3, <1>4, CoreTypeOK
        DEF Scan, tables, events, side, scopes, TypeOK, TablesTyped, EventsTyped

\* Decryption by the backfill: it goes on, marks, or is done with the packet.
LEMMA BootDecryptTypeOK ==
  ASSUME TypeOK, Decrypt(Boot)
  PROVE  /\ TypeOK'
         /\ \A w \in Workers : pc'[w] = pc[w] /\ job'[w] = job[w]
         /\ pc'[Boot] \in {"scan", "message", "mark"}
         /\ pc'[Boot] # "scan" => job'[Boot] = job[Boot]
<1>1. PICK next \in {"scan", "message", "mark"} : Goto(Boot, next)
  <2>1. CASE UpsertChannel(Boot)
    BY <2>1 DEF UpsertChannel, Attempt, Done
  <2>2. CASE InsertChannelMessage(Boot)
    BY <2>2 DEF InsertChannelMessage, Attempt, Done
  <2>3. CASE SetPacketDecrypted(Boot)
    BY <2>3 DEF SetPacketDecrypted, Logged, Attempt
  <2> QED BY <2>1, <2>2, <2>3 DEF Decrypt
<1>2. pc[Boot] \in Decryption
  BY DEF Decrypt, UpsertChannel, InsertChannelMessage, SetPacketDecrypted, Decryption
<1>3. /\ ControlTyped'
      /\ pc'[Boot] = next
      /\ next # "scan" => job'[Boot] = job[Boot]
      /\ \A w \in Workers : pc'[w] = pc[w] /\ job'[w] = job[w]
  <2>1. next \in {"idle", "scan"} \cup Decryption /\ (next # "scan" => next \in Decryption)
    BY DEF Decryption
  <2>2. job[Boot] \in BackfillJob /\ job[Boot].packet \in Texts
    BY <1>2 DEF TypeOK, ControlTyped
  <2> QED BY <1>1, <2>1, <2>2, BootMoveTyped DEF Goto
<1>4. skipped' \subseteq Packets
  <2>1. job[Boot].packet \in Packets
    BY <1>2 DEF TypeOK, ControlTyped, Texts
  <2>2. skipped' \subseteq skipped \cup {job[Boot].packet}
    BY DEF Decrypt, UpsertChannel, InsertChannelMessage, SetPacketDecrypted, Skip, boot
  <2> QED BY <2>1, <2>2 DEF TypeOK, BootTyped
<1>5. TypeOK'
  <2>1. CASE UpsertChannel(Boot)
    <3>1. BootTyped'
      BY <2>1, <1>4, BootApart, UpsertChannelSide DEF TypeOK, BootTyped
    <3> QED BY <2>1, <3>1, <1>3, BootApart, UpsertChannelSide
            DEF SideTyped, TypeOK, TablesTyped, EventsTyped, TallyTyped
  <2>2. CASE InsertChannelMessage(Boot)
    <3>1. BootTyped'
      BY <2>2, <1>4, BootApart, InsertMessageSide DEF TypeOK, BootTyped
    <3> QED BY <2>2, <3>1, <1>3, BootApart, InsertMessageSide, CoreTypeOK
            DEF TypeOK, TablesTyped, EventsTyped
  <2>3. CASE SetPacketDecrypted(Boot)
    <3>1. BootTyped'
      BY <2>3, <1>4, BootApart, SetDecryptedSide DEF TypeOK, BootTyped
    <3>2. decrypted' \subseteq Packets
      BY <2>3, BootApart, SetDecryptedSide DEF TypeOK, TablesTyped, Texts
    <3> QED BY <2>3, <3>1, <3>2, <1>3, BootApart, SetDecryptedSide, CoreTypeOK
            DEF TypeOK, TablesTyped, EventsTyped
  <2> QED BY <2>1, <2>2, <2>3 DEF Decrypt
<1> QED BY <1>1, <1>3, <1>5

\* A restart forgets what every actor was doing.
LEMMA RestartTypeOK ==
  ASSUME TypeOK, Restart
  PROVE  TypeOK'
<1>1. /\ pc' = [a \in Actors |-> IF a = Boot THEN "list" ELSE "idle"]
      /\ job' = [a \in Actors |-> NoJob] /\ expired' = {}
  BY DEF Restart
<1>2. /\ pc'[Boot] = "list"
      /\ \A w \in Workers : pc'[w] = "idle"
  BY <1>1, BootApart
<1>3. ControlTyped'
  BY <1>1, <1>2 DEF ControlTyped, Decryption
<1>4. {received', failures', restarts'} \subseteq Nat
  BY DEF Restart, TypeOK, TallyTyped
<1>5. BootTyped'
  BY DEF Restart, TypeOK, BootTyped
<1> QED BY <1>3, <1>4, <1>5, CoreTypeOK
        DEF Restart, tables, events, side, scopes, TypeOK, TablesTyped, EventsTyped

\* The process starts with typed variables.
LEMMA InitTypeOK == Init => TypeOK
<1> SUFFICES ASSUME Init PROVE TypeOK
  OBVIOUS
<1>1. TablesTyped
  BY DEF Init, TablesTyped
<1>2. EventsTyped
  BY DEF Init, EventsTyped
<1>3. ControlTyped
  <2>1. pc[Boot] = "list" /\ \A w \in Workers : pc[w] = "idle"
    BY BootApart DEF Init
  <2> QED BY <2>1 DEF Init, ControlTyped, Decryption
<1>4. BootTyped /\ TallyTyped
  BY DEF Init, BootTyped, TallyTyped
<1> QED BY <1>1, <1>2, <1>3, <1>4 DEF TypeOK

\* The cases of a step, in the order the lemmas below take them.
LEMMA NextCases ==
  ASSUME [Next]_vars
  PROVE  \/ \E w \in Workers : Worker(w)
         \/ \E w \in Workers : Receive(w)
         \/ \E w \in Workers : Expire(w)
         \/ ListUndecrypted \/ Scan \/ Decrypt(Boot)
         \/ Restart
         \/ UNCHANGED vars
BY DEF Next, Backfill

\* Every step keeps the types.
LEMMA NextTypeOK ==
  ASSUME TypeOK, [Next]_vars
  PROVE  TypeOK'
<1>1. CASE UNCHANGED vars
  BY <1>1 DEF vars, tables, events, control, boot, tally, scopes, TypeOK, TablesTyped,
              EventsTyped, ControlTyped, BootTyped, TallyTyped
<1> QED BY <1>1, NextCases, WorkerTypeOK, ReceiveTypeOK, ExpireTypeOK, ListTypeOK, ScanTypeOK,
           BootDecryptTypeOK, RestartTypeOK

\* Every variable of the pipeline keeps its type, and every worker and the
\* backfill are at statements that fit the packet they handle, whatever fails
\* and however often the process restarts (handlePacket, DecryptGroupText).
THEOREM TypeCorrect == Spec => []TypeOK
<1>1. TypeOK /\ [Next]_vars => TypeOK'
  BY NextTypeOK
<1> QED BY <1>1, InitTypeOK, PTL DEF Spec

-----------------------------------------------------------------------------
(***************************************************************************)
(* Moves.  What a step does to the places of the workers, apart from what  *)
(* it writes.                                                              *)
(***************************************************************************)

\* Only w moves, within its message; it keeps what the database has told it,
\* and ends only if its row was not new.
Moves(w) ==
  /\ pc[w] # "idle"
  /\ \A v \in Workers \ {w} : pc'[v] = pc[v] /\ job'[v] = job[v]
  /\ pc'[w] # "idle" => job'[w].packet = job[w].packet /\ job'[w].observer = job[w].observer

\* Nobody moves.
Still == \A v \in Workers : pc'[v] = pc[v] /\ job'[v] = job[v]

\* The set of workers that claim a row stays as it is.
LEMMA ClaimsStay ==
  ASSUME TypeOK, NEW w \in Workers, NEW p \in Pairs, Moves(w),
         pc'[w] # "idle" => job'[w].inserted = job[w].inserted,
         pc'[w] = "idle" => ~job[w].inserted
  PROVE  Claims(p)' = Claims(p)
<1>1. ASSUME NEW v \in Workers
      PROVE  v \in Claims(p)' <=> v \in Claims(p)
  BY DEF Moves, Claims
<1> QED BY <1>1 DEF Claims

\* A move that keeps the row and what its worker knows of it keeps Announcing.
LEMMA AnnouncingStays ==
  ASSUME TypeOK, Announcing, NEW w \in Workers, Moves(w),
         UNCHANGED <<observations, announced>>,
         pc'[w] # "idle" => job'[w].inserted = job[w].inserted,
         pc'[w] = "idle" => ~job[w].inserted,
         pc'[w] \in Early => pc[w] \in Early,
         pc'[w] \in Late => job[w].inserted
  PROVE  Announcing'
<1>1. \A p \in Pairs : Claims(p)' = Claims(p)
  BY ClaimsStay
<1>2. ASSUME NEW v \in Workers
      PROVE  /\ pc'[v] \in Early => ~job'[v].inserted
             /\ pc'[v] \in Late => job'[v].inserted
  <2>1. "idle" \notin Early /\ "idle" \notin Late
    BY DEF Early, Late
  <2> QED BY <2>1 DEF Moves, Announcing
<1> QED BY <1>1, <1>2 DEF Announcing, AnnouncedOnce, AtMostOneOf

\* The set of workers that have a message to tell of stays as it is.
LEMMA TellersStay ==
  ASSUME TypeOK, NEW w \in Workers, NEW h \in Packets, Moves(w),
         pc'[w] \in {"mark", "tell"} <=> pc[w] \in {"mark", "tell"}
  PROVE  Tellers(h)' = Tellers(h)
<1>1. ASSUME NEW v \in Workers
      PROVE  v \in Tellers(h)' <=> v \in Tellers(h)
  BY DEF Moves, Tellers
<1> QED BY <1>1 DEF Tellers

\* A step that stores and tells nothing keeps Telling.
LEMMA TellingStays ==
  ASSUME Telling, UNCHANGED <<messages, surfaced, told>>,
         \A h \in Packets : Tellers(h)' = Tellers(h)
  PROVE  Telling'
BY DEF Telling, ToldOnce, AtMostOneOf

\* No worker is told that a packet is new.
LEMMA CreatingStays ==
  ASSUME TypeOK, Creating, NEW w \in Workers, Moves(w),
         UNCHANGED firsts, packets \subseteq packets',
         pc'[w] # "idle" => job'[w].isNew = job[w].isNew
  PROVE  Creating'
<1>1. \A h \in Packets : Newcomers(h)' \subseteq Newcomers(h)
  BY DEF Moves, Newcomers
<1> QED BY <1>1 DEF Creating, FirstOnce, AtMostOneOf

\* A step in which no worker moves keeps all three.
LEMMA StillStays ==
  ASSUME Still
  PROVE  /\ \A p : Claims(p)' = Claims(p)
         /\ \A h : Tellers(h)' = Tellers(h) /\ Newcomers(h)' = Newcomers(h)
         /\ Announcing /\ UNCHANGED <<observations, announced>> => Announcing'
         /\ Telling /\ UNCHANGED <<messages, surfaced, told>> => Telling'
         /\ Creating /\ UNCHANGED <<packets, firsts>> => Creating'
<1>1. /\ \A p : Claims(p)' = Claims(p)
      /\ \A h : Tellers(h)' = Tellers(h) /\ Newcomers(h)' = Newcomers(h)
  BY DEF Still, Claims, Tellers, Newcomers
<1>2. Announcing /\ UNCHANGED <<observations, announced>> => Announcing'
  BY <1>1 DEF Still, Announcing, AnnouncedOnce, AtMostOneOf
<1>3. Telling /\ UNCHANGED <<messages, surfaced, told>> => Telling'
  BY <1>1 DEF Telling, ToldOnce, AtMostOneOf
<1>4. Creating /\ UNCHANGED <<packets, firsts>> => Creating'
  BY <1>1 DEF Creating, FirstOnce, AtMostOneOf
<1> QED BY <1>1, <1>2, <1>3, <1>4

\* A move by Goto is a move.
LEMMA GotoMoves ==
  ASSUME TypeOK, NEW w \in Workers, NEW next \in Early \cup Shared \cup Late \cup {"idle"},
         Goto(w, next), pc[w] # "idle"
  PROVE  /\ Moves(w)
         /\ pc'[w] = next
         /\ next # "idle" => job'[w] = job[w]
         /\ pc'[Boot] = pc[Boot] /\ job'[Boot] = job[Boot]
<1>1. /\ pc'[w] = next
      /\ next \notin {"idle", "scan"} => job'[w] = job[w]
      /\ \A b \in Actors \ {w} : pc'[b] = pc[b] /\ job'[b] = job[b]
  BY BootApart, MoveMoves DEF Goto
<1>2. next # "scan"
  BY DEF Early, Shared, Late
<1> QED BY <1>1, <1>2, BootApart DEF Moves

\* What a plain step does to its worker.
LEMMA PlainMoves ==
  ASSUME TypeOK, Announcing, NEW w \in Workers, PlainStep(w)
  PROVE  /\ Moves(w)
         /\ pc'[w] # "idle" => job'[w] = job[w]
         /\ pc'[w] = "idle" => ~job[w].inserted
         /\ pc'[w] \in Early => pc[w] \in Early
         /\ pc'[w] \in Late => job[w].inserted
         /\ pc[w] \notin {"mark", "tell"} /\ pc'[w] \notin {"mark", "tell"}
         /\ pc'[w] \in Shared \cup Late => pc[w] \in Shared \cup Late
         /\ pc'[w] # "observation"
         /\ pc'[Boot] = pc[Boot] /\ job'[Boot] = job[Boot]
<1>1. PICK next : Goto(w, next) /\ Plain(w, next)
  BY DEF PlainStep
<1>2. pc[w] # "idle"
  BY <1>1 DEF Plain
<1>3. /\ AfterDedup(w) \in {"idle", "node", "channel", "hashOnly", "announce"}
      /\ AfterDedup(w) = "idle" <=> ~job[w].inserted
      /\ job[w].inserted \in BOOLEAN
  BY <1>2, AfterDedupFits, WorkerTyped
<1>4. next \in Early \cup Shared \cup Late \cup {"idle"}
  BY <1>1, <1>3 DEF Plain, Early, Shared, Late
<1>5. /\ Moves(w) /\ pc'[w] = next /\ (next # "idle" => job'[w] = job[w])
      /\ pc'[Boot] = pc[Boot] /\ job'[Boot] = job[Boot]
  BY <1>1, <1>2, <1>4, GotoMoves
<1>6. /\ pc[w] \in Early => ~job[w].inserted
      /\ pc[w] \in Late => job[w].inserted
  BY DEF Announcing
<1>7. next = "idle" => ~job[w].inserted
  BY <1>1, <1>3, <1>6 DEF Plain, Early
<1>8. next \in Late => job[w].inserted
  BY <1>1, <1>3, <1>6 DEF Plain, Late
<1>9. /\ next \in Early => pc[w] \in Early
      /\ pc[w] \notin {"mark", "tell"} /\ next \notin {"mark", "tell"}
      /\ next \in Shared \cup Late => pc[w] \in Shared \cup Late
      /\ next # "observation"
  BY <1>1, <1>3 DEF Plain, Early, Shared, Late
<1> QED BY <1>5, <1>7, <1>8, <1>9

\* UpsertPacket leaves it open whether the observation is new, and says that
\* the packet is new only if it had no row.
LEMMA UpsertPacketMoves ==
  ASSUME TypeOK, NEW w \in Workers, UpsertPacket(w)
  PROVE  /\ Moves(w)
         /\ pc[w] = "packet" /\ pc'[w] \in {"idle", "observation"}
         /\ pc'[w] # "idle" =>
              /\ job'[w].inserted = job[w].inserted
              /\ job'[w].isNew = (job[w].packet \notin packets)
              /\ job[w].packet \in packets'
         /\ packets \subseteq packets' /\ packets' \subseteq packets \cup {job[w].packet}
         /\ pc'[Boot] = pc[Boot] /\ job'[Boot] = job[Boot]
<1> DEFINE j == [job[w] EXCEPT !.isNew = job[w].packet \notin packets]
<1>1. w \in Actors /\ w # Boot /\ Boot \in Actors
  BY BootApart
<1>2. job[w] \in WorkerJob
  BY WorkerTyped DEF UpsertPacket
<1>3. /\ j.packet = job[w].packet /\ j.observer = job[w].observer
      /\ j.inserted = job[w].inserted /\ j.isNew = (job[w].packet \notin packets)
  BY <1>2 DEF WorkerJob
<1>4. \/ Move(w, j, "observation") /\ packets' = packets \cup {job[w].packet}
      \/ Goto(w, "idle") /\ packets' \in {packets, packets \cup {job[w].packet}}
  BY DEF UpsertPacket
<1>5. CASE Move(w, j, "observation") /\ packets' = packets \cup {job[w].packet}
  <2>1. /\ pc'[w] = "observation" /\ job'[w] = j
        /\ \A b \in Actors \ {w} : pc'[b] = pc[b] /\ job'[b] = job[b]
    BY <1>1, <1>5, MoveMoves
  <2> QED BY <1>1, <1>3, <1>5, <2>1 DEF Moves, UpsertPacket, Actors
<1>6. CASE Goto(w, "idle") /\ packets' \in {packets, packets \cup {job[w].packet}}
  BY <1>6, GotoMoves DEF UpsertPacket
<1> QED BY <1>4, <1>5, <1>6

\* InsertObservation tells its worker whether the row was new.
LEMMA InsertObservationMoves ==
  ASSUME TypeOK, NEW w \in Workers, InsertObservation(w)
  PROVE  LET p == <<job[w].packet, job[w].observer>> IN
           /\ Moves(w)
           /\ pc[w] = "observation" /\ pc'[w] \in {"idle", "scope", "filters"}
           /\ pc'[w] # "idle" => /\ job'[w].isNew = job[w].isNew
                                 /\ job'[w].inserted = (p \notin observations)
                                 /\ observations' = observations \cup {p}
           /\ observations' \in {observations, observations \cup {p}}
           /\ pc'[Boot] = pc[Boot] /\ job'[Boot] = job[Boot]
<1> DEFINE p == <<job[w].packet, job[w].observer>>
           j == [job[w] EXCEPT !.inserted = p \notin observations]
<1>1. w \in Actors /\ w # Boot /\ Boot \in Actors
  BY BootApart
<1>2. job[w] \in WorkerJob
  BY WorkerTyped DEF InsertObservation
<1>3. /\ j.packet = job[w].packet /\ j.observer = job[w].observer
      /\ j.isNew = job[w].isNew /\ j.inserted = (p \notin observations)
  BY <1>2 DEF WorkerJob
<1>4. \/ /\ \E next \in {"scope", "filters"} : Move(w, j, next)
         /\ observations' = observations \cup {p}
      \/ Goto(w, "idle") /\ observations' \in {observations, observations \cup {p}}
  BY DEF InsertObservation
<1>5. CASE /\ \E next \in {"scope", "filters"} : Move(w, j, next)
           /\ observations' = observations \cup {p}
  <2>1. PICK next \in {"scope", "filters"} : Move(w, j, next)
    BY <1>5
  <2>2. /\ pc'[w] = next /\ job'[w] = j
        /\ \A b \in Actors \ {w} : pc'[b] = pc[b] /\ job'[b] = job[b]
    BY <1>1, <2>1, MoveMoves
  <2> QED BY <1>1, <1>3, <1>5, <2>2 DEF Moves, InsertObservation, Actors
<1>6. CASE Goto(w, "idle") /\ observations' \in {observations, observations \cup {p}}
  BY <1>6, GotoMoves DEF InsertObservation
<1> QED BY <1>4, <1>5, <1>6

\* InsertChannelMessage goes on with a message only if it has stored it.
LEMMA InsertMessageMoves ==
  ASSUME TypeOK, NEW w \in Workers, InsertChannelMessage(w)
  PROVE  LET h == job[w].packet IN
           /\ Moves(w)
           /\ pc[w] = "message" /\ pc'[w] \in {"mark", "announce"} /\ job'[w] = job[w]
           /\ pc'[w] = "mark" => h \notin messages /\ messages' = messages \cup {h}
           /\ messages' \in {messages, messages \cup {h}} /\ UNCHANGED <<surfaced, skipped>>
           /\ pc'[Boot] = pc[Boot] /\ job'[Boot] = job[Boot]
<1> DEFINE h == job[w].packet
<1>1. w \in Actors /\ w # Boot
  BY BootApart
<1>2. \/ /\ StoreMessage(w, h)
         /\ Goto(w, IF h \in messages THEN "announce" ELSE "mark")
      \/ /\ StoreMessage(w, h) \/ UNCHANGED <<messages, surfaced>>
         /\ Goto(w, "announce")
  BY <1>1 DEF InsertChannelMessage, Attempt, Done
<1>3. UNCHANGED skipped
  BY <1>1 DEF InsertChannelMessage, Skip
<1>4. /\ StoreMessage(w, h) => messages' = messages \cup {h} /\ UNCHANGED surfaced
  BY <1>1 DEF StoreMessage
<1>5. PICK next \in {"mark", "announce"} :
        Goto(w, next) /\ (next = "mark" => h \notin messages /\ StoreMessage(w, h))
  BY <1>2
<1>6. /\ Moves(w) /\ pc'[w] = next /\ job'[w] = job[w]
      /\ pc'[Boot] = pc[Boot] /\ job'[Boot] = job[Boot]
  BY <1>5, GotoMoves DEF InsertChannelMessage, Late
<1> QED BY <1>2, <1>3, <1>4, <1>5, <1>6 DEF InsertChannelMessage

\* The other statements move as they say.
LEMMA SetDecryptedMoves ==
  ASSUME TypeOK, NEW w \in Workers, SetPacketDecrypted(w)
  PROVE  /\ Moves(w) /\ pc[w] = "mark" /\ pc'[w] = "tell" /\ job'[w] = job[w]
         /\ pc'[Boot] = pc[Boot] /\ job'[Boot] = job[Boot]
<1>1. Goto(w, "tell") /\ pc[w] = "mark"
  BY BootApart DEF SetPacketDecrypted, Logged, Attempt
<1> QED BY <1>1, GotoMoves DEF Late

\* After the channelMessage broadcast comes the packetObservation one,
LEMMA BroadcastMoves ==
  ASSUME TypeOK, NEW w \in Workers, BroadcastChannelMessage(w)
  PROVE  /\ Moves(w) /\ pc[w] = "tell" /\ pc'[w] = "announce" /\ job'[w] = job[w]
         /\ pc'[Boot] = pc[Boot] /\ job'[Boot] = job[Boot]
<1>1. Goto(w, "announce") /\ pc[w] = "tell"
  BY DEF BroadcastChannelMessage
<1> QED BY <1>1, GotoMoves DEF Late

\* after which the message is done.
LEMMA AnnounceMoves ==
  ASSUME TypeOK, NEW w \in Workers, Announce(w)
  PROVE  /\ Moves(w) /\ pc[w] = "announce" /\ pc'[w] = "idle"
         /\ pc'[Boot] = pc[Boot] /\ job'[Boot] = job[Boot]
<1>1. Goto(w, "idle") /\ pc[w] = "announce"
  BY DEF Announce
<1> QED BY <1>1, GotoMoves

\* A message is received by an idle worker, which has been told nothing.
LEMMA ReceiveMoves ==
  ASSUME TypeOK, NEW w \in Workers, Receive(w)
  PROVE  /\ \A v \in Workers \ {w} : pc'[v] = pc[v] /\ job'[v] = job[v]
         /\ pc[w] = "idle" /\ pc'[w] = "register"
         /\ ~job'[w].isNew /\ ~job'[w].inserted
         /\ life = "up"
         /\ pc'[Boot] = pc[Boot] /\ job'[Boot] = job[Boot]
         /\ UNCHANGED <<packets, decrypted, observations, messages, announced, firsts, told>>
         /\ UNCHANGED <<life, keyed, todo, skipped, surfaced>>
<1>1. w \in Actors /\ w # Boot /\ Boot \in Actors
  BY BootApart
<1>2. PICK h \in Packets, o \in Observers :
        job' = [job EXCEPT ![w] = [packet |-> h, observer |-> o,
                                   isNew |-> FALSE, inserted |-> FALSE]]
  BY DEF Receive
<1>3. job'[w] = [packet |-> h, observer |-> o, isNew |-> FALSE, inserted |-> FALSE]
  BY <1>1, <1>2 DEF TypeOK, ControlTyped
<1> QED BY <1>1, <1>2, <1>3 DEF Receive, TypeOK, ControlTyped, Actors, tables, events, boot

\* A received message claims nothing yet.
LEMMA ReceiveKeeps ==
  ASSUME TypeOK, NEW w \in Workers, Receive(w)
  PROVE  /\ \A p : Claims(p)' = Claims(p)
         /\ \A h : Tellers(h)' = Tellers(h) /\ Newcomers(h)' = Newcomers(h)
<1>1. ASSUME NEW p, NEW v \in Workers
      PROVE  v \in Claims(p)' <=> v \in Claims(p)
  BY ReceiveMoves DEF Claims
<1>2. ASSUME NEW h, NEW v \in Workers
      PROVE  /\ v \in Tellers(h)' <=> v \in Tellers(h)
             /\ v \in Newcomers(h)' <=> v \in Newcomers(h)
  BY ReceiveMoves DEF Tellers, Newcomers
<1> QED BY <1>1, <1>2 DEF Claims, Tellers, Newcomers

\* After a restart nobody claims anything.
LEMMA RestartMoves ==
  ASSUME Restart
  PROVE  /\ \A w \in Workers : pc'[w] = "idle"
         /\ pc'[Boot] = "list"
         /\ \A p : Claims(p)' = {}
         /\ \A h : Tellers(h)' = {} /\ Newcomers(h)' = {}
         /\ UNCHANGED <<packets, decrypted, observations, messages, announced, firsts, told,
                        surfaced>>
         /\ life' = "boot" /\ todo' = {}
<1>1. pc' = [a \in Actors |-> IF a = Boot THEN "list" ELSE "idle"]
  BY DEF Restart
<1>2. pc'[Boot] = "list" /\ \A w \in Workers : pc'[w] = "idle"
  BY <1>1, BootApart
<1> QED BY <1>2 DEF Restart, Claims, Tellers, Newcomers, tables, events

\* What the backfill and Expire leave alone.
LEMMA StillSteps ==
  ASSUME TypeOK,
         \/ \E w \in Workers : Expire(w)
         \/ ListUndecrypted \/ Scan \/ Decrypt(Boot)
         \/ UNCHANGED vars
  PROVE  Still /\ UNCHANGED <<packets, observations, announced, firsts, told>>
<1>1. CASE \E w \in Workers : Expire(w)
  BY <1>1 DEF Expire, Still, tables, events
<1>2. CASE ListUndecrypted
  BY <1>2, ListTypeOK DEF ListUndecrypted, Still, tables, events
<1>3. CASE Scan
  BY <1>3, ScanTypeOK DEF Scan, Still, tables, events
<1>4. CASE Decrypt(Boot)
  BY <1>4, BootDecryptTypeOK
     DEF Decrypt, UpsertChannel, InsertChannelMessage, SetPacketDecrypted, Still, events
<1>5. CASE UNCHANGED vars
  BY <1>5 DEF vars, control, tables, events, Still
<1> QED BY <1>1, <1>2, <1>3, <1>4, <1>5

-----------------------------------------------------------------------------
(***************************************************************************)
(* An observation is announced at most once                                *)
(***************************************************************************)

\* A new row is claimed by the worker that inserted it, and by no other: no
\* event of it has been sent, as events are of stored rows only.
LEMMA InsertObservationAnnouncing ==
  ASSUME TypeOK, Announcing, NEW w \in Workers, InsertObservation(w)
  PROVE  Announcing'
<1> DEFINE p == <<job[w].packet, job[w].observer>>
<1>1. /\ Moves(w) /\ pc[w] = "observation" /\ pc'[w] \in {"idle", "scope", "filters"}
      /\ pc'[w] # "idle" => /\ job'[w].inserted = (p \notin observations)
                            /\ observations' = observations \cup {p}
      /\ observations' \in {observations, observations \cup {p}}
      /\ UNCHANGED announced
  BY InsertObservationMoves DEF InsertObservation, events
<1>2. ~job[w].inserted
  BY <1>1 DEF Announcing, Early
<1>3. pc'[w] \notin Early /\ pc'[w] \notin Late
  BY <1>1 DEF Early, Late
<1>4. ASSUME NEW v \in Workers
      PROVE  (pc'[v] \in Early => ~job'[v].inserted) /\ (pc'[v] \in Late => job'[v].inserted)
  BY <1>1, <1>3 DEF Moves, Announcing
<1>5. ASSUME NEW q \in Pairs
      PROVE  \/ Claims(q)' = Claims(q)
             \/ q = p /\ p \notin observations /\ Claims(q)' \subseteq Claims(q) \cup {w}
                /\ observations' = observations \cup {p}
  <2>1. ASSUME NEW v \in Workers, v # w
        PROVE  v \in Claims(q)' <=> v \in Claims(q)
    BY <1>1, <2>1 DEF Moves, Claims
  <2>2. w \notin Claims(q)
    BY <1>2 DEF Claims
  <2>3. w \in Claims(q)' => q = p /\ p \notin observations /\ observations' = observations \cup {p}
    BY <1>1 DEF Claims, Moves
  <2> QED BY <2>1, <2>2, <2>3 DEF Claims
<1>6. AnnouncedOnce'
  BY <1>1 DEF Announcing, AnnouncedOnce
<1>7. ASSUME NEW q \in Pairs
      PROVE  /\ AtMostOneOf(Claims(q))'
             /\ Claims(q)' # {} => q \in observations' /\ announced'[q] = 0
  <2>1. CASE Claims(q)' = Claims(q)
    BY <2>1, <1>1 DEF Announcing, AtMostOneOf
  <2>2. CASE q = p /\ p \notin observations /\ Claims(q)' \subseteq Claims(q) \cup {w}
             /\ observations' = observations \cup {p}
    <3>1. Claims(q) = {}
      BY <2>2 DEF Announcing
    <3>2. announced[q] = 0
      BY <2>2 DEF Announcing, AnnouncedOnce, TypeOK, EventsTyped
    <3> QED BY <2>2, <3>1, <3>2, <1>1 DEF AtMostOneOf
  <2> QED BY <1>5, <2>1, <2>2
<1> QED BY <1>4, <1>6, <1>7 DEF Announcing

\* Announcing a row gives up the only claim on it.
LEMMA AnnounceAnnouncing ==
  ASSUME TypeOK, Announcing, NEW w \in Workers, Announce(w)
  PROVE  Announcing'
<1>0. PICK p \in Pairs : p = <<job[w].packet, job[w].observer>>
  BY WorkerTyped DEF Announce
<1>1. /\ Moves(w) /\ pc[w] = "announce" /\ pc'[w] = "idle"
      /\ announced' = [announced EXCEPT ![p] = @ + 1] /\ UNCHANGED observations
  BY <1>0, AnnounceMoves DEF Announce, tables
<1>2. job[w].inserted
  BY <1>1 DEF Announcing, Late
<1>3. w \in Claims(p)
  BY <1>0, <1>1, <1>2 DEF Claims
<1>4. p \in observations /\ announced[p] = 0 /\ AtMostOneOf(Claims(p))
  BY <1>2, <1>3 DEF Announcing
<1>5. /\ announced'[p] = 1
      /\ \A q \in Pairs \ {p} : announced'[q] = announced[q]
  BY <1>1, <1>2, <1>4 DEF TypeOK, EventsTyped
<1>6. ASSUME NEW q \in Pairs
      PROVE  Claims(q)' = Claims(q) \ {w}
  <2>1. ASSUME NEW v \in Workers
        PROVE  v \in Claims(q)' <=> v \in Claims(q) /\ v # w
    BY <1>1 DEF Moves, Claims
  <2> QED BY <2>1 DEF Claims
<1>7. Claims(p)' = {}
  BY <1>3, <1>4, <1>6 DEF AtMostOneOf
<1>8. AnnouncedOnce'
  BY <1>1, <1>4, <1>5 DEF Announcing, AnnouncedOnce
<1>9. ASSUME NEW q \in Pairs
      PROVE  /\ AtMostOneOf(Claims(q))'
             /\ Claims(q)' # {} => q \in observations' /\ announced'[q] = 0
  <2>1. CASE q = p
    BY <2>1, <1>7 DEF AtMostOneOf
  <2>2. CASE q # p
    BY <2>2, <1>1, <1>5, <1>6 DEF Announcing, AtMostOneOf
  <2> QED BY <2>1, <2>2
<1>10. ASSUME NEW v \in Workers
       PROVE  (pc'[v] \in Early => ~job'[v].inserted) /\ (pc'[v] \in Late => job'[v].inserted)
  BY <1>1 DEF Moves, Announcing, Early, Late
<1> QED BY <1>8, <1>9, <1>10 DEF Announcing

\* Every statement of a worker keeps Announcing,
LEMMA WorkerAnnouncing ==
  ASSUME TypeOK, Announcing, NEW w \in Workers, Worker(w)
  PROVE  Announcing'
<1>1. CASE PlainStep(w)
  BY <1>1, PlainMoves, AnnouncingStays DEF PlainStep, core
<1>2. CASE UpsertPacket(w)
  <2>1. ~job[w].inserted
    BY <1>2, UpsertPacketMoves DEF Announcing, Early
  <2>2. pc'[w] \notin Late /\ pc[w] \in Early
    BY <1>2, UpsertPacketMoves DEF Early, Late
  <2> QED BY <1>2, <2>1, <2>2, UpsertPacketMoves, AnnouncingStays DEF UpsertPacket, events
<1>3. CASE InsertChannelMessage(w) \/ SetPacketDecrypted(w) \/ BroadcastChannelMessage(w)
  <2>1. /\ Moves(w) /\ job'[w] = job[w]
        /\ pc[w] \in {"message", "mark", "tell"} /\ pc'[w] \in {"mark", "tell", "announce"}
    BY <1>3, InsertMessageMoves, SetDecryptedMoves, BroadcastMoves
  <2>2. pc[w] \in Late /\ pc'[w] \notin Early /\ pc'[w] # "idle"
    BY <2>1 DEF Early, Late
  <2>3. job[w].inserted
    BY <2>2 DEF Announcing
  <2>4. UNCHANGED <<observations, announced>>
    BY <1>3 DEF InsertChannelMessage, SetPacketDecrypted, BroadcastChannelMessage, events,
                tables
  <2> QED BY <2>1, <2>2, <2>3, <2>4, AnnouncingStays
<1> QED BY <1>1, <1>2, <1>3, WorkerCases, InsertObservationAnnouncing, AnnounceAnnouncing
        DEF Pivotal

\* and so does every step.
LEMMA NextAnnouncing ==
  ASSUME TypeOK, Announcing, [Next]_vars
  PROVE  Announcing'
<1>1. ASSUME NEW w \in Workers, Receive(w)
      PROVE  Announcing'
  <2>1. ASSUME NEW v \in Workers
        PROVE  (pc'[v] \in Early => ~job'[v].inserted) /\ (pc'[v] \in Late => job'[v].inserted)
    <3>1. "register" \notin Late
      BY DEF Late
    <3> QED BY <1>1, <3>1, ReceiveMoves DEF Announcing
  <2> QED BY <1>1, <2>1, ReceiveMoves, ReceiveKeeps DEF Announcing, AnnouncedOnce, AtMostOneOf
<1>2. CASE Restart
  <2>1. ASSUME NEW v \in Workers
        PROVE  pc'[v] \notin Early /\ pc'[v] \notin Late
    BY <1>2, RestartMoves DEF Early, Late
  <2> QED BY <1>2, <2>1, RestartMoves DEF Announcing, AnnouncedOnce, AtMostOneOf
<1> QED BY <1>1, <1>2, NextCases, WorkerAnnouncing, StillSteps, StillStays

-----------------------------------------------------------------------------
(***************************************************************************)
(* A message is told of at most once                                       *)
(***************************************************************************)

\* A worker may tell of a message only if it stored it itself, when nobody told
\* of it yet.
LEMMA InsertMessageTelling ==
  ASSUME TypeOK, Telling, NEW w \in Workers, InsertChannelMessage(w)
  PROVE  Telling'
<1>0. PICK m \in Packets : m = job[w].packet
  BY WorkerTyped DEF InsertChannelMessage
<1>1. /\ Moves(w) /\ pc[w] = "message" /\ pc'[w] \in {"mark", "announce"} /\ job'[w] = job[w]
      /\ pc'[w] = "mark" => m \notin messages /\ messages' = messages \cup {m}
      /\ messages' \in {messages, messages \cup {m}} /\ UNCHANGED <<surfaced, told>>
  BY <1>0, InsertMessageMoves DEF InsertChannelMessage, events
<1>2. ASSUME NEW h \in Packets
      PROVE  Tellers(h)' = IF pc'[w] = "mark" /\ h = m THEN Tellers(h) \cup {w} ELSE Tellers(h)
  <2>1. ASSUME NEW v \in Workers, v # w
        PROVE  v \in Tellers(h)' <=> v \in Tellers(h)
    BY <1>1, <2>1 DEF Moves, Tellers
  <2>2. w \notin Tellers(h) /\ (w \in Tellers(h)' <=> pc'[w] = "mark" /\ h = m)
    BY <1>0, <1>1 DEF Tellers
  <2> QED BY <2>1, <2>2 DEF Tellers
<1>3. m \notin messages => Tellers(m) = {} /\ told[m] = 0
  BY DEF Telling, ToldOnce, TypeOK, EventsTyped
<1>4. ASSUME NEW h \in Packets
      PROVE  /\ AtMostOneOf(Tellers(h))'
             /\ Tellers(h)' # {} => h \in messages' \ surfaced' /\ told'[h] = 0
  <2>1. CASE pc'[w] = "mark" /\ h = m
    BY <2>1, <1>1, <1>2, <1>3 DEF Telling, AtMostOneOf
  <2>2. CASE ~ (pc'[w] = "mark" /\ h = m)
    BY <2>2, <1>1, <1>2 DEF Telling, AtMostOneOf
  <2> QED BY <2>1, <2>2
<1>5. ToldOnce' /\ surfaced' \subseteq messages'
  BY <1>1 DEF Telling, ToldOnce
<1> QED BY <1>4, <1>5 DEF Telling

\* Telling of a message takes away the only one who could tell of it.
LEMMA BroadcastTelling ==
  ASSUME TypeOK, Telling, NEW w \in Workers, BroadcastChannelMessage(w)
  PROVE  Telling'
<1>0. PICK m \in Packets : m = job[w].packet
  BY WorkerTyped DEF BroadcastChannelMessage
<1>1. /\ Moves(w) /\ pc[w] = "tell" /\ pc'[w] = "announce"
      /\ told' = [told EXCEPT ![m] = @ + 1] /\ UNCHANGED <<messages, surfaced>>
  BY <1>0, BroadcastMoves DEF BroadcastChannelMessage, tables, boot
<1>2. w \in Tellers(m)
  BY <1>0, <1>1 DEF Tellers
<1>3. m \in messages \ surfaced /\ told[m] = 0 /\ AtMostOneOf(Tellers(m))
  BY <1>2 DEF Telling
<1>4. told'[m] = 1 /\ \A h \in Packets \ {m} : told'[h] = told[h]
  BY <1>1, <1>3 DEF TypeOK, EventsTyped
<1>5. ASSUME NEW h \in Packets
      PROVE  Tellers(h)' = Tellers(h) \ {w}
  <2>1. ASSUME NEW v \in Workers
        PROVE  v \in Tellers(h)' <=> v \in Tellers(h) /\ v # w
    BY <1>1 DEF Moves, Tellers
  <2> QED BY <2>1 DEF Tellers
<1>6. Tellers(m)' = {}
  BY <1>2, <1>3, <1>5 DEF AtMostOneOf
<1>7. ToldOnce'
  BY <1>1, <1>3, <1>4 DEF Telling, ToldOnce
<1>8. ASSUME NEW h \in Packets
      PROVE  /\ AtMostOneOf(Tellers(h))'
             /\ Tellers(h)' # {} => h \in messages' \ surfaced' /\ told'[h] = 0
  <2>1. CASE h = m
    BY <2>1, <1>6 DEF AtMostOneOf
  <2>2. CASE h # m
    BY <2>2, <1>1, <1>4, <1>5 DEF Telling, AtMostOneOf
  <2> QED BY <2>1, <2>2
<1> QED BY <1>1, <1>7, <1>8 DEF Telling

\* Every statement of a worker keeps Telling,
LEMMA WorkerTelling ==
  ASSUME TypeOK, Announcing, Telling, NEW w \in Workers, Worker(w)
  PROVE  Telling'
<1>1. CASE PlainStep(w)
  BY <1>1, PlainMoves, TellersStay, TellingStays DEF PlainStep, core
<1>2. CASE UpsertPacket(w) \/ InsertObservation(w) \/ Announce(w)
  <2>1. Moves(w) /\ pc[w] \notin {"mark", "tell"} /\ pc'[w] \notin {"mark", "tell"}
    BY <1>2, UpsertPacketMoves, InsertObservationMoves, AnnounceMoves
  <2>2. UNCHANGED <<messages, surfaced, told>>
    BY <1>2 DEF UpsertPacket, InsertObservation, Announce, events, boot, tables
  <2> QED BY <2>1, <2>2, TellersStay, TellingStays
<1>3. CASE SetPacketDecrypted(w)
  <2>1. UNCHANGED <<messages, surfaced, told>>
    BY <1>3 DEF SetPacketDecrypted, events, boot
  <2> QED BY <1>3, <2>1, SetDecryptedMoves, TellersStay, TellingStays
<1> QED BY <1>1, <1>2, <1>3, WorkerCases, InsertMessageTelling, BroadcastTelling DEF Pivotal

\* so does the backfill, whose messages are surfaced and never told of,
LEMMA BootTelling ==
  ASSUME TypeOK, Telling, Decrypt(Boot)
  PROVE  Telling'
<1>1. /\ \A h : Tellers(h)' = Tellers(h)
      /\ UNCHANGED told
  BY StillSteps, StillStays
<1>2. CASE UNCHANGED <<messages, surfaced>>
  BY <1>1, <1>2, TellingStays
<1>3. CASE StoreMessage(Boot, job[Boot].packet)
  <2>1. PICK m : m = job[Boot].packet
    OBVIOUS
  <2>2. /\ messages' = messages \cup {m}
        /\ surfaced' = IF m \notin messages THEN surfaced \cup {m} ELSE surfaced
    BY <1>3, <2>1 DEF StoreMessage
  <2>3. ASSUME NEW h \in Packets
        PROVE  /\ told'[h] <= 1
               /\ told'[h] = 1 => h \in messages' \ surfaced'
               /\ AtMostOneOf(Tellers(h))'
               /\ Tellers(h)' # {} => h \in messages' \ surfaced' /\ told'[h] = 0
    BY <1>1, <2>2 DEF Telling, ToldOnce, AtMostOneOf
  <2> QED BY <2>2, <2>3 DEF Telling, ToldOnce
<1> QED BY <1>2, <1>3, BootApart, InsertMessageSide, UpsertChannelSide, SetDecryptedSide
        DEF Decrypt

\* and so does every step.
LEMMA NextTelling ==
  ASSUME TypeOK, Announcing, Telling, [Next]_vars
  PROVE  Telling'
<1>1. ASSUME NEW w \in Workers, Receive(w)
      PROVE  Telling'
  BY <1>1, ReceiveMoves, ReceiveKeeps, TellingStays
<1>2. CASE Restart
  BY <1>2, RestartMoves DEF Telling, ToldOnce, AtMostOneOf
<1>3. CASE (\E w \in Workers : Expire(w)) \/ ListUndecrypted \/ Scan \/ UNCHANGED vars
  <2>1. UNCHANGED <<messages, surfaced>>
    BY <1>3 DEF Expire, ListUndecrypted, Scan, vars, tables, boot
  <2> QED BY <1>3, <2>1, StillSteps, StillStays
<1> QED BY <1>1, <1>2, <1>3, NextCases, WorkerTelling, BootTelling

-----------------------------------------------------------------------------
(***************************************************************************)
(* A packet is new at most once                                            *)
(***************************************************************************)

\* A packet is new to the worker whose upsert created its row, and no other.
LEMMA UpsertPacketCreating ==
  ASSUME TypeOK, Creating, NEW w \in Workers, UpsertPacket(w)
  PROVE  Creating'
<1>0. PICK m \in Packets : m = job[w].packet
  BY WorkerTyped DEF UpsertPacket
<1>1. /\ Moves(w)
      /\ pc'[w] # "idle" => /\ job'[w].isNew = (m \notin packets)
                            /\ m \in packets'
      /\ packets \subseteq packets' /\ UNCHANGED firsts
  BY <1>0, UpsertPacketMoves DEF UpsertPacket, events
<1>2. ASSUME NEW h \in Packets
      PROVE  \/ Newcomers(h)' \subseteq Newcomers(h)
             \/ h = m /\ m \notin packets /\ m \in packets'
                /\ Newcomers(h)' \subseteq Newcomers(h) \cup {w}
  <2>1. ASSUME NEW v \in Workers, v # w
        PROVE  v \in Newcomers(h)' <=> v \in Newcomers(h)
    BY <1>1, <2>1 DEF Moves, Newcomers
  <2>2. w \in Newcomers(h)' => h = m /\ m \notin packets /\ m \in packets'
    BY <1>0, <1>1 DEF Newcomers, Moves
  <2> QED BY <2>1, <2>2 DEF Newcomers
<1>3. m \notin packets => Newcomers(m) = {} /\ firsts[m] = 0
  BY DEF Creating, FirstOnce, TypeOK, EventsTyped
<1>4. ASSUME NEW h \in Packets
      PROVE  /\ firsts'[h] = 1 \/ Newcomers(h)' # {} => h \in packets'
             /\ AtMostOneOf(Newcomers(h))'
             /\ Newcomers(h)' # {} => firsts'[h] = 0
  <2>1. CASE Newcomers(h)' \subseteq Newcomers(h)
    BY <2>1, <1>1 DEF Creating, AtMostOneOf
  <2>2. CASE h = m /\ m \notin packets /\ m \in packets'
             /\ Newcomers(h)' \subseteq Newcomers(h) \cup {w}
    BY <2>2, <1>1, <1>3 DEF AtMostOneOf
  <2> QED BY <1>2, <2>1, <2>2
<1> QED BY <1>1, <1>4 DEF Creating, FirstOnce

\* Its one first event ends that claim.
LEMMA AnnounceCreating ==
  ASSUME TypeOK, Creating, NEW w \in Workers, Announce(w)
  PROVE  Creating'
<1>0. PICK m \in Packets : m = job[w].packet
  BY WorkerTyped DEF Announce
<1>1. /\ Moves(w) /\ pc[w] = "announce" /\ pc'[w] = "idle"
      /\ firsts' = [firsts EXCEPT ![m] = IF job[w].isNew THEN @ + 1 ELSE @]
      /\ UNCHANGED packets
  BY <1>0, AnnounceMoves DEF Announce, tables
<1>2. ASSUME NEW h \in Packets
      PROVE  Newcomers(h)' = Newcomers(h) \ {w}
  <2>1. ASSUME NEW v \in Workers
        PROVE  v \in Newcomers(h)' <=> v \in Newcomers(h) /\ v # w
    BY <1>1 DEF Moves, Newcomers
  <2> QED BY <2>1 DEF Newcomers
<1>3. \A h \in Packets \ {m} : firsts'[h] = firsts[h]
  BY <1>1 DEF TypeOK, EventsTyped
<1>4. CASE job[w].isNew
  <2>1. w \in Newcomers(m)
    BY <1>0, <1>1, <1>4 DEF Newcomers
  <2>2. m \in packets /\ firsts[m] = 0 /\ AtMostOneOf(Newcomers(m))
    BY <2>1 DEF Creating
  <2>3. firsts'[m] = 1
    BY <1>1, <1>4, <2>2 DEF TypeOK, EventsTyped
  <2>4. Newcomers(m)' = {}
    BY <1>2, <2>1, <2>2 DEF AtMostOneOf
  <2> QED BY <1>1, <1>2, <1>3, <2>2, <2>3, <2>4 DEF Creating, FirstOnce, AtMostOneOf
<1>5. CASE ~job[w].isNew
  <2>1. firsts'[m] = firsts[m]
    BY <1>1, <1>5 DEF TypeOK, EventsTyped
  <2> QED BY <1>1, <1>2, <1>3, <2>1 DEF Creating, FirstOnce, AtMostOneOf
<1> QED BY <1>4, <1>5

\* Every statement of a worker keeps Creating,
LEMMA WorkerCreating ==
  ASSUME TypeOK, Announcing, Creating, NEW w \in Workers, Worker(w)
  PROVE  Creating'
<1>1. CASE PlainStep(w)
  BY <1>1, PlainMoves, CreatingStays DEF PlainStep, core
<1>2. CASE InsertObservation(w)
  BY <1>2, InsertObservationMoves, CreatingStays DEF InsertObservation, events
<1>3. CASE InsertChannelMessage(w) \/ SetPacketDecrypted(w) \/ BroadcastChannelMessage(w)
  <2>1. Moves(w) /\ job'[w] = job[w]
    BY <1>3, InsertMessageMoves, SetDecryptedMoves, BroadcastMoves
  <2>2. UNCHANGED <<packets, firsts>>
    BY <1>3 DEF InsertChannelMessage, SetPacketDecrypted, BroadcastChannelMessage, events,
                tables
  <2> QED BY <2>1, <2>2, CreatingStays
<1> QED BY <1>1, <1>2, <1>3, WorkerCases, UpsertPacketCreating, AnnounceCreating DEF Pivotal

\* and so does every step.
LEMMA NextCreating ==
  ASSUME TypeOK, Announcing, Creating, [Next]_vars
  PROVE  Creating'
<1>1. ASSUME NEW w \in Workers, Receive(w)
      PROVE  Creating'
  BY <1>1, ReceiveMoves, ReceiveKeeps DEF Creating, FirstOnce, AtMostOneOf
<1>2. CASE Restart
  BY <1>2, RestartMoves DEF Creating, FirstOnce, AtMostOneOf
<1> QED BY <1>1, <1>2, NextCases, WorkerCreating, StillSteps, StillStays

-----------------------------------------------------------------------------
(***************************************************************************)
(* A marked packet has its message                                         *)
(***************************************************************************)

\* A worker that is past UpsertPacket has its packet row, and marks only after
\* it stored the message.
LEMMA WorkerMarking ==
  ASSUME TypeOK, Announcing, Marking, NEW w \in Workers, Worker(w)
  PROVE  Marking'
<1>1. CASE PlainStep(w)
  <2>1. pc'[w] \in {"observation"} \cup Shared \cup Late => pc[w] \in Shared \cup Late
    BY <1>1, PlainMoves
  <2>2. "mark" # "idle" /\ "idle" \notin {"observation"} \cup Shared \cup Late
    BY DEF Shared, Late
  <2>3. \A v \in Workers : pc'[v] \in {"observation"} \cup Shared \cup Late
                             => job'[v].packet \in packets
    BY <1>1, <2>1, <2>2, PlainMoves DEF Marking, Moves
  <2>4. \A a \in Actors : pc'[a] = "mark" => job'[a].packet \in messages
    BY <1>1, PlainMoves DEF Marking, Moves, Actors
  <2>5. pc'[Boot] \in Decryption => job'[Boot].packet \in packets
    BY <1>1, PlainMoves DEF Marking
  <2> QED BY <1>1, <2>3, <2>4, <2>5 DEF PlainStep, core, Marking, MarkedHasMessage
<1>2. CASE UpsertPacket(w)
  <2>1. UNCHANGED <<decrypted, messages, todo>>
    BY <1>2 DEF UpsertPacket, boot
  <2>2. "idle" \notin {"observation"} \cup Shared \cup Late
    BY DEF Shared, Late
  <2>3. \A v \in Workers : pc'[v] \in {"observation"} \cup Shared \cup Late
                             => job'[v].packet \in packets'
    BY <1>2, <2>2, UpsertPacketMoves DEF Marking, Moves
  <2>4. \A a \in Actors : pc'[a] = "mark" => job'[a].packet \in messages
    BY <1>2, UpsertPacketMoves DEF Marking, Moves, Actors
  <2>5. pc'[Boot] \in Decryption => job'[Boot].packet \in packets'
    BY <1>2, UpsertPacketMoves DEF Marking
  <2>6. packets \subseteq packets'
    BY <1>2, UpsertPacketMoves
  <2> QED BY <2>1, <2>3, <2>4, <2>5, <2>6 DEF Marking, MarkedHasMessage
<1>3. CASE Pivotal(w) /\ ~UpsertPacket(w)
  <2>1. /\ Moves(w) /\ pc[w] \in {"observation"} \cup Late
        /\ pc'[Boot] = pc[Boot] /\ job'[Boot] = job[Boot]
    BY <1>3, InsertObservationMoves, InsertMessageMoves, SetDecryptedMoves, BroadcastMoves,
       AnnounceMoves DEF Pivotal, Late
  <2>2. job[w].packet \in packets
    BY <2>1 DEF Marking
  <2>3. UNCHANGED <<packets, todo>>
    BY <1>3 DEF Pivotal, InsertObservation, InsertChannelMessage, SetPacketDecrypted,
                BroadcastChannelMessage, Announce, tables, boot
  <2>4. messages \subseteq messages' /\ messages' \subseteq messages \cup {job[w].packet}
        /\ (pc'[w] = "mark" => job'[w].packet \in messages')
    <3>1. CASE InsertChannelMessage(w)
      BY <3>1, InsertMessageMoves
    <3>2. CASE ~InsertChannelMessage(w)
      <4>1. UNCHANGED messages
        BY <1>3, <3>2 DEF Pivotal, InsertObservation, SetPacketDecrypted,
                          BroadcastChannelMessage, Announce, tables
      <4>2. pc'[w] # "mark"
        BY <1>3, <3>2, InsertObservationMoves, SetDecryptedMoves, BroadcastMoves, AnnounceMoves
           DEF Pivotal
      <4> QED BY <4>1, <4>2
    <3> QED BY <3>1, <3>2
  <2>5. decrypted' \subseteq messages'
    <3>1. CASE SetPacketDecrypted(w)
      <4>1. job[w].packet \in messages
        BY <3>1, BootApart DEF SetPacketDecrypted, Marking
      <4> QED BY <3>1, <4>1, <2>4, BootApart, SetDecryptedSide DEF Marking, MarkedHasMessage
    <3>2. CASE ~SetPacketDecrypted(w)
      <4>1. UNCHANGED decrypted
        BY <1>3, <3>2 DEF Pivotal, InsertObservation, InsertChannelMessage,
                          BroadcastChannelMessage, Announce, tables
      <4> QED BY <4>1, <2>4 DEF Marking, MarkedHasMessage
    <3> QED BY <3>1, <3>2
  <2>6. "idle" \notin {"observation"} \cup Shared \cup Late
    BY DEF Shared, Late
  <2>7. \A v \in Workers : pc'[v] \in {"observation"} \cup Shared \cup Late
                             => job'[v].packet \in packets
    BY <2>1, <2>2, <2>6 DEF Marking, Moves
  <2>8. \A a \in Actors : pc'[a] = "mark" => job'[a].packet \in messages'
    BY <2>1, <2>4 DEF Marking, Moves, Actors
  <2> QED BY <2>1, <2>2, <2>3, <2>4, <2>5, <2>7, <2>8 DEF Marking, MarkedHasMessage
<1> QED BY <1>1, <1>2, <1>3, WorkerCases

\* The backfill's share: its list and its packet are rows of packets, and it
\* marks only what is a message.
LEMMA BootMarking ==
  ASSUME TypeOK, Marking, ListUndecrypted \/ Scan \/ Decrypt(Boot)
  PROVE  Marking'
<1>1. Still /\ UNCHANGED packets
  BY StillSteps
<1>2. "mark" \in Late
  BY DEF Late
<1>3. \A w \in Workers : /\ pc'[w] \in {"observation"} \cup Shared \cup Late
                              => job'[w].packet \in packets
                         /\ pc'[w] = "mark" => job'[w].packet \in messages
  BY <1>1, BootApart DEF Still, Marking
<1>4. CASE ListUndecrypted
  <2>1. pc'[Boot] = "scan" /\ todo' \subseteq packets \cup todo
        /\ UNCHANGED <<messages, decrypted>>
    BY <1>4, BootApart, MoveMoves DEF ListUndecrypted, Goto, tables
  <2> QED BY <1>1, <1>3, <2>1 DEF Marking, MarkedHasMessage, Actors, Decryption
<1>5. CASE Scan
  <2>1. /\ todo' \subseteq todo /\ UNCHANGED <<messages, decrypted>>
        /\ \/ \E h \in todo : Move(Boot, [packet |-> h], "channel")
           \/ Goto(Boot, "scan") \/ Goto(Boot, "idle")
    BY <1>5 DEF Scan, tables
  <2>2. /\ pc'[Boot] \in Decryption => job'[Boot].packet \in packets
        /\ pc'[Boot] # "mark"
    <3>1. CASE \E h \in todo : Move(Boot, [packet |-> h], "channel")
      <4>1. PICK h \in todo : Move(Boot, [packet |-> h], "channel")
        BY <3>1
      <4>2. pc'[Boot] = "channel" /\ job'[Boot] = [packet |-> h]
        BY <4>1, BootApart, MoveMoves
      <4> QED BY <4>2 DEF Marking
    <3>2. CASE Goto(Boot, "scan") \/ Goto(Boot, "idle")
      <4>1. pc'[Boot] \in {"scan", "idle"}
        BY <3>2, BootApart, MoveMoves DEF Goto
      <4> QED BY <4>1 DEF Decryption
    <3> QED BY <2>1, <3>1, <3>2
  <2> QED BY <1>1, <1>3, <2>1, <2>2 DEF Marking, MarkedHasMessage, Actors
<1>6. CASE Decrypt(Boot)
  <2>1. pc[Boot] \in Decryption /\ job[Boot].packet \in packets
    BY <1>6 DEF Decrypt, UpsertChannel, InsertChannelMessage, SetPacketDecrypted, Decryption,
                Marking
  <2>2. /\ pc'[Boot] \in {"scan", "message", "mark"}
        /\ pc'[Boot] # "scan" => job'[Boot] = job[Boot]
    BY <1>6, BootDecryptTypeOK
  <2>3. UNCHANGED todo
    BY <1>6 DEF Decrypt, UpsertChannel, InsertChannelMessage, SetPacketDecrypted, boot
  <2>4. messages \subseteq messages' /\ messages' \subseteq messages \cup {job[Boot].packet}
        /\ (pc'[Boot] = "mark" => job[Boot].packet \in messages')
    <3>1. CASE UpsertChannel(Boot)
      <4>1. pc'[Boot] \in {"message", "scan"}
        BY <3>1, BootApart, MoveMoves DEF UpsertChannel, Attempt, Done, Goto
      <4> QED BY <3>1, <4>1 DEF UpsertChannel
    <3>2. CASE InsertChannelMessage(Boot)
      <4>1. \/ StoreMessage(Boot, job[Boot].packet)
            \/ UNCHANGED messages /\ Goto(Boot, "scan")
        BY <3>2 DEF InsertChannelMessage, Attempt, Done
      <4>2. CASE StoreMessage(Boot, job[Boot].packet)
        BY <4>2 DEF StoreMessage
      <4>3. CASE UNCHANGED messages /\ Goto(Boot, "scan")
        BY <4>3, BootApart, MoveMoves DEF Goto
      <4> QED BY <4>1, <4>2, <4>3
    <3>3. CASE SetPacketDecrypted(Boot)
      BY <3>3, BootApart, SetDecryptedSide, MoveMoves DEF SetPacketDecrypted, Goto
    <3> QED BY <1>6, <3>1, <3>2, <3>3 DEF Decrypt
  <2>5. decrypted' \subseteq messages'
    <3>1. CASE SetPacketDecrypted(Boot)
      <4>1. job[Boot].packet \in messages
        BY <3>1, BootApart DEF SetPacketDecrypted, Marking
      <4> QED BY <3>1, <4>1, <2>4, BootApart, SetDecryptedSide DEF Marking, MarkedHasMessage
    <3>2. CASE ~SetPacketDecrypted(Boot)
      <4>1. UNCHANGED decrypted
        BY <1>6, <3>2 DEF Decrypt, UpsertChannel, InsertChannelMessage
      <4> QED BY <4>1, <2>4 DEF Marking, MarkedHasMessage
    <3> QED BY <3>1, <3>2
  <2>6. /\ pc'[Boot] \in Decryption => job'[Boot].packet \in packets
        /\ pc'[Boot] = "mark" => job'[Boot].packet \in messages'
    BY <2>1, <2>2, <2>4 DEF Decryption
  <2> QED BY <1>1, <1>3, <2>1, <2>3, <2>4, <2>5, <2>6 DEF Marking, MarkedHasMessage, Actors
<1> QED BY <1>4, <1>5, <1>6

\* Every step keeps Marking.
LEMMA NextMarking ==
  ASSUME TypeOK, Announcing, Marking, [Next]_vars
  PROVE  Marking'
<1>1. ASSUME NEW w \in Workers, Receive(w)
      PROVE  Marking'
  <2>1. "register" \notin {"observation"} \cup Shared \cup Late
    BY DEF Shared, Late
  <2> QED BY <1>1, <2>1, ReceiveMoves DEF Marking, MarkedHasMessage, Actors
<1>2. CASE Restart
  <2>1. \A w \in Workers : pc'[w] \notin {"observation"} \cup Shared \cup Late
    BY <1>2, RestartMoves DEF Shared, Late
  <2>2. pc'[Boot] \notin Decryption /\ \A a \in Actors : pc'[a] # "mark"
    BY <1>2, RestartMoves DEF Decryption, Actors
  <2> QED BY <1>2, <2>1, <2>2, RestartMoves DEF Marking, MarkedHasMessage
<1>3. CASE (\E w \in Workers : Expire(w)) \/ UNCHANGED vars
  <2>1. UNCHANGED <<packets, decrypted, messages, todo, pc, job>>
    BY <1>3 DEF Expire, vars, tables, control, boot
  <2> QED BY <2>1 DEF Marking, MarkedHasMessage
<1> QED BY <1>1, <1>2, <1>3, NextCases, WorkerMarking, BootMarking

-----------------------------------------------------------------------------
(***************************************************************************)
(* A boot surfaces what it can decrypt                                     *)
(***************************************************************************)

\* A worker runs only when main has started it, and then the backfill is over.
LEMMA WorkerRuns ==
  ASSUME TypeOK, Backfilling, NEW w \in Workers, pc[w] # "idle"
  PROVE  life = "up" /\ pc[Boot] = "idle"
BY DEF Backfilling, TypeOK, BootTyped

\* Nothing a worker does concerns the backfill, which is over by then.
LEMMA WorkerBackfilling ==
  ASSUME TypeOK, Announcing, Backfilling, NEW w \in Workers, Worker(w) \/ Receive(w) \/ Expire(w)
  PROVE  Backfilling'
<1>1. /\ life = "up" /\ pc[Boot] = "idle"
      /\ life' = life /\ pc'[Boot] = pc[Boot]
  <2>1. CASE Worker(w)
    <3>1. CASE PlainStep(w)
      <4>1. pc[w] # "idle"
        BY <3>1, PlainMoves DEF Moves
      <4> QED BY <3>1, <4>1, PlainMoves, WorkerRuns DEF PlainStep, core
    <3>2. CASE Pivotal(w)
      <4>1. Moves(w) /\ pc'[Boot] = pc[Boot]
        BY <3>2, UpsertPacketMoves, InsertObservationMoves, InsertMessageMoves,
           SetDecryptedMoves, BroadcastMoves, AnnounceMoves DEF Pivotal
      <4>2. UNCHANGED life
        BY <3>2 DEF Pivotal, UpsertPacket, InsertObservation, InsertChannelMessage,
                    SetPacketDecrypted, BroadcastChannelMessage, Announce, boot
      <4> QED BY <4>1, <4>2, WorkerRuns DEF Moves
    <3> QED BY <2>1, <3>1, <3>2, WorkerCases
  <2>2. CASE Receive(w)
    BY <2>2, ReceiveMoves DEF Backfilling
  <2>3. CASE Expire(w)
    BY <2>3, WorkerRuns DEF Expire, boot
  <2> QED BY <2>1, <2>2, <2>3
<1> QED BY <1>1 DEF Backfilling, Decryption

\* A step of the backfill accounts for the packet in its hands: it is passed
\* on, stored, or skipped.
LEMMA BootBackfilling ==
  ASSUME TypeOK, Marking, Backfilling, ListUndecrypted \/ Scan \/ Decrypt(Boot)
  PROVE  Backfilling'
<1>1. Still /\ UNCHANGED packets
  BY StillSteps
<1>2. UNCHANGED keyed
  BY DEF ListUndecrypted, Scan, Decrypt, UpsertChannel, InsertChannelMessage,
         SetPacketDecrypted, boot
<1>3. pc[Boot] # "idle" /\ life = "boot" /\ \A w \in Workers : pc'[w] = "idle"
  <2>1. pc[Boot] # "idle"
    BY DEF ListUndecrypted, Scan, Decrypt, UpsertChannel, InsertChannelMessage,
           SetPacketDecrypted
  <2> QED BY <1>1, <2>1 DEF Backfilling, TypeOK, BootTyped, Still
<1>4. CASE ListUndecrypted
  <2>1. pc'[Boot] = "scan"
    BY <1>4, BootApart, MoveMoves DEF ListUndecrypted, Goto
  <2>2. UNCHANGED <<life, messages, decrypted>>
    BY <1>4 DEF ListUndecrypted, tables
  <2>3. todo' = {h \in packets : h \in Texts /\ h \notin decrypted} \/ skipped' = Packets
    BY <1>4 DEF ListUndecrypted
  <2>4. keyed \subseteq Texts /\ packets \subseteq Packets /\ decrypted \subseteq messages
    BY DEF TypeOK, BootTyped, TablesTyped, Marking, MarkedHasMessage
  <2>5. \A h \in packets \cap keyed : h \in todo' \cup messages \cup skipped'
    BY <2>3, <2>4
  <2> QED BY <1>1, <1>2, <1>3, <2>1, <2>2, <2>5 DEF Backfilling
<1>5. CASE Scan
  <2>0. pc[Boot] = "scan" /\ UNCHANGED <<messages, skipped>>
    BY <1>5 DEF Scan, tables
  <2>1. \A h \in packets \cap keyed : h \in todo \cup messages \cup skipped
    BY <2>0 DEF Backfilling
  <2>2. CASE \E h \in todo : /\ todo' = todo \ {h} /\ UNCHANGED life
                             /\ IF h \in keyed THEN Move(Boot, [packet |-> h], "channel")
                                               ELSE Goto(Boot, "scan")
    <3>1. PICK h \in todo : /\ todo' = todo \ {h} /\ UNCHANGED life
                            /\ IF h \in keyed THEN Move(Boot, [packet |-> h], "channel")
                                              ELSE Goto(Boot, "scan")
      BY <2>2
    <3>2. CASE h \in keyed
      <4>1. pc'[Boot] = "channel" /\ job'[Boot] = [packet |-> h]
        BY <3>1, <3>2, BootApart, MoveMoves
      <4> QED BY <1>1, <1>2, <1>3, <2>0, <2>1, <3>1, <4>1 DEF Backfilling
    <3>3. CASE h \notin keyed
      <4>1. pc'[Boot] = "scan"
        BY <3>1, <3>3, BootApart, MoveMoves DEF Goto
      <4> QED BY <1>1, <1>2, <1>3, <2>0, <2>1, <3>1, <3>3, <4>1 DEF Backfilling
    <3> QED BY <3>2, <3>3
  <2>3. CASE life' = "up" /\ Goto(Boot, "idle")
    <3>1. pc'[Boot] = "idle"
      BY <2>3, BootApart, MoveMoves DEF Goto
    <3> QED BY <2>3, <3>1 DEF Backfilling, Decryption
  <2> QED BY <1>5, <2>2, <2>3 DEF Scan
<1>6. CASE Decrypt(Boot)
  <2> DEFINE m == job[Boot].packet
  <2>1. UNCHANGED <<life, todo>>
    BY <1>6 DEF Decrypt, UpsertChannel, InsertChannelMessage, SetPacketDecrypted, boot
  <2>2. /\ pc'[Boot] \in {"scan", "message", "mark"}
        /\ pc'[Boot] # "scan" => job'[Boot] = job[Boot]
    BY <1>6, BootDecryptTypeOK
  <2>3. \A h \in packets \cap keyed :
          h \in todo \cup messages \cup skipped \/ (h = m /\ pc[Boot] # "mark")
    BY <1>6 DEF Decrypt, UpsertChannel, InsertChannelMessage, SetPacketDecrypted,
                Backfilling, Decryption
  <2>4. messages \subseteq messages' /\ skipped \subseteq skipped'
    BY <1>6 DEF Decrypt, UpsertChannel, InsertChannelMessage, SetPacketDecrypted, Attempt,
                StoreMessage, Skip, boot
  <2>5. Fails(Boot) => failures' # failures
    BY BootApart DEF Fails, TypeOK, ControlTyped, TallyTyped
  <2>6. m \in messages' \cup skipped' \/ pc'[Boot] = "message" \/ pc[Boot] = "mark"
    <3>1. CASE UpsertChannel(Boot)
      <4>1. Goto(Boot, "message") \/ Fails(Boot)
        BY <3>1 DEF UpsertChannel, Attempt
      <4>2. Goto(Boot, "message") => pc'[Boot] = "message"
        BY BootApart, MoveMoves DEF Goto
      <4> QED BY <3>1, <4>1, <4>2, <2>5 DEF UpsertChannel, Skip
    <3>2. CASE InsertChannelMessage(Boot)
      <4>1. StoreMessage(Boot, m) \/ Fails(Boot)
        BY <3>2 DEF InsertChannelMessage, Attempt
      <4> QED BY <3>2, <4>1, <2>5 DEF InsertChannelMessage, StoreMessage, Skip
    <3>3. CASE SetPacketDecrypted(Boot)
      BY <3>3 DEF SetPacketDecrypted
    <3> QED BY <1>6, <3>1, <3>2, <3>3 DEF Decrypt
  <2>7. \A h \in packets \cap keyed :
          \/ h \in todo' \cup messages' \cup skipped'
          \/ pc'[Boot] \in {"channel", "message"} /\ h = job'[Boot].packet
    BY <2>1, <2>2, <2>3, <2>4, <2>6
  <2> QED BY <1>1, <1>2, <1>3, <2>1, <2>2, <2>7 DEF Backfilling
<1> QED BY <1>4, <1>5, <1>6

\* Every step keeps Backfilling.
LEMMA NextBackfilling ==
  ASSUME TypeOK, Announcing, Marking, Backfilling, [Next]_vars
  PROVE  Backfilling'
<1>1. CASE Restart
  BY <1>1, RestartMoves DEF Backfilling, Decryption
<1>2. CASE UNCHANGED vars
  BY <1>2 DEF vars, tables, control, boot, Backfilling
<1> QED BY <1>1, <1>2, NextCases, WorkerBackfilling, BootBackfilling

-----------------------------------------------------------------------------
(***************************************************************************)
(* The inductive invariant and what follows from it                        *)
(***************************************************************************)

\* The inductive invariant holds at the start,
LEMMA InitIInv == Init => IInv
<1> SUFFICES ASSUME Init PROVE IInv
  OBVIOUS
<1>1. pc[Boot] = "list" /\ life = "boot" /\ \A w \in Workers : pc[w] = "idle"
  BY BootApart DEF Init
<1>2. \A w \in Workers : pc[w] \notin {"observation"} \cup Early \cup Shared \cup Late
  BY <1>1 DEF Early, Shared, Late
<1>3. \A p : Claims(p) = {}
  BY <1>1 DEF Claims
<1>4. \A h : Tellers(h) = {} /\ Newcomers(h) = {}
  BY <1>1 DEF Tellers, Newcomers
<1>5. Announcing
  BY <1>2, <1>3 DEF Init, Announcing, AnnouncedOnce, AtMostOneOf
<1>6. Telling /\ Creating
  BY <1>4 DEF Init, Telling, ToldOnce, Creating, FirstOnce, AtMostOneOf
<1>7. Marking
  <2>1. \A a \in Actors : pc[a] # "mark"
    BY <1>1 DEF Actors
  <2> QED BY <1>1, <1>2, <2>1 DEF Init, Marking, MarkedHasMessage, Decryption
<1>8. Backfilling
  BY <1>1 DEF Backfilling, Decryption
<1> QED BY <1>5, <1>6, <1>7, <1>8, InitTypeOK DEF IInv

\* every step keeps it,
LEMMA NextIInv == IInv /\ [Next]_vars => IInv'
BY NextTypeOK, NextAnnouncing, NextTelling, NextCreating, NextMarking, NextBackfilling DEF IInv

\* and so it always holds.
LEMMA Inductive == Spec => []IInv
BY InitIInv, NextIInv, PTL DEF Spec

\* An observation is announced at most once, and only when it is stored:
\* InsertObservation says "inserted" to one worker at most, and only that one
\* reaches the broadcast at the end of handlePacket, once.
THEOREM AnnouncesOnce == Spec => []AnnouncedOnce
<1>1. IInv => AnnouncedOnce
  BY DEF IInv, Announcing
<1> QED BY <1>1, Inductive, PTL

\* A message is told of at most once, and never if a backfill stored it: only
\* the worker whose INSERT stored it gets to the channelMessage broadcast.
THEOREM TellsOnce == Spec => []ToldOnce
<1>1. IInv => ToldOnce
  BY DEF IInv, Telling
<1> QED BY <1>1, Inductive, PTL

\* A packet that is marked as decrypted has its message, and a message its
\* packet: DecryptGroupText marks after it has stored.
THEOREM MarksLast == Spec => []MarkedHasMessage
<1>1. IInv => MarkedHasMessage
  BY DEF IInv, Marking
<1> QED BY <1>1, Inductive, PTL

\* At most one packetObservation event of a packet is said to be the first.
THEOREM FirstAtMostOnce == Spec => []FirstOnce
<1>1. IInv => FirstOnce
  BY DEF IInv, Creating
<1> QED BY <1>1, Inductive, PTL

\* When main starts the workers, the backfill has stored the message of every
\* packet whose key it knows, but for those it failed on itself, whatever had
\* kept them from being decrypted in earlier lives of the process.
THEOREM SurfacesHistory == Spec => Surfaces
<1>1. IInv /\ [Next]_vars
        => [life = "boot" /\ life' = "up"
              => \A h \in packets \cap keyed : h \in messages \cup skipped]_vars
  <2> SUFFICES ASSUME IInv, [Next]_vars, life = "boot", life' = "up"
               PROVE  \A h \in packets \cap keyed : h \in messages \cup skipped
    OBVIOUS
  <2>1. CASE Scan
    <3>1. pc[Boot] = "scan"
      BY <2>1 DEF Scan
    <3>2. todo = {}
      BY <2>1 DEF Scan
    <3>3. Backfilling
      BY DEF IInv
    <3> QED BY <3>1, <3>2, <3>3 DEF Backfilling
  <2>2. CASE \E w \in Workers : Worker(w)
    <3>1. PICK w \in Workers : Worker(w)
      BY <2>2
    <3>2. pc[w] # "idle"
      BY <3>1, WorkerCases, PlainMoves, UpsertPacketMoves, InsertObservationMoves,
         InsertMessageMoves, SetDecryptedMoves, BroadcastMoves, AnnounceMoves
         DEF IInv, Pivotal, Moves
    <3> QED BY <3>2, WorkerRuns DEF IInv
  <2>3. CASE ListUndecrypted \/ Decrypt(Boot)
    BY <2>3 DEF ListUndecrypted, Decrypt, UpsertChannel, InsertChannelMessage,
                SetPacketDecrypted, boot
  <2>4. CASE (\E w \in Workers : Receive(w) \/ Expire(w)) \/ Restart \/ UNCHANGED vars
    BY <2>4 DEF Receive, Expire, Restart, vars, boot
  <2> QED BY <2>1, <2>2, <2>3, <2>4, NextCases
<1> QED BY <1>1, Inductive, PTL DEF Spec, Surfaces

-----------------------------------------------------------------------------
(***************************************************************************)
(* The pipeline implements AtMostOnce, for observations and for messages   *)
(***************************************************************************)

\* What is owed, as named expressions.
owedEvents   == {p \in Pairs : Claims(p) # {}}
owedMessages == {h \in Packets : Tellers(h) # {}}

\* A step that changes neither the rows nor who claims them stutters.
LEMMA ObservedStutter ==
  ASSUME UNCHANGED <<observations, announced>>, \A p \in Pairs : Claims(p)' = Claims(p)
  PROVE  UNCHANGED Observed!vars
<1>1. owedEvents' = owedEvents
  BY DEF owedEvents
<1> QED BY <1>1 DEF Observed!vars, owedEvents

\* A worker that inserts a row owes its event, if it learns that it has.
LEMMA InsertObservationObserved ==
  ASSUME TypeOK, Announcing, NEW w \in Workers, InsertObservation(w)
  PROVE  [Observed!Next]_(Observed!vars)
<1>0. PICK p \in Pairs : p = <<job[w].packet, job[w].observer>>
  BY WorkerTyped DEF InsertObservation
<1>1. /\ Moves(w) /\ pc[w] = "observation" /\ pc'[w] \in {"idle", "scope", "filters"}
      /\ pc'[w] # "idle" => /\ job'[w].inserted = (p \notin observations)
                            /\ observations' = observations \cup {p}
      /\ observations' \in {observations, observations \cup {p}}
      /\ UNCHANGED announced
  BY <1>0, InsertObservationMoves DEF InsertObservation, events
<1>2. ~job[w].inserted
  BY <1>1 DEF Announcing, Early
<1>3. ASSUME NEW q \in Pairs
      PROVE  Claims(q)' = IF q = p /\ pc'[w] # "idle" /\ p \notin observations
                          THEN Claims(q) \cup {w} ELSE Claims(q)
  <2>1. ASSUME NEW v \in Workers, v # w
        PROVE  v \in Claims(q)' <=> v \in Claims(q)
    BY <1>1, <2>1 DEF Moves, Claims
  <2>2. w \notin Claims(q)
    BY <1>2 DEF Claims
  <2>3. w \in Claims(q)' <=> q = p /\ pc'[w] # "idle" /\ p \notin observations
    BY <1>0, <1>1 DEF Claims, Moves
  <2> QED BY <2>1, <2>2, <2>3 DEF Claims
<1>4. CASE p \in observations
  <2>1. UNCHANGED observations /\ \A q \in Pairs : Claims(q)' = Claims(q)
    BY <1>1, <1>3, <1>4
  <2> QED BY <1>1, <2>1, ObservedStutter
<1>5. CASE p \notin observations /\ observations' = observations
  <2>1. pc'[w] = "idle"
    BY <1>1, <1>5
  <2> QED BY <1>1, <1>3, <1>5, <2>1, ObservedStutter
<1>6. CASE p \notin observations /\ observations' = observations \cup {p}
  <2>1. owedEvents' \in {owedEvents, owedEvents \cup {p}}
    <3>1. CASE pc'[w] = "idle"
      BY <1>3, <3>1 DEF owedEvents
    <3>2. CASE pc'[w] # "idle"
      BY <1>3, <1>6, <3>2 DEF owedEvents
    <3> QED BY <3>1, <3>2
  <2>2. Observed!Accept(p)
    BY <1>1, <1>6, <2>1 DEF Observed!Accept, owedEvents
  <2> QED BY <2>2 DEF Observed!Next
<1> QED BY <1>1, <1>4, <1>5, <1>6

\* Announcing delivers an event that is owed, and owes it no longer.
LEMMA AnnounceObserved ==
  ASSUME TypeOK, Announcing, NEW w \in Workers, Announce(w)
  PROVE  [Observed!Next]_(Observed!vars)
<1>0. PICK p \in Pairs : p = <<job[w].packet, job[w].observer>>
  BY WorkerTyped DEF Announce
<1>1. /\ Moves(w) /\ pc[w] = "announce" /\ pc'[w] = "idle"
      /\ announced' = [announced EXCEPT ![p] = @ + 1] /\ UNCHANGED observations
  BY <1>0, AnnounceMoves DEF Announce, tables
<1>2. w \in Claims(p)
  BY <1>0, <1>1 DEF Claims, Announcing, Late
<1>3. AtMostOneOf(Claims(p))
  BY <1>2 DEF Announcing
<1>4. ASSUME NEW q \in Pairs
      PROVE  Claims(q)' = Claims(q) \ {w} /\ (q # p => w \notin Claims(q))
  <2>1. ASSUME NEW v \in Workers
        PROVE  v \in Claims(q)' <=> v \in Claims(q) /\ v # w
    BY <1>1 DEF Moves, Claims
  <2> QED BY <1>0, <2>1 DEF Claims
<1>5. p \in owedEvents /\ owedEvents' = owedEvents \ {p}
  BY <1>2, <1>3, <1>4 DEF owedEvents, AtMostOneOf
<1>6. Observed!Deliver(p)
  BY <1>1, <1>5 DEF Observed!Deliver, owedEvents
<1> QED BY <1>6 DEF Observed!Next

\* Every step of the pipeline is a step of the observation feed, or none.
LEMMA NextObserved ==
  ASSUME TypeOK, Announcing, [Next]_vars
  PROVE  [Observed!Next]_(Observed!vars)
<1>1. ASSUME NEW w \in Workers, PlainStep(w)
      PROVE  [Observed!Next]_(Observed!vars)
  BY <1>1, PlainMoves, ClaimsStay, ObservedStutter DEF PlainStep, core
<1>2. ASSUME NEW w \in Workers, UpsertPacket(w)
      PROVE  [Observed!Next]_(Observed!vars)
  <2>1. ~job[w].inserted
    BY <1>2, UpsertPacketMoves DEF Announcing, Early
  <2>2. UNCHANGED <<observations, announced>>
    BY <1>2 DEF UpsertPacket, events
  <2> QED BY <1>2, <2>1, <2>2, UpsertPacketMoves, ClaimsStay, ObservedStutter
<1>3. ASSUME NEW w \in Workers,
             InsertChannelMessage(w) \/ SetPacketDecrypted(w) \/ BroadcastChannelMessage(w)
      PROVE  [Observed!Next]_(Observed!vars)
  <2>1. Moves(w) /\ job'[w] = job[w] /\ pc'[w] # "idle"
    BY <1>3, InsertMessageMoves, SetDecryptedMoves, BroadcastMoves
  <2>2. UNCHANGED <<observations, announced>>
    BY <1>3 DEF InsertChannelMessage, SetPacketDecrypted, BroadcastChannelMessage, events,
                tables
  <2> QED BY <2>1, <2>2, ClaimsStay, ObservedStutter
<1>4. ASSUME NEW w \in Workers, Worker(w)
      PROVE  [Observed!Next]_(Observed!vars)
  BY <1>1, <1>2, <1>3, <1>4, WorkerCases, InsertObservationObserved, AnnounceObserved DEF Pivotal
<1>5. ASSUME NEW w \in Workers, Receive(w)
      PROVE  [Observed!Next]_(Observed!vars)
  BY <1>5, ReceiveMoves, ReceiveKeeps, ObservedStutter
<1>6. CASE Restart
  <2>1. UNCHANGED <<observations, announced>> /\ owedEvents' = {}
    BY <1>6, RestartMoves DEF owedEvents
  <2>2. Observed!Drop
    BY <2>1 DEF Observed!Drop, owedEvents
  <2> QED BY <2>2 DEF Observed!Next
<1> QED BY <1>4, <1>5, <1>6, NextCases, StillSteps, StillStays, ObservedStutter

\* Storing an observation and announcing it implement AtMostOnce.
THEOREM ImplementsObservationFeed == Spec => ObservationFeed
<1>1. Init => Observed!Init
  <2> SUFFICES ASSUME Init PROVE Observed!Init
    OBVIOUS
  <2>1. owedEvents = {}
    BY BootApart DEF Init, Claims, owedEvents
  <2> QED BY <2>1 DEF Init, Observed!Init, owedEvents
<1>2. IInv /\ [Next]_vars => [Observed!Next]_(Observed!vars)
  BY NextObserved DEF IInv
<1> QED BY <1>1, <1>2, Inductive, PTL DEF Spec, ObservationFeed, Observed!Spec

-----------------------------------------------------------------------------
(***************************************************************************)
(* The same of messages, which a worker or the backfill stores             *)
(***************************************************************************)

\* A step that changes neither the messages nor who tells of them stutters.
LEMMA MessagedStutter ==
  ASSUME UNCHANGED <<messages, told>>, \A h \in Packets : Tellers(h)' = Tellers(h)
  PROVE  UNCHANGED Messaged!vars
<1>1. owedMessages' = owedMessages
  BY DEF owedMessages
<1> QED BY <1>1 DEF Messaged!vars, owedMessages

\* A worker that stores a message owes its event, if it learns of it.
LEMMA InsertMessageMessaged ==
  ASSUME TypeOK, Telling, NEW w \in Workers, InsertChannelMessage(w)
  PROVE  [Messaged!Next]_(Messaged!vars)
<1>0. PICK m \in Packets : m = job[w].packet
  BY WorkerTyped DEF InsertChannelMessage
<1>1. /\ Moves(w) /\ pc[w] = "message" /\ pc'[w] \in {"mark", "announce"} /\ job'[w] = job[w]
      /\ pc'[w] = "mark" => m \notin messages /\ messages' = messages \cup {m}
      /\ messages' \in {messages, messages \cup {m}} /\ UNCHANGED told
  BY <1>0, InsertMessageMoves DEF InsertChannelMessage, events
<1>2. ASSUME NEW h \in Packets
      PROVE  Tellers(h)' = IF pc'[w] = "mark" /\ h = m THEN Tellers(h) \cup {w} ELSE Tellers(h)
  <2>1. ASSUME NEW v \in Workers, v # w
        PROVE  v \in Tellers(h)' <=> v \in Tellers(h)
    BY <1>1, <2>1 DEF Moves, Tellers
  <2>2. w \notin Tellers(h) /\ (w \in Tellers(h)' <=> pc'[w] = "mark" /\ h = m)
    BY <1>0, <1>1 DEF Tellers
  <2> QED BY <2>1, <2>2 DEF Tellers
<1>3. CASE messages' = messages
  <2>1. pc'[w] # "mark"
    BY <1>1, <1>3
  <2> QED BY <1>1, <1>2, <1>3, <2>1, MessagedStutter
<1>4. CASE m \notin messages /\ messages' = messages \cup {m}
  <2>1. owedMessages' \in {owedMessages, owedMessages \cup {m}}
    <3>1. CASE pc'[w] = "mark"
      BY <1>2, <3>1 DEF owedMessages
    <3>2. CASE pc'[w] # "mark"
      BY <1>2, <3>2 DEF owedMessages
    <3> QED BY <3>1, <3>2
  <2>2. Messaged!Accept(m)
    BY <1>1, <1>4, <2>1 DEF Messaged!Accept, owedMessages
  <2> QED BY <2>2 DEF Messaged!Next
<1> QED BY <1>1, <1>3, <1>4

\* The backfill stores a message without owing its event.
LEMMA BootMessaged ==
  ASSUME TypeOK, Decrypt(Boot)
  PROVE  [Messaged!Next]_(Messaged!vars)
<1>1. (\A h : Tellers(h)' = Tellers(h)) /\ UNCHANGED told
  BY StillSteps, StillStays
<1>2. UNCHANGED messages \/ StoreMessage(Boot, job[Boot].packet)
  BY DEF Decrypt, UpsertChannel, SetPacketDecrypted, InsertChannelMessage, Attempt
<1>3. CASE UNCHANGED messages
  BY <1>1, <1>3, MessagedStutter
<1>4. CASE StoreMessage(Boot, job[Boot].packet) /\ messages' # messages
  <2>1. job[Boot].packet \in Packets
    BY <1>4 DEF Decrypt, UpsertChannel, SetPacketDecrypted, InsertChannelMessage, TypeOK,
                ControlTyped, Decryption, BackfillJob, Texts
  <2>2. PICK m \in Packets : m = job[Boot].packet
    BY <2>1
  <2>3. m \notin messages /\ messages' = messages \cup {m}
    BY <1>4, <2>2 DEF StoreMessage
  <2>4. owedMessages' = owedMessages
    BY <1>1 DEF owedMessages
  <2>5. Messaged!Accept(m)
    BY <1>1, <2>3, <2>4 DEF Messaged!Accept, owedMessages
  <2> QED BY <2>5 DEF Messaged!Next
<1> QED BY <1>2, <1>3, <1>4

\* The broadcast delivers an event that is owed, and owes it no longer.
LEMMA BroadcastMessaged ==
  ASSUME TypeOK, Telling, NEW w \in Workers, BroadcastChannelMessage(w)
  PROVE  [Messaged!Next]_(Messaged!vars)
<1>0. PICK m \in Packets : m = job[w].packet
  BY WorkerTyped DEF BroadcastChannelMessage
<1>1. /\ Moves(w) /\ pc[w] = "tell" /\ pc'[w] = "announce"
      /\ told' = [told EXCEPT ![m] = @ + 1] /\ UNCHANGED messages
  BY <1>0, BroadcastMoves DEF BroadcastChannelMessage, tables
<1>2. w \in Tellers(m)
  BY <1>0, <1>1 DEF Tellers
<1>3. AtMostOneOf(Tellers(m))
  BY DEF Telling
<1>4. ASSUME NEW h \in Packets
      PROVE  Tellers(h)' = Tellers(h) \ {w} /\ (h # m => w \notin Tellers(h))
  <2>1. ASSUME NEW v \in Workers
        PROVE  v \in Tellers(h)' <=> v \in Tellers(h) /\ v # w
    BY <1>1 DEF Moves, Tellers
  <2> QED BY <1>0, <2>1 DEF Tellers
<1>5. m \in owedMessages /\ owedMessages' = owedMessages \ {m}
  BY <1>2, <1>3, <1>4 DEF owedMessages, AtMostOneOf
<1>6. Messaged!Deliver(m)
  BY <1>1, <1>5 DEF Messaged!Deliver, owedMessages
<1> QED BY <1>6 DEF Messaged!Next

\* Every step of the pipeline is a step of the message feed, or none.
LEMMA NextMessaged ==
  ASSUME TypeOK, Announcing, Telling, [Next]_vars
  PROVE  [Messaged!Next]_(Messaged!vars)
<1>1. ASSUME NEW w \in Workers, PlainStep(w)
      PROVE  [Messaged!Next]_(Messaged!vars)
  BY <1>1, PlainMoves, TellersStay, MessagedStutter DEF PlainStep, core
<1>2. ASSUME NEW w \in Workers, UpsertPacket(w) \/ InsertObservation(w) \/ Announce(w)
      PROVE  [Messaged!Next]_(Messaged!vars)
  <2>1. Moves(w) /\ pc[w] \notin {"mark", "tell"} /\ pc'[w] \notin {"mark", "tell"}
    BY <1>2, UpsertPacketMoves, InsertObservationMoves, AnnounceMoves
  <2>2. UNCHANGED <<messages, told>>
    BY <1>2 DEF UpsertPacket, InsertObservation, Announce, events, tables
  <2> QED BY <2>1, <2>2, TellersStay, MessagedStutter
<1>3. ASSUME NEW w \in Workers, SetPacketDecrypted(w)
      PROVE  [Messaged!Next]_(Messaged!vars)
  <2>1. UNCHANGED <<messages, told>>
    BY <1>3 DEF SetPacketDecrypted, events
  <2> QED BY <1>3, <2>1, SetDecryptedMoves, TellersStay, MessagedStutter
<1>4. ASSUME NEW w \in Workers, Worker(w)
      PROVE  [Messaged!Next]_(Messaged!vars)
  BY <1>1, <1>2, <1>3, <1>4, WorkerCases, InsertMessageMessaged, BroadcastMessaged DEF Pivotal
<1>5. ASSUME NEW w \in Workers, Receive(w)
      PROVE  [Messaged!Next]_(Messaged!vars)
  BY <1>5, ReceiveMoves, ReceiveKeeps, MessagedStutter
<1>6. CASE Restart
  <2>1. UNCHANGED <<messages, told>> /\ owedMessages' = {}
    BY <1>6, RestartMoves DEF owedMessages
  <2>2. Messaged!Drop
    BY <2>1 DEF Messaged!Drop, owedMessages
  <2> QED BY <2>2 DEF Messaged!Next
<1>7. CASE (\E w \in Workers : Expire(w)) \/ ListUndecrypted \/ Scan \/ UNCHANGED vars
  <2>1. UNCHANGED messages
    BY <1>7 DEF Expire, ListUndecrypted, Scan, vars, tables
  <2> QED BY <1>7, <2>1, StillSteps, StillStays, MessagedStutter
<1> QED BY <1>4, <1>5, <1>6, <1>7, NextCases, BootMessaged

\* Storing a message, live or by a backfill, and telling of it implement
\* AtMostOnce.
THEOREM ImplementsMessageFeed == Spec => MessageFeed
<1>1. Init => Messaged!Init
  <2> SUFFICES ASSUME Init PROVE Messaged!Init
    OBVIOUS
  <2>1. owedMessages = {}
    BY BootApart DEF Init, Tellers, owedMessages
  <2> QED BY <2>1 DEF Init, Messaged!Init, owedMessages
<1>2. IInv /\ [Next]_vars => [Messaged!Next]_(Messaged!vars)
  BY NextMessaged DEF IInv
<1> QED BY <1>1, <1>2, Inductive, PTL DEF Spec, MessageFeed, Messaged!Spec
=============================================================================
