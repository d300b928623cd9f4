--------------------------- MODULE PresenceProofs ---------------------------
(***************************************************************************)
(* Proofs about the presence coalescer, for any number of workers,         *)
(* observers and packets, any message mix, and any number of failures,     *)
(* crashes and restarts.                                                   *)
(***************************************************************************)
EXTENDS Presence, TLAPS

(***************************************************************************)
(* Type correctness                                                        *)
(***************************************************************************)

\* What the kind of a message says of its fields.
LEMMA MessageFields ==
  ASSUME NEW m \in Message
  PROVE  /\ m.kind \in {"packet", "status", "neighbors"}
         /\ m # Idle
         /\ m.observer \in Observers
         /\ m.kind = "packet" => m.iata \in Iatas /\ m.packet \in Packets
         /\ m.kind = "status" => m.name \in Names \cup {""}
<1>1. m \in [kind : {"packet"} \cap Kinds, observer : Observers, iata : Iatas,
             packet : Packets]
      => m.kind = "packet" /\ m.observer \in Observers /\ m.iata \in Iatas
         /\ m.packet \in Packets
  OBVIOUS
<1>2. m \in [kind : {"status"} \cap Kinds, observer : Observers, name : Names \cup {""}]
      => m.kind = "status" /\ m.observer \in Observers /\ m.name \in Names \cup {""}
  OBVIOUS
<1>3. m \in [kind : {"neighbors"} \cap Kinds, observer : Observers]
      => m.kind = "neighbors" /\ m.observer \in Observers
  OBVIOUS
<1>4. Idle.kind = "none"
  BY DEF Idle
<1> QED BY <1>1, <1>2, <1>3, <1>4 DEF Message

\* The constants of the empty maps.
LEMMA EmptyTyped ==
  /\ NoBumps \in Bumps
  /\ \A p \in Observers : NoBumps[p] = [seen |-> 0, count |-> 0]
  /\ NoBatch \in [observers : Bumps, brokers : [Pairs -> Nat], packets : [Packets -> Nat]]
BY DEF NoBumps, NoBump, NoBatch, Bumps

\* Going to another call of the same message keeps the workers typed.
LEMMA GotoTyped ==
  ASSUME PcTyped, job \in [Workers -> Message \cup {Idle}],
         NEW w \in Workers, NEW next \in Calls, Goto(w, next), pc[w] # "idle",
         next \in PacketCalls => job[w].kind = "packet",
         next \in {"status", "statusDrop"} => job[w].kind = "status"
  PROVE  PcTyped' /\ job' \in [Workers -> Message \cup {Idle}]
<1>1. pc' \in [Workers -> Calls] /\ job' \in [Workers -> Message \cup {Idle}]
  BY DEF Goto, PcTyped
<1>2. "idle" \notin PacketCalls
  BY DEF PacketCalls
<1>3. \A v \in Workers : v # w => pc'[v] = pc[v] /\ job'[v] = job[v]
  BY DEF Goto, PcTyped
<1>4. pc'[w] = next /\ job'[w] = IF next = "idle" THEN Idle ELSE job[w]
  BY DEF Goto, PcTyped
<1>5. job[w] \in Message /\ job[w] # Idle
  BY DEF PcTyped
<1>6. ASSUME NEW v \in Workers
      PROVE  /\ pc'[v] = "idle" <=> job'[v] = Idle
             /\ pc'[v] # "idle" => job'[v] \in Message
             /\ pc'[v] \in PacketCalls => job'[v].kind = "packet"
             /\ pc'[v] \in {"status", "statusDrop"} => job'[v].kind = "status"
  <2>1. CASE v = w
    BY <2>1, <1>2, <1>4, <1>5
  <2>2. CASE v # w
    BY <2>2, <1>3 DEF PcTyped
  <2> QED BY <2>1, <2>2
<1> QED BY <1>1, <1>6 DEF PcTyped

\* The variables start with values of their types.
LEMMA InitTypeOK == Init => TypeOK
<1> SUFFICES ASSUME Init PROVE TypeOK
  OBVIOUS
<1>1. StoreTyped
  BY DEF Init, StoreTyped
<1>2. MemoryTyped
  <2> USE DEF Init
  <2>1. batch \in [Flushers -> [observers : Bumps, brokers : [Pairs -> Nat],
                                packets : [Packets -> Nat]]]
    BY EmptyTyped
  <2>2. dirtyObservers \in Bumps
    BY EmptyTyped
  <2>3. /\ identities \subseteq Observers /\ knownBrokers \subseteq Pairs
        /\ knownIATAs \subseteq Iatas /\ cachedName \in [Observers -> Names \cup {""}]
    OBVIOUS
  <2>4. /\ packetsSeen \in [Packets -> Nat]
        /\ dirtyBrokers \in [Pairs -> Nat] /\ dirtyPackets \in [Packets -> Nat]
    OBVIOUS
  <2> QED BY <2>1, <2>2, <2>3, <2>4 DEF MemoryTyped
<1>3. ControlTyped
  <2>0. NoRow \in [name : Names \cup {""}, isNew : BOOLEAN]
    BY DEF NoRow
  <2>1. row \in [Workers -> [name : Names \cup {""}, isNew : BOOLEAN]]
    BY <2>0 DEF Init
  <2>2. job \in [Workers -> Message \cup {Idle}]
    BY DEF Init
  <2>3. flush \in [Flushers -> {"idle", "observers", "brokers", "packets"}]
    BY DEF Init
  <2>4. final \subseteq Flushers /\ life \in {"up", "stopping", "down"}
    BY DEF Init
  <2>5. now \in Nat \ {0}
    <3>1. now = 1
      BY DEF Init
    <3> QED BY <3>1
  <2> QED BY <2>1, <2>2, <2>3, <2>4, <2>5 DEF ControlTyped
<1>4. PcTyped
  <2>1. "idle" \in Calls /\ "idle" \notin PacketCalls
    BY DEF Calls, PacketCalls
  <2>2. \A w \in Workers : pc[w] = "idle" /\ job[w] = Idle
    BY DEF Init
  <2> QED BY <2>1, <2>2 DEF Init, PcTyped
<1>5. TallyTyped
  <2>1. lost \in [Causes -> [Observers -> Nat]]
    BY DEF Init
  <2>2. {messages, failures, restarts} \subseteq Nat
    <3>1. messages = 0 /\ failures = 0 /\ restarts = 0
      BY DEF Init
    <3> QED BY <3>1
  <2>3. observed \in [Observers -> Nat] /\ created \in [Packets -> Nat]
    BY DEF Init
  <2> QED BY <2>1, <2>2, <2>3 DEF TallyTyped
<1> QED BY <1>1, <1>2, <1>3, <1>4, <1>5 DEF TypeOK

\* The message of a worker that is in a call.
LEMMA JobFields ==
  ASSUME PcTyped, NEW w \in Workers, pc[w] # "idle"
  PROVE  /\ job[w] \in Message
         /\ job[w].observer \in Observers
         /\ <<job[w].observer, w>> \in Pairs
         /\ pc[w] \in PacketCalls => job[w].iata \in Iatas /\ job[w].packet \in Packets
         /\ pc[w] \in {"status", "statusDrop"} => job[w].name \in Names \cup {""}
<1>1. /\ job[w] \in Message
      /\ pc[w] \in PacketCalls => job[w].kind = "packet"
      /\ pc[w] \in {"status", "statusDrop"} => job[w].kind = "status"
  BY DEF PcTyped
<1> QED BY <1>1, MessageFields DEF Pairs

\* What a handler does after UpsertObserverBroker fits its message.
LEMMA AfterBrokerFits ==
  ASSUME NEW m \in Message, NEW next \in {AfterBroker(m), BrokerFailed(m)}
  PROVE  /\ next \in Calls
         /\ next \in PacketCalls => m.kind = "packet"
         /\ next \in {"status", "statusDrop"} => m.kind = "status"
<1>1. m.kind \in {"packet", "status", "neighbors"}
  BY MessageFields
<1>2. AfterBroker(m) = IF m.kind = "packet" THEN "iata"
                       ELSE IF m.kind = "status" THEN "status" ELSE "idle"
  BY <1>1 DEF AfterBroker
<1> QED BY <1>1, <1>2 DEF BrokerFailed, Calls, PacketCalls

\* Variables that a step leaves alone keep their types.
LEMMA StoreStays == ASSUME StoreTyped, UNCHANGED store PROVE StoreTyped'
BY DEF StoreTyped, store

LEMMA MemoryStays == ASSUME MemoryTyped, UNCHANGED memory, UNCHANGED batch PROVE MemoryTyped'
BY DEF MemoryTyped, memory, caches, dirty

LEMMA TallyStays == ASSUME TallyTyped, UNCHANGED tally PROVE TallyTyped'
BY DEF TallyTyped, tally

LEMMA ControlStays ==
  ASSUME ControlTyped, job' \in [Workers -> Message \cup {Idle}],
         UNCHANGED <<row, flush, final, life, now>>
  PROVE  ControlTyped'
BY DEF ControlTyped

\* A statement that fails is counted.
LEMMA FailureTyped ==
  ASSUME TallyTyped, UNCHANGED <<observed, lost, created, messages, restarts>>,
         StatementFails \/ UNCHANGED failures
  PROVE  TallyTyped'
<1>1. failures' \in Nat
  BY DEF TallyTyped, StatementFails
<1> QED BY <1>1 DEF TallyTyped

\* Adding a bump to a map of bumps gives a map of bumps.
LEMMA BumpTyped ==
  ASSUME NEW bumps \in Bumps, NEW p \in Observers, NEW seen \in Nat
  PROVE  [bumps EXCEPT ![p] = [seen |-> seen, count |-> @.count + 1]] \in Bumps
<1>1. bumps[p].count \in Nat
  BY DEF Bumps
<1>2. [seen |-> seen, count |-> bumps[p].count + 1] \in [seen : Nat, count : Nat]
  BY <1>1
<1> QED BY <1>2 DEF Bumps

\* What the store returns to a worker leaves row typed.
LEMMA RowTyped ==
  ASSUME ControlTyped, NEW w \in Workers
  PROVE  /\ \A n \in Names \cup {""} : [row EXCEPT ![w].name = n]
                \in [Workers -> [name : Names \cup {""}, isNew : BOOLEAN]]
         /\ \A b \in BOOLEAN : [row EXCEPT ![w].isNew = b]
                \in [Workers -> [name : Names \cup {""}, isNew : BOOLEAN]]
<1> DEFINE Rows == [name : Names \cup {""}, isNew : BOOLEAN]
<1>1. row \in [Workers -> Rows]
  BY DEF ControlTyped
<1>2. /\ \A n \in Names \cup {""} : [row[w] EXCEPT !.name = n] \in Rows
      /\ \A b \in BOOLEAN : [row[w] EXCEPT !.isNew = b] \in Rows
  <2>1. row[w] \in Rows
    BY <1>1
  <2> QED BY ONLY <2>1
<1>3. \A r \in Rows : [row EXCEPT ![w] = r] \in [Workers -> Rows]
  BY <1>1
<1> QED BY <1>2, <1>3

\* UpsertObserver keeps the variables typed.
LEMMA ObserverTypeOK ==
  ASSUME TypeOK, NEW w \in Workers,
         ObserverLookup(w) \/ ObserverStore(w) \/ ObserverRecord(w)
  PROVE  TypeOK'
<1> USE DEF TypeOK
<1>1. CASE ObserverLookup(w)
  <2> USE <1>1 DEF ObserverLookup
  <2>1. PcTyped' /\ job' \in [Workers -> Message \cup {Idle}]
    <3>1. PICK next \in {"broker", "observerStore"} : Goto(w, next)
      OBVIOUS
    <3>2. /\ next \in Calls /\ next \notin PacketCalls
          /\ next \notin {"status", "statusDrop"}
      BY <3>1 DEF Calls, PacketCalls
    <3>3. pc[w] # "idle"
      OBVIOUS
    <3> QED BY <3>1, <3>2, <3>3, GotoTyped DEF ControlTyped
  <2>2. StoreTyped'
    BY StoreStays
  <2>3. MemoryTyped'
    <3>1. dirtyObservers' \in Bumps
      <4>1. now \in Nat
        BY DEF ControlTyped
      <4>2. dirtyObservers' = dirtyObservers \/
            dirtyObservers' = [dirtyObservers EXCEPT ![job[w].observer] =
                                 [seen |-> now, count |-> @.count + 1]]
        OBVIOUS
      <4>3. dirtyObservers \in Bumps /\ job[w].observer \in Observers
        BY JobFields DEF MemoryTyped
      <4>4. [dirtyObservers EXCEPT ![job[w].observer] =
               [seen |-> now, count |-> @.count + 1]] \in Bumps
        BY ONLY <4>1, <4>3, BumpTyped
      <4> QED BY ONLY <4>2, <4>3, <4>4
    <3> QED BY <3>1 DEF MemoryTyped, caches, flushes
  <2>4. ControlTyped'
    BY <2>1, ControlStays DEF flushes
  <2>5. TallyTyped'
    BY DEF TallyTyped
  <2> QED BY <2>1, <2>2, <2>3, <2>4, <2>5
<1>2. CASE ObserverStore(w)
  <2> USE <1>2 DEF ObserverStore
  <2>0. job[w].observer \in Observers
    BY JobFields
  <2>1. PcTyped' /\ job' \in [Workers -> Message \cup {Idle}]
    <3>1. PICK next \in {"idle", "observerRecord"} : Goto(w, next)
      OBVIOUS
    <3>2. /\ next \in Calls /\ next \notin PacketCalls
          /\ next \notin {"status", "statusDrop"}
      BY <3>1 DEF Calls, PacketCalls
    <3>3. pc[w] # "idle"
      OBVIOUS
    <3> QED BY <3>1, <3>2, <3>3, GotoTyped DEF ControlTyped
  <2>2. StoreTyped' /\ observed' \in [Observers -> Nat]
    <3>1. now \in Nat
      BY DEF ControlTyped
    <3>2. UpsertObserverRow(job[w].observer)
          \/ UNCHANGED <<observers, observationCount, lastSeen, observed>>
      OBVIOUS
    <3>3. UNCHANGED <<displayName, brokerSeen, iatas, lastHeard>>
      OBVIOUS
    <3>4. lastSeen' \in [Observers -> Nat] /\ observers' \subseteq Observers
      BY <2>0, <3>1, <3>2 DEF StoreTyped, UpsertObserverRow
    <3>5. observationCount' \in [Observers -> Nat]
      <4>1. \/ observationCount' = observationCount
            \/ observationCount' = [observationCount EXCEPT ![job[w].observer] = @ + 1]
        BY <3>2 DEF UpsertObserverRow
      <4>2. observationCount \in [Observers -> Nat]
        BY DEF StoreTyped
      <4> QED BY <2>0, <4>1, <4>2
    <3>6. observed' \in [Observers -> Nat]
      <4>1. \/ observed' = observed
            \/ observed' = [observed EXCEPT ![job[w].observer] = @ + 1]
        BY <3>2 DEF UpsertObserverRow
      <4>2. observed \in [Observers -> Nat]
        BY DEF TallyTyped
      <4> QED BY ONLY <2>0, <4>1, <4>2
    <3> QED BY <3>3, <3>4, <3>5, <3>6 DEF StoreTyped
  <2>3. MemoryTyped'
    BY MemoryStays DEF flushes
  <2>4. ControlTyped'
    <3>1. row' = row \/ row' = [row EXCEPT ![w].name = displayName[job[w].observer]]
      OBVIOUS
    <3>2. displayName[job[w].observer] \in Names \cup {""}
      BY <2>0 DEF StoreTyped
    <3>3. row' \in [Workers -> [name : Names \cup {""}, isNew : BOOLEAN]]
      <4>1. [row EXCEPT ![w].name = displayName[job[w].observer]]
              \in [Workers -> [name : Names \cup {""}, isNew : BOOLEAN]]
        BY <3>2, RowTyped
      <4>2. row \in [Workers -> [name : Names \cup {""}, isNew : BOOLEAN]]
        BY DEF ControlTyped
      <4> QED BY ONLY <3>1, <4>1, <4>2
    <3> QED BY <2>1, <3>3 DEF ControlTyped, flushes
  <2>5. TallyTyped'
    <3>1. failures' \in Nat
      BY DEF TallyTyped, StatementFails
    <3> QED BY <2>2, <3>1 DEF TallyTyped
  <2> QED BY <2>1, <2>2, <2>3, <2>4, <2>5
<1>3. CASE ObserverRecord(w)
  <2> USE <1>3 DEF ObserverRecord
  <2>1. PcTyped' /\ job' \in [Workers -> Message \cup {Idle}]
    <3>1. "broker" \in Calls /\ "broker" \notin PacketCalls
      BY DEF Calls, PacketCalls
    <3> QED BY <3>1, GotoTyped DEF ControlTyped
  <2>2. StoreTyped'
    BY StoreStays
  <2>3. MemoryTyped'
    <3>1. row[w].name \in Names \cup {""} /\ job[w].observer \in Observers
      BY JobFields DEF ControlTyped
    <3>2. /\ identities' \subseteq Observers
          /\ cachedName' \in [Observers -> Names \cup {""}]
      BY <3>1 DEF MemoryTyped
    <3> QED BY <3>2 DEF MemoryTyped, dirty, flushes
  <2>4. ControlTyped'
    BY <2>1, ControlStays DEF flushes
  <2>5. TallyTyped'
    BY TallyStays
  <2> QED BY <2>1, <2>2, <2>3, <2>4, <2>5
<1> QED BY <1>1, <1>2, <1>3

\* UpsertObserverBroker keeps the variables typed.
LEMMA BrokerTypeOK ==
  ASSUME TypeOK, NEW w \in Workers,
         BrokerLookup(w) \/ BrokerStore(w) \/ BrokerRecord(w)
  PROVE  TypeOK'
<1> USE DEF TypeOK
<1>0. /\ pc[w] # "idle"
      /\ job[w] \in Message
      /\ <<job[w].observer, w>> \in Pairs
  <2>1. pc[w] # "idle"
    BY DEF BrokerLookup, BrokerStore, BrokerRecord
  <2> QED BY <2>1, JobFields
<1>1. PcTyped' /\ job' \in [Workers -> Message \cup {Idle}]
  <2>1. PICK next \in {AfterBroker(job[w]), BrokerFailed(job[w]), "brokerStore",
                       "brokerRecord"} : Goto(w, next)
    BY DEF BrokerLookup, BrokerStore, BrokerRecord
  <2>2. CASE next \in {AfterBroker(job[w]), BrokerFailed(job[w])}
    BY <1>0, <2>1, <2>2, AfterBrokerFits, GotoTyped DEF ControlTyped
  <2>3. CASE next \in {"brokerStore", "brokerRecord"}
    <3>1. /\ next \in Calls /\ next \notin PacketCalls
          /\ next \notin {"status", "statusDrop"}
      BY <2>3 DEF Calls, PacketCalls
    <3> QED BY <1>0, <2>1, <3>1, GotoTyped DEF ControlTyped
  <2> QED BY <2>1, <2>2, <2>3
<1>2. UNCHANGED <<row, flush, batch, final, life, now>>
  BY DEF BrokerLookup, BrokerStore, BrokerRecord, flushes
<1>3. ControlTyped'
  BY <1>1, <1>2, ControlStays
<1>4. now \in Nat
  BY DEF ControlTyped
<1>5. StoreTyped'
  <2>1. /\ UNCHANGED <<observers, observationCount, lastSeen, displayName, iatas, lastHeard>>
        /\ \/ UNCHANGED brokerSeen
           \/ brokerSeen' = [brokerSeen EXCEPT ![<<job[w].observer, w>>] = now]
    BY DEF BrokerLookup, BrokerStore, BrokerRecord, store
  <2> QED BY <1>0, <1>4, <2>1 DEF StoreTyped
<1>6. MemoryTyped'
  <2>1. /\ UNCHANGED <<identities, cachedName, knownIATAs, packetsSeen, dirtyObservers,
                       dirtyPackets>>
        /\ \/ UNCHANGED dirtyBrokers
           \/ dirtyBrokers' = [dirtyBrokers EXCEPT ![<<job[w].observer, w>>] = now]
        /\ \/ UNCHANGED knownBrokers
           \/ knownBrokers' = knownBrokers \cup {<<job[w].observer, w>>}
    BY DEF BrokerLookup, BrokerStore, BrokerRecord, memory, caches, dirty
  <2> QED BY <1>0, <1>2, <1>4, <2>1 DEF MemoryTyped
<1>7. TallyTyped'
  <2>1. /\ UNCHANGED <<observed, lost, created, messages, restarts>>
        /\ StatementFails \/ UNCHANGED failures
    BY DEF BrokerLookup, BrokerStore, BrokerRecord, tally
  <2> QED BY <2>1, FailureTyped
<1> QED BY <1>1, <1>3, <1>5, <1>6, <1>7

\* UpsertIATA keeps the variables typed.
LEMMA IataTypeOK ==
  ASSUME TypeOK, NEW w \in Workers,
         IataLookup(w) \/ IataStore(w) \/ IataRecord(w)
  PROVE  TypeOK'
<1> USE DEF TypeOK
<1>0. pc[w] \in PacketCalls /\ pc[w] # "idle"
  BY DEF IataLookup, IataStore, IataRecord, PacketCalls
<1>1. job[w].kind = "packet" /\ job[w].iata \in Iatas
  BY <1>0, JobFields DEF PcTyped
<1>2. PcTyped' /\ job' \in [Workers -> Message \cup {Idle}]
  <2>1. PICK next \in {"packet", "iataStore", "iataRecord", "idle"} : Goto(w, next)
    BY DEF IataLookup, IataStore, IataRecord
  <2>2. next \in Calls /\ next \notin {"status", "statusDrop"}
    BY DEF Calls, PacketCalls
  <2> QED BY <1>0, <1>1, <2>1, <2>2, GotoTyped DEF ControlTyped
<1>3. UNCHANGED <<row, flush, batch, final, life, now>>
  BY DEF IataLookup, IataStore, IataRecord, flushes
<1>4. ControlTyped'
  BY <1>2, <1>3, ControlStays
<1>5. StoreTyped'
  <2>1. /\ UNCHANGED <<observers, observationCount, lastSeen, displayName, brokerSeen,
                       lastHeard>>
        /\ iatas' \in {iatas, iatas \cup {job[w].iata}}
    BY DEF IataLookup, IataStore, IataRecord, store
  <2> QED BY <1>1, <2>1 DEF StoreTyped
<1>6. MemoryTyped'
  <2>1. /\ UNCHANGED <<identities, cachedName, knownBrokers, packetsSeen, dirtyObservers,
                       dirtyBrokers, dirtyPackets>>
        /\ knownIATAs' \in {knownIATAs, knownIATAs \cup {job[w].iata}}
    BY DEF IataLookup, IataStore, IataRecord, memory, caches, dirty
  <2> QED BY <1>1, <1>3, <2>1 DEF MemoryTyped
<1>7. TallyTyped'
  <2>1. /\ UNCHANGED <<observed, lost, created, messages, restarts>>
        /\ StatementFails \/ UNCHANGED failures
    BY DEF IataLookup, IataStore, IataRecord, tally
  <2> QED BY <2>1, FailureTyped
<1> QED BY <1>2, <1>4, <1>5, <1>6, <1>7

\* UpsertPacket keeps the variables typed.
LEMMA PacketTypeOK ==
  ASSUME TypeOK, NEW w \in Workers,
         PacketLookup(w) \/ PacketStore(w) \/ PacketRecord(w)
  PROVE  TypeOK'
<1> USE DEF TypeOK
<1>0. pc[w] \in PacketCalls /\ pc[w] # "idle"
  BY DEF PacketLookup, PacketStore, PacketRecord, PacketCalls
<1>1. job[w].kind = "packet" /\ job[w].packet \in Packets
  BY <1>0, JobFields DEF PcTyped
<1>2. PcTyped' /\ job' \in [Workers -> Message \cup {Idle}]
  <2>1. PICK next \in {"packetStore", "packetRecord", "idle"} : Goto(w, next)
    BY DEF PacketLookup, PacketStore, PacketRecord
  <2>2. next \in Calls /\ next \notin {"status", "statusDrop"}
    BY DEF Calls, PacketCalls
  <2> QED BY <1>0, <1>1, <2>1, <2>2, GotoTyped DEF ControlTyped
<1>3. UNCHANGED <<flush, batch, final, life, now>>
  BY DEF PacketLookup, PacketStore, PacketRecord, flushes
<1>4. ControlTyped'
  <2>1. row' = row \/ row' = [row EXCEPT ![w].isNew = lastHeard[job[w].packet] = 0]
    BY DEF PacketLookup, PacketStore, PacketRecord
  <2>2. (lastHeard[job[w].packet] = 0) \in BOOLEAN
    OBVIOUS
  <2>3. row' \in [Workers -> [name : Names \cup {""}, isNew : BOOLEAN]]
    <3>1. [row EXCEPT ![w].isNew = lastHeard[job[w].packet] = 0]
            \in [Workers -> [name : Names \cup {""}, isNew : BOOLEAN]]
      BY <2>2, RowTyped
    <3>2. row \in [Workers -> [name : Names \cup {""}, isNew : BOOLEAN]]
      BY DEF ControlTyped
    <3> QED BY ONLY <2>1, <3>1, <3>2
  <2> QED BY <1>2, <1>3, <2>3 DEF ControlTyped
<1>5. now \in Nat
  BY DEF ControlTyped
<1>6. StoreTyped'
  <2>1. /\ UNCHANGED <<observers, observationCount, lastSeen, displayName, brokerSeen,
                       iatas>>
        /\ lastHeard' \in {lastHeard, [lastHeard EXCEPT ![job[w].packet] = now]}
    BY DEF PacketLookup, PacketStore, PacketRecord, store
  <2> QED BY <1>1, <1>5, <2>1 DEF StoreTyped
<1>7. MemoryTyped'
  <2>1. /\ UNCHANGED <<identities, cachedName, knownBrokers, knownIATAs, dirtyObservers,
                       dirtyBrokers>>
        /\ packetsSeen' \in {packetsSeen, [packetsSeen EXCEPT ![job[w].packet] = now]}
        /\ dirtyPackets' \in {dirtyPackets, [dirtyPackets EXCEPT ![job[w].packet] = now]}
    BY DEF PacketLookup, PacketStore, PacketRecord, memory, caches, dirty
  <2>2. packetsSeen' \in [Packets -> Nat] /\ dirtyPackets' \in [Packets -> Nat]
    <3>1. packetsSeen \in [Packets -> Nat] /\ dirtyPackets \in [Packets -> Nat]
      BY DEF MemoryTyped
    <3> QED BY ONLY <1>1, <1>5, <2>1, <3>1
  <2> QED BY <1>3, <2>1, <2>2 DEF MemoryTyped
<1>8. TallyTyped'
  <2>1. /\ UNCHANGED <<observed, lost, messages, restarts>>
        /\ StatementFails \/ UNCHANGED failures
    BY DEF PacketLookup, PacketStore, PacketRecord, tally
  <2>2. created' = created \/ created' = [created EXCEPT ![job[w].packet] = @ + 1]
    <3>1. CASE PacketRecord(w)
      <4>1. created' = [created EXCEPT ![job[w].packet] =
                          IF row[w].isNew THEN @ + 1 ELSE @]
        BY <3>1 DEF PacketRecord
      <4> QED BY <4>1 DEF TallyTyped
    <3> QED BY <3>1 DEF PacketLookup, PacketStore, tally
  <2>3. created' \in [Packets -> Nat]
    BY <1>1, <2>2 DEF TallyTyped
  <2>4. failures' \in Nat
    BY <2>1 DEF TallyTyped, StatementFails
  <2> QED BY <2>1, <2>3, <2>4 DEF TallyTyped
<1> QED BY <1>2, <1>4, <1>6, <1>7, <1>8

\* UpdateObserverStatus keeps the variables typed.
LEMMA StatusTypeOK ==
  ASSUME TypeOK, NEW w \in Workers, StatusStore(w) \/ StatusDrop(w)
  PROVE  TypeOK'
<1> USE DEF TypeOK
<1>0. pc[w] \in {"status", "statusDrop"}
  BY DEF StatusStore, StatusDrop
<1>1. /\ job[w].kind = "status" /\ job[w].observer \in Observers
      /\ job[w].name \in Names \cup {""}
  BY <1>0, JobFields DEF PcTyped
<1>2. PcTyped' /\ job' \in [Workers -> Message \cup {Idle}]
  <2>1. PICK next \in {"statusDrop", "idle"} : Goto(w, next)
    BY DEF StatusStore, StatusDrop
  <2>2. next \in Calls /\ next \notin PacketCalls
    BY DEF Calls, PacketCalls
  <2> QED BY <1>0, <1>1, <2>1, <2>2, GotoTyped DEF ControlTyped
<1>3. UNCHANGED <<row, flush, batch, final, life, now>>
  BY DEF StatusStore, StatusDrop, flushes
<1>4. ControlTyped'
  BY <1>2, <1>3, ControlStays
<1>5. now \in Nat
  BY DEF ControlTyped
<1>6. StoreTyped'
  <2>1. UNCHANGED <<observers, observationCount, brokerSeen, iatas, lastHeard>>
    BY DEF StatusStore, StatusDrop, store
  <2>2. UpdateStatusRow(job[w]) \/ UNCHANGED <<displayName, lastSeen>>
    BY DEF StatusStore, StatusDrop, store
  <2>3. displayName' \in [Observers -> Names \cup {""}]
    BY <1>1, <2>2 DEF UpdateStatusRow, StoreTyped
  <2>4. lastSeen' \in [Observers -> Nat]
    BY <1>1, <1>5, <2>2 DEF UpdateStatusRow, StoreTyped
  <2> QED BY <2>1, <2>3, <2>4 DEF StoreTyped
<1>7. MemoryTyped'
  <2>1. /\ UNCHANGED <<cachedName, knownBrokers, knownIATAs, packetsSeen, dirtyObservers,
                       dirtyBrokers, dirtyPackets>>
        /\ identities' \subseteq identities
    BY DEF StatusStore, StatusDrop, memory, caches, dirty
  <2> QED BY <1>3, <2>1 DEF MemoryTyped
<1>8. TallyTyped'
  <2>1. /\ UNCHANGED <<observed, lost, created, messages, restarts>>
        /\ StatementFails \/ UNCHANGED failures
    BY DEF StatusStore, StatusDrop, tally
  <2> QED BY <2>1, FailureTyped
<1> QED BY <1>2, <1>4, <1>6, <1>7, <1>8

\* Receiving a message keeps the variables typed.
LEMMA ReceiveTypeOK ==
  ASSUME TypeOK, NEW w \in Workers, Receive(w)
  PROVE  TypeOK'
<1> USE DEF TypeOK, Receive
<1>1. PICK m \in Message : job' = [job EXCEPT ![w] = m]
  OBVIOUS
<1>2. ControlTyped'
  <2>1. job' \in [Workers -> Message \cup {Idle}]
    BY <1>1 DEF ControlTyped
  <2> QED BY <2>1, ControlStays DEF flushes
<1>3. PcTyped'
  <2>1. /\ "observer" \in Calls /\ "observer" \notin PacketCalls
        /\ "observer" \notin {"idle", "status", "statusDrop"}
    BY DEF Calls, PacketCalls
  <2>2. pc' \in [Workers -> Calls]
    BY <2>1 DEF PcTyped
  <2>3. pc'[w] = "observer" /\ job'[w] = m /\ m # Idle
    BY <1>1, MessageFields DEF PcTyped, ControlTyped
  <2>4. \A v \in Workers \ {w} : pc'[v] = pc[v] /\ job'[v] = job[v]
    BY <1>1 DEF PcTyped, ControlTyped
  <2>5. ASSUME NEW v \in Workers
        PROVE  /\ pc'[v] = "idle" <=> job'[v] = Idle
               /\ pc'[v] # "idle" => job'[v] \in Message
               /\ pc'[v] \in PacketCalls => job'[v].kind = "packet"
               /\ pc'[v] \in {"status", "statusDrop"} => job'[v].kind = "status"
    <3>1. CASE v = w
      BY <3>1, <2>1, <2>3
    <3>2. CASE v # w
      BY <3>2, <2>4 DEF PcTyped
    <3> QED BY <3>1, <3>2
  <2> QED BY <2>2, <2>5 DEF PcTyped
<1>4. StoreTyped'
  BY StoreStays
<1>5. MemoryTyped'
  BY MemoryStays DEF flushes
<1>6. TallyTyped'
  <2>1. messages' \in Nat
    BY DEF TallyTyped
  <2> QED BY <2>1 DEF TallyTyped
<1> QED BY <1>2, <1>3, <1>4, <1>5, <1>6

\* What a batch holds.
LEMMA BatchFields ==
  ASSUME MemoryTyped, NEW f \in Flushers
  PROVE  /\ batch[f] \in [observers : Bumps, brokers : [Pairs -> Nat],
                          packets : [Packets -> Nat]]
         /\ \A p \in Observers : /\ batch[f].observers[p].seen \in Nat
                                 /\ batch[f].observers[p].count \in Nat
BY DEF MemoryTyped, Bumps

\* GREATEST stays a number and never goes below its first argument.
LEMMA LatestBounds ==
  ASSUME NEW s \in Nat, NEW t \in Nat
  PROVE  Latest(s, t) \in Nat /\ Latest(s, t) >= s
BY DEF Latest

\* The steps of a flush keep the variables typed.
LEMMA FlushTypeOK ==
  ASSUME TypeOK, NEW f \in Flushers, Flush(f)
  PROVE  TypeOK'
<1> USE DEF TypeOK
<1>1. CASE \E last \in BOOLEAN : FlushTake(f, last)
  <2>0. PICK last \in BOOLEAN : FlushTake(f, last)
    BY <1>1
  <2> USE <2>0 DEF FlushTake
  <2>1. StoreTyped'
    BY StoreStays
  <2>2. MemoryTyped'
    <3>1. /\ dirtyObservers' \in Bumps /\ dirtyBrokers' \in [Pairs -> Nat]
          /\ dirtyPackets' \in [Packets -> Nat]
      BY EmptyTyped DEF TakeDirty
    <3>2. batch' \in [Flushers -> [observers : Bumps, brokers : [Pairs -> Nat],
                                   packets : [Packets -> Nat]]]
      BY DEF TakeDirty, MemoryTyped
    <3>3. packetsSeen' \in [Packets -> Nat]
      BY DEF MemoryTyped
    <3>4. UNCHANGED <<identities, cachedName, knownBrokers, knownIATAs>>
      OBVIOUS
    <3> QED BY <3>1, <3>2, <3>3, <3>4 DEF MemoryTyped
  <2>3. ControlTyped'
    <3>1. flush' \in [Flushers -> {"idle", "observers", "brokers", "packets"}]
      BY DEF ControlTyped
    <3>2. final' \subseteq Flushers
      BY DEF ControlTyped
    <3> QED BY <3>1, <3>2 DEF ControlTyped, threads
  <2>4. PcTyped'
    BY DEF PcTyped, threads
  <2>5. TallyTyped'
    BY TallyStays
  <2> QED BY <2>1, <2>2, <2>3, <2>4, <2>5
<1>2. CASE TouchObservers(f)
  <2> USE <1>2 DEF TouchObservers
  <2>1. StoreTyped'
    <3>1. \/ observationCount' = observationCount
          \/ observationCount' = [p \in Observers |-> observationCount[p]
                                                      + batch[f].observers[p].count]
      OBVIOUS
    <3>2. observationCount' \in [Observers -> Nat]
      <4>1. observationCount \in [Observers -> Nat]
        BY DEF StoreTyped
      <4>2. \A p \in Observers :
              observationCount[p] + batch[f].observers[p].count \in Nat
        BY <4>1, BatchFields
      <4> QED BY <3>1, <4>1, <4>2
    <3>3. \/ lastSeen' = lastSeen
          \/ lastSeen' = [p \in Observers |->
                            IF batch[f].observers[p] = NoBump THEN lastSeen[p]
                            ELSE Latest(lastSeen[p], batch[f].observers[p].seen)]
      OBVIOUS
    <3>4. \A p \in Observers :
            Latest(lastSeen[p], batch[f].observers[p].seen) \in Nat /\ lastSeen[p] \in Nat
      BY BatchFields, LatestBounds DEF StoreTyped
    <3>5. lastSeen' \in [Observers -> Nat]
      BY <3>3, <3>4 DEF StoreTyped
    <3> QED BY <3>2, <3>5 DEF StoreTyped
  <2>2. MemoryTyped'
    <3>1. batch' \in [Flushers -> [observers : Bumps, brokers : [Pairs -> Nat],
                                   packets : [Packets -> Nat]]]
      BY EmptyTyped DEF MemoryTyped
    <3> QED BY <3>1 DEF MemoryTyped, memory, caches, dirty
  <2>3. ControlTyped'
    <3>1. flush' \in [Flushers -> {"idle", "observers", "brokers", "packets"}]
      BY DEF ControlTyped
    <3> QED BY <3>1 DEF ControlTyped, threads
  <2>4. PcTyped'
    BY DEF PcTyped, threads
  <2>5. TallyTyped'
    <3>1. failures' \in Nat
      BY DEF TallyTyped, StatementFails
    <3>2. lost' = lost \/ \E cause \in Causes : Lose(cause, batch[f].observers)
      BY DEF Causes
    <3>3. lost' \in [Causes -> [Observers -> Nat]]
      <4>1. ASSUME NEW cause \in Causes, Lose(cause, batch[f].observers)
            PROVE  lost' \in [Causes -> [Observers -> Nat]]
        <5>1. lost[cause] \in [Observers -> Nat]
          BY DEF TallyTyped
        <5>2. [p \in Observers |-> lost[cause][p] + batch[f].observers[p].count]
                \in [Observers -> Nat]
          BY <5>1, BatchFields
        <5>3. lost' = [lost EXCEPT ![cause] = [p \in Observers |->
                         lost[cause][p] + batch[f].observers[p].count]]
          BY <4>1 DEF Lose, TallyTyped
        <5> QED BY <5>2, <5>3 DEF TallyTyped
      <4> QED BY <3>2, <4>1 DEF TallyTyped
    <3> QED BY <3>1, <3>3 DEF TallyTyped
  <2> QED BY <2>1, <2>2, <2>3, <2>4, <2>5
<1>3. CASE TouchObserverBrokers(f)
  <2> USE <1>3 DEF TouchObserverBrokers
  <2>1. StoreTyped'
    <3>1. \/ brokerSeen' = brokerSeen
          \/ brokerSeen' = [b \in Pairs |-> IF batch[f].brokers[b] = 0 THEN brokerSeen[b]
                                            ELSE Latest(brokerSeen[b], batch[f].brokers[b])]
      OBVIOUS
    <3>2. \A b \in Pairs :
            Latest(brokerSeen[b], batch[f].brokers[b]) \in Nat /\ brokerSeen[b] \in Nat
      BY BatchFields, LatestBounds DEF StoreTyped
    <3>3. brokerSeen' \in [Pairs -> Nat]
      BY <3>1, <3>2 DEF StoreTyped
    <3> QED BY <3>3 DEF StoreTyped
  <2>2. MemoryTyped'
    <3>1. [b \in Pairs |-> 0] \in [Pairs -> Nat]
      OBVIOUS
    <3>2. batch' \in [Flushers -> [observers : Bumps, brokers : [Pairs -> Nat],
                                   packets : [Packets -> Nat]]]
      BY <3>1 DEF MemoryTyped
    <3> QED BY <3>2 DEF MemoryTyped, memory, caches, dirty
  <2>3. ControlTyped'
    <3>1. flush' \in [Flushers -> {"idle", "observers", "brokers", "packets"}]
      BY DEF ControlTyped
    <3> QED BY <3>1 DEF ControlTyped, threads
  <2>4. PcTyped'
    BY DEF PcTyped, threads
  <2>5. TallyTyped'
    BY FailureTyped
  <2> QED BY <2>1, <2>2, <2>3, <2>4, <2>5
<1>4. CASE TouchPackets(f)
  <2> USE <1>4 DEF TouchPackets
  <2>1. StoreTyped'
    <3>1. \/ lastHeard' = lastHeard
          \/ lastHeard' = [h \in Packets |-> IF batch[f].packets[h] = 0 THEN lastHeard[h]
                                             ELSE Latest(lastHeard[h], batch[f].packets[h])]
      OBVIOUS
    <3>2. \A h \in Packets :
            Latest(lastHeard[h], batch[f].packets[h]) \in Nat /\ lastHeard[h] \in Nat
      BY BatchFields, LatestBounds DEF StoreTyped
    <3>3. lastHeard' \in [Packets -> Nat]
      BY <3>1, <3>2 DEF StoreTyped
    <3> QED BY <3>3 DEF StoreTyped
  <2>2. MemoryTyped'
    <3>1. [h \in Packets |-> 0] \in [Packets -> Nat]
      OBVIOUS
    <3>2. batch' \in [Flushers -> [observers : Bumps, brokers : [Pairs -> Nat],
                                   packets : [Packets -> Nat]]]
      BY <3>1 DEF MemoryTyped
    <3> QED BY <3>2 DEF MemoryTyped, memory, caches, dirty
  <2>3. ControlTyped'
    <3>1. flush' \in [Flushers -> {"idle", "observers", "brokers", "packets"}]
      BY DEF ControlTyped
    <3> QED BY <3>1 DEF ControlTyped, threads
  <2>4. PcTyped'
    BY DEF PcTyped, threads
  <2>5. TallyTyped'
    BY FailureTyped
  <2> QED BY <2>1, <2>2, <2>3, <2>4, <2>5
<1> QED BY <1>1, <1>2, <1>3, <1>4 DEF Flush

\* A clean stop and a crash leave empty maps behind.
LEMMA StopTypeOK ==
  ASSUME TypeOK, NEW cause \in Causes, Stop(cause)
  PROVE  TypeOK'
<1> USE DEF TypeOK
<1>1. StoreTyped'
  BY StoreStays DEF Stop
<1>2. MemoryTyped'
  <2>1. /\ identities' \subseteq Observers /\ knownBrokers' \subseteq Pairs
        /\ knownIATAs' \subseteq Iatas /\ cachedName' \in [Observers -> Names \cup {""}]
    BY DEF Stop
  <2>2. packetsSeen' \in [Packets -> Nat] /\ dirtyPackets' \in [Packets -> Nat]
    <3>1. [h \in Packets |-> 0] \in [Packets -> Nat]
      OBVIOUS
    <3> QED BY <3>1 DEF Stop
  <2>3. dirtyBrokers' \in [Pairs -> Nat]
    <3>1. [b \in Pairs |-> 0] \in [Pairs -> Nat]
      OBVIOUS
    <3> QED BY <3>1 DEF Stop
  <2>4. dirtyObservers' \in Bumps
    BY EmptyTyped DEF Stop
  <2>5. batch' \in [Flushers -> [observers : Bumps, brokers : [Pairs -> Nat],
                                 packets : [Packets -> Nat]]]
    BY EmptyTyped DEF Stop
  <2> QED BY <2>1, <2>2, <2>3, <2>4, <2>5 DEF MemoryTyped
<1>3. ControlTyped'
  <2>1. NoRow \in [name : Names \cup {""}, isNew : BOOLEAN]
    BY DEF NoRow
  <2>2. row' \in [Workers -> [name : Names \cup {""}, isNew : BOOLEAN]]
    BY <2>1 DEF Stop
  <2>3. job' \in [Workers -> Message \cup {Idle}]
    BY DEF Stop
  <2>4. flush' \in [Flushers -> {"idle", "observers", "brokers", "packets"}]
    BY DEF Stop
  <2>5. final' \subseteq Flushers /\ life' \in {"up", "stopping", "down"}
    BY DEF Stop
  <2>6. now' = now
    BY DEF Stop
  <2> QED BY <2>2, <2>3, <2>4, <2>5, <2>6 DEF ControlTyped
<1>4. PcTyped'
  <2>1. "idle" \in Calls /\ "idle" \notin PacketCalls
    BY DEF Calls, PacketCalls
  <2>2. pc' = [w \in Workers |-> "idle"] /\ job' = [w \in Workers |-> Idle]
    BY DEF Stop
  <2> QED BY <2>1, <2>2 DEF PcTyped
<1>5. TallyTyped'
  <2>1. \A p \in Observers : Pending(p) \in Nat
    <3>1. /\ \A p \in Observers : dirtyObservers[p].count \in Nat
          /\ "run" \in Flushers /\ "main" \in Flushers
      BY DEF MemoryTyped, Bumps, Flushers
    <3> QED BY <3>1, BatchFields DEF Pending
  <2>2. lost[cause] \in [Observers -> Nat]
    BY DEF TallyTyped
  <2>3. [p \in Observers |-> lost[cause][p] + Pending(p)] \in [Observers -> Nat]
    BY <2>1, <2>2
  <2>4. lost' = [lost EXCEPT ![cause] = [p \in Observers |-> lost[cause][p] + Pending(p)]]
    BY DEF Stop
  <2>5. lost' \in [Causes -> [Observers -> Nat]]
    BY <2>3, <2>4 DEF TallyTyped
  <2>6. UNCHANGED <<observed, created, messages, failures, restarts>>
    BY DEF Stop
  <2> QED BY <2>5, <2>6 DEF TallyTyped
<1> QED BY <1>1, <1>2, <1>3, <1>4, <1>5

\* Signals, restarts and the clock keep the variables typed.
LEMMA ProcessTypeOK ==
  ASSUME TypeOK, Process \/ Tick
  PROVE  TypeOK'
<1> USE DEF TypeOK
<1>1. CASE Exit
  BY <1>1, StopTypeOK DEF Exit, Causes
<1>2. CASE Crash
  BY <1>2, StopTypeOK DEF Crash, Causes
<1>3. CASE Cancel \/ Restart \/ Tick
  <2>1. UNCHANGED <<store, memory, threads, flushes>>
    BY <1>3 DEF Cancel, Restart, Tick
  <2>2. StoreTyped'
    BY <2>1, StoreStays
  <2>3. MemoryTyped'
    BY <2>1, MemoryStays DEF flushes
  <2>4. PcTyped'
    BY <2>1 DEF threads, PcTyped
  <2>5. ControlTyped'
    <3>1. life' \in {"up", "stopping", "down"}
      BY <1>3 DEF Cancel, Restart, Tick, ControlTyped
    <3>2. now' \in Nat \ {0}
      <4>1. now' = now \/ now' = now + 1
        BY <1>3 DEF Cancel, Restart, Tick
      <4>2. now \in Nat \ {0}
        BY DEF ControlTyped
      <4> QED BY <4>1, <4>2
    <3> QED BY <2>1, <3>1, <3>2 DEF ControlTyped, threads, flushes
  <2>6. TallyTyped'
    <3>1. UNCHANGED <<observed, lost, created, messages, failures>>
      BY <1>3 DEF Cancel, Restart, Tick, tally
    <3>2. restarts' = restarts \/ restarts' = restarts + 1
      BY <1>3 DEF Cancel, Restart, Tick, tally
    <3>3. restarts' \in Nat
      BY <3>2 DEF TallyTyped
    <3> QED BY <3>1, <3>3 DEF TallyTyped
  <2> QED BY <2>2, <2>3, <2>4, <2>5, <2>6
<1> QED BY <1>1, <1>2, <1>3 DEF Process

\* Every step keeps the variables typed.
LEMMA NextTypeOK ==
  ASSUME TypeOK, [Next]_vars
  PROVE  TypeOK'
<1>1. ASSUME NEW w \in Workers, Worker(w)
      PROVE  TypeOK'
  BY <1>1, ReceiveTypeOK, ObserverTypeOK, BrokerTypeOK, IataTypeOK, PacketTypeOK,
     StatusTypeOK DEF Worker
<1>2. CASE UNCHANGED vars
  <2>1. StoreTyped'
    BY <1>2, StoreStays DEF TypeOK, vars
  <2>2. MemoryTyped'
    BY <1>2, MemoryStays DEF TypeOK, vars, flushes
  <2>3. ControlTyped' /\ PcTyped'
    BY <1>2 DEF TypeOK, vars, threads, flushes, ControlTyped, PcTyped
  <2>4. TallyTyped'
    BY <1>2, TallyStays DEF TypeOK, vars
  <2> QED BY <2>1, <2>2, <2>3, <2>4 DEF TypeOK
<1> QED BY <1>1, <1>2, FlushTypeOK, ProcessTypeOK DEF Next

\* Every variable keeps its type, and a worker is only ever in a call that its
\* message has (the handlers of internal/ingest).
THEOREM TypeCorrect == Spec => []TypeOK
<1>1. TypeOK /\ [Next]_vars => TypeOK'
  BY NextTypeOK
<1> QED BY InitTypeOK, <1>1, PTL DEF Spec

(***************************************************************************)
(* Times: NotAhead and NeverRegresses                                      *)
(***************************************************************************)

\* No step of a worker makes a time go back or ahead of the clock.
LEMMA WorkerTimes ==
  ASSUME TypeOK, NotAhead, NEW w \in Workers, Worker(w)
  PROVE  /\ now' = now /\ UNCHANGED batch
         /\ lastSeen' = lastSeen
            \/ \E p \in Observers : lastSeen' = [lastSeen EXCEPT ![p] = now]
         /\ brokerSeen' = brokerSeen
            \/ \E b \in Pairs : brokerSeen' = [brokerSeen EXCEPT ![b] = now]
         /\ lastHeard' = lastHeard
            \/ \E h \in Packets : lastHeard' = [lastHeard EXCEPT ![h] = now]
         /\ dirtyObservers' = dirtyObservers
            \/ \E p \in Observers : dirtyObservers' = [dirtyObservers EXCEPT ![p] =
                                       [seen |-> now, count |-> @.count + 1]]
         /\ dirtyBrokers' = dirtyBrokers
            \/ \E b \in Pairs : dirtyBrokers' = [dirtyBrokers EXCEPT ![b] = now]
         /\ dirtyPackets' = dirtyPackets
            \/ \E h \in Packets : dirtyPackets' = [dirtyPackets EXCEPT ![h] = now]
<1>1. pc[w] # "idle" => /\ job[w].observer \in Observers
                        /\ <<job[w].observer, w>> \in Pairs
                        /\ pc[w] \in PacketCalls => job[w].packet \in Packets
  BY JobFields DEF TypeOK
<1>2. CASE Receive(w)
  BY <1>2 DEF Receive, flushes, store, memory, dirty
<1>3. CASE ObserverLookup(w)
  BY <1>1, <1>3 DEF ObserverLookup, flushes, store
<1>4. CASE ObserverStore(w)
  BY <1>1, <1>4 DEF ObserverStore, UpsertObserverRow, flushes, memory, dirty
<1>5. CASE ObserverRecord(w)
  BY <1>5 DEF ObserverRecord, flushes, store, dirty
<1>6. CASE BrokerLookup(w)
  BY <1>1, <1>6 DEF BrokerLookup, flushes, store
<1>7. CASE BrokerStore(w)
  BY <1>1, <1>7 DEF BrokerStore, flushes, memory, dirty
<1>8. CASE BrokerRecord(w)
  BY <1>8 DEF BrokerRecord, flushes, store, dirty
<1>9. CASE IataLookup(w)
  BY <1>9 DEF IataLookup, flushes, store, memory, dirty
<1>10. CASE IataStore(w)
  BY <1>10 DEF IataStore, flushes, memory, dirty
<1>11. CASE IataRecord(w)
  BY <1>11 DEF IataRecord, flushes, store, dirty
<1>12. CASE PacketLookup(w)
  BY <1>1, <1>12 DEF PacketLookup, PacketCalls, flushes, store
<1>13. CASE PacketStore(w)
  BY <1>1, <1>13 DEF PacketStore, PacketCalls, flushes, memory, dirty
<1>14. CASE PacketRecord(w)
  BY <1>14 DEF PacketRecord, flushes, store, dirty
<1>15. CASE StatusStore(w)
  BY <1>1, <1>15 DEF StatusStore, UpdateStatusRow, flushes, memory, dirty
<1>16. CASE StatusDrop(w)
  BY <1>16 DEF StatusDrop, flushes, store, dirty
<1> QED BY <1>2, <1>3, <1>4, <1>5, <1>6, <1>7, <1>8, <1>9, <1>10, <1>11, <1>12, <1>13,
           <1>14, <1>15, <1>16 DEF Worker

\* The steps of a worker write the present.
LEMMA WorkerForward ==
  ASSUME TypeOK, NotAhead, NEW w \in Workers, Worker(w)
  PROVE  NotAhead' /\ Forward
<1>0. /\ now \in Nat
      /\ lastSeen \in [Observers -> Nat] /\ brokerSeen \in [Pairs -> Nat]
      /\ lastHeard \in [Packets -> Nat] /\ dirtyObservers \in Bumps
      /\ dirtyBrokers \in [Pairs -> Nat] /\ dirtyPackets \in [Packets -> Nat]
  BY DEF TypeOK, ControlTyped, StoreTyped, MemoryTyped
<1>1. /\ now' = now /\ UNCHANGED batch
      /\ lastSeen' = lastSeen
         \/ \E p \in Observers : lastSeen' = [lastSeen EXCEPT ![p] = now]
      /\ brokerSeen' = brokerSeen
         \/ \E b \in Pairs : brokerSeen' = [brokerSeen EXCEPT ![b] = now]
      /\ lastHeard' = lastHeard
         \/ \E h \in Packets : lastHeard' = [lastHeard EXCEPT ![h] = now]
      /\ dirtyObservers' = dirtyObservers
         \/ \E p \in Observers : dirtyObservers' = [dirtyObservers EXCEPT ![p] =
                                    [seen |-> now, count |-> @.count + 1]]
      /\ dirtyBrokers' = dirtyBrokers
         \/ \E b \in Pairs : dirtyBrokers' = [dirtyBrokers EXCEPT ![b] = now]
      /\ dirtyPackets' = dirtyPackets
         \/ \E h \in Packets : dirtyPackets' = [dirtyPackets EXCEPT ![h] = now]
  BY WorkerTimes
<1>2. ASSUME NEW p \in Observers
      PROVE  /\ lastSeen'[p] <= now /\ lastSeen'[p] >= lastSeen[p]
             /\ dirtyObservers'[p].seen <= now
  <2>1. lastSeen[p] <= now /\ dirtyObservers[p].seen <= now
    BY DEF NotAhead
  <2>2. lastSeen'[p] = lastSeen[p] \/ lastSeen'[p] = now
    BY <1>0, <1>1
  <2>3. dirtyObservers'[p].seen = dirtyObservers[p].seen \/ dirtyObservers'[p].seen = now
    BY <1>0, <1>1 DEF Bumps
  <2> QED BY <1>0, <2>1, <2>2, <2>3
<1>3. ASSUME NEW b \in Pairs
      PROVE  /\ brokerSeen'[b] <= now /\ brokerSeen'[b] >= brokerSeen[b]
             /\ dirtyBrokers'[b] <= now
  <2>1. brokerSeen[b] <= now /\ dirtyBrokers[b] <= now
    BY DEF NotAhead
  <2>2. brokerSeen'[b] = brokerSeen[b] \/ brokerSeen'[b] = now
    BY <1>0, <1>1
  <2>3. dirtyBrokers'[b] = dirtyBrokers[b] \/ dirtyBrokers'[b] = now
    BY <1>0, <1>1
  <2> QED BY <1>0, <2>1, <2>2, <2>3
<1>4. ASSUME NEW h \in Packets
      PROVE  /\ lastHeard'[h] <= now /\ lastHeard'[h] >= lastHeard[h]
             /\ dirtyPackets'[h] <= now
  <2>1. lastHeard[h] <= now /\ dirtyPackets[h] <= now
    BY DEF NotAhead
  <2>2. lastHeard'[h] = lastHeard[h] \/ lastHeard'[h] = now
    BY <1>0, <1>1
  <2>3. dirtyPackets'[h] = dirtyPackets[h] \/ dirtyPackets'[h] = now
    BY <1>0, <1>1
  <2> QED BY <1>0, <2>1, <2>2, <2>3
<1>5. NotAhead'
  BY <1>1, <1>2, <1>3, <1>4 DEF NotAhead
<1>6. Forward
  BY <1>2, <1>3, <1>4 DEF Forward
<1> QED BY <1>5, <1>6

\* A flush writes the later of two times that are not ahead of the clock.
LEMMA FlushForward ==
  ASSUME TypeOK, NotAhead, NEW f \in Flushers, Flush(f)
  PROVE  NotAhead' /\ Forward
<1>0. /\ now \in Nat
      /\ lastSeen \in [Observers -> Nat] /\ brokerSeen \in [Pairs -> Nat]
      /\ lastHeard \in [Packets -> Nat]
      /\ DOMAIN batch = Flushers /\ batch = [g \in Flushers |-> batch[g]]
  BY DEF TypeOK, ControlTyped, StoreTyped, MemoryTyped
<1>1. \A g \in Flushers : /\ batch[g] \in [observers : Bumps, brokers : [Pairs -> Nat],
                                           packets : [Packets -> Nat]]
                          /\ \A p \in Observers : batch[g].observers[p].seen \in Nat
  BY BatchFields DEF TypeOK
<1>2. /\ \A p \in Observers : NoBumps[p].seen = 0
      /\ NotAhead
  BY EmptyTyped
<1>3. CASE \E last \in BOOLEAN : FlushTake(f, last)
  <2>1. /\ UNCHANGED <<lastSeen, brokerSeen, lastHeard, now>>
        /\ dirtyObservers' = NoBumps /\ dirtyBrokers' = [b \in Pairs |-> 0]
        /\ dirtyPackets' = [h \in Packets |-> 0]
        /\ batch' = [batch EXCEPT ![f] = [observers |-> dirtyObservers,
                                          brokers   |-> dirtyBrokers,
                                          packets   |-> dirtyPackets]]
    BY <1>3 DEF FlushTake, TakeDirty, store
  <2>2. \A g \in Flushers : batch'[g] = batch[g]
                         \/ batch'[g] = [observers |-> dirtyObservers,
                                         brokers   |-> dirtyBrokers,
                                         packets   |-> dirtyPackets]
    BY <1>0, <2>1
  <2>3. /\ \A p \in Observers, g \in Flushers : batch'[g].observers[p].seen <= now
        /\ \A b \in Pairs, g \in Flushers : batch'[g].brokers[b] <= now
        /\ \A h \in Packets, g \in Flushers : batch'[g].packets[h] <= now
    BY <2>2 DEF NotAhead
  <2>4. NotAhead'
    BY <1>0, <1>2, <2>1, <2>3 DEF NotAhead
  <2> QED BY <1>0, <2>1, <2>4 DEF Forward
<1>4. CASE TouchObservers(f)
  <2>1. /\ UNCHANGED <<brokerSeen, lastHeard, now, dirtyObservers, dirtyBrokers,
                       dirtyPackets>>
        /\ batch' = [batch EXCEPT ![f].observers = NoBumps]
    BY <1>4 DEF TouchObservers, memory, dirty
  <2>2. \/ lastSeen' = lastSeen
        \/ lastSeen' = [p \in Observers |->
                          IF batch[f].observers[p] = NoBump THEN lastSeen[p]
                          ELSE Latest(lastSeen[p], batch[f].observers[p].seen)]
    BY <1>4 DEF TouchObservers
  <2>3. \A p \in Observers : lastSeen'[p] >= lastSeen[p] /\ lastSeen'[p] <= now
    BY <1>0, <1>1, <2>2 DEF Latest, NotAhead
  <2>4. /\ \A p \in Observers, g \in Flushers : batch'[g].observers[p].seen <= now
        /\ \A g \in Flushers : batch'[g].brokers = batch[g].brokers
                            /\ batch'[g].packets = batch[g].packets
    BY <1>0, <1>1, <1>2, <2>1 DEF NotAhead
  <2>5. NotAhead'
    BY <2>1, <2>3, <2>4 DEF NotAhead
  <2> QED BY <1>0, <2>1, <2>3, <2>5 DEF Forward
<1>5. CASE TouchObserverBrokers(f)
  <2>1. /\ UNCHANGED <<lastSeen, lastHeard, now, dirtyObservers, dirtyBrokers,
                       dirtyPackets>>
        /\ batch' = [batch EXCEPT ![f].brokers = [b \in Pairs |-> 0]]
    BY <1>5 DEF TouchObserverBrokers, memory, dirty
  <2>2. \/ brokerSeen' = brokerSeen
        \/ brokerSeen' = [b \in Pairs |-> IF batch[f].brokers[b] = 0 THEN brokerSeen[b]
                                          ELSE Latest(brokerSeen[b], batch[f].brokers[b])]
    BY <1>5 DEF TouchObserverBrokers
  <2>3. \A b \in Pairs : brokerSeen'[b] >= brokerSeen[b] /\ brokerSeen'[b] <= now
    BY <1>0, <1>1, <2>2 DEF Latest, NotAhead
  <2>4. /\ \A b \in Pairs, g \in Flushers : batch'[g].brokers[b] <= now
        /\ \A g \in Flushers : batch'[g].observers = batch[g].observers
                            /\ batch'[g].packets = batch[g].packets
    BY <1>0, <1>1, <2>1 DEF NotAhead
  <2>5. NotAhead'
    BY <2>1, <2>3, <2>4 DEF NotAhead
  <2> QED BY <1>0, <2>1, <2>3, <2>5 DEF Forward
<1>6. CASE TouchPackets(f)
  <2>1. /\ UNCHANGED <<lastSeen, brokerSeen, now, dirtyObservers, dirtyBrokers,
                       dirtyPackets>>
        /\ batch' = [batch EXCEPT ![f].packets = [h \in Packets |-> 0]]
    BY <1>6 DEF TouchPackets, memory, dirty
  <2>2. \/ lastHeard' = lastHeard
        \/ lastHeard' = [h \in Packets |-> IF batch[f].packets[h] = 0 THEN lastHeard[h]
                                           ELSE Latest(lastHeard[h], batch[f].packets[h])]
    BY <1>6 DEF TouchPackets
  <2>3. \A h \in Packets : lastHeard'[h] >= lastHeard[h] /\ lastHeard'[h] <= now
    BY <1>0, <1>1, <2>2 DEF Latest, NotAhead
  <2>4. /\ \A h \in Packets, g \in Flushers : batch'[g].packets[h] <= now
        /\ \A g \in Flushers : batch'[g].observers = batch[g].observers
                            /\ batch'[g].brokers = batch[g].brokers
    BY <1>0, <1>1, <2>1 DEF NotAhead
  <2>5. NotAhead'
    BY <2>1, <2>3, <2>4 DEF NotAhead
  <2> QED BY <1>0, <2>1, <2>3, <2>5 DEF Forward
<1> QED BY <1>3, <1>4, <1>5, <1>6 DEF Flush

\* A stop empties the maps; the rest leaves the times and lets the clock go on.
LEMMA ProcessForward ==
  ASSUME TypeOK, NotAhead, Process \/ Tick
  PROVE  NotAhead' /\ Forward
<1>0. /\ now \in Nat
      /\ lastSeen \in [Observers -> Nat] /\ brokerSeen \in [Pairs -> Nat]
      /\ lastHeard \in [Packets -> Nat] /\ dirtyObservers \in Bumps
      /\ dirtyBrokers \in [Pairs -> Nat] /\ dirtyPackets \in [Packets -> Nat]
  BY DEF TypeOK, ControlTyped, StoreTyped, MemoryTyped
<1>1. Forward
  <2>1. UNCHANGED <<lastSeen, brokerSeen, lastHeard>>
    BY DEF Process, Cancel, Exit, Crash, Restart, Stop, Tick, store
  <2> QED BY <1>0, <2>1 DEF Forward
<1>2. CASE \E cause \in Causes : Stop(cause)
  <2>1. /\ UNCHANGED <<lastSeen, brokerSeen, lastHeard, now>>
        /\ dirtyObservers' = NoBumps /\ dirtyBrokers' = [b \in Pairs |-> 0]
        /\ dirtyPackets' = [h \in Packets |-> 0]
        /\ batch' = [f \in Flushers |-> NoBatch]
    BY <1>2 DEF Stop, store
  <2>2. \A p \in Observers : NoBumps[p].seen = 0
    BY EmptyTyped
  <2>3. \A f \in Flushers : /\ batch'[f].observers = NoBumps
                            /\ batch'[f].brokers = [b \in Pairs |-> 0]
                            /\ batch'[f].packets = [h \in Packets |-> 0]
    BY <2>1 DEF NoBatch
  <2> QED BY <1>0, <1>1, <2>1, <2>2, <2>3 DEF NotAhead
<1>3. CASE Cancel \/ Restart \/ Tick
  <2>1. /\ UNCHANGED <<lastSeen, brokerSeen, lastHeard, batch, dirtyObservers,
                       dirtyBrokers, dirtyPackets>>
        /\ now' = now \/ now' = now + 1
    BY <1>3 DEF Cancel, Restart, Tick, store, memory, dirty, flushes
  <2>2. \A t \in Nat : t <= now => t <= now'
    BY <1>0, <2>1
  <2>3. \A f \in Flushers : /\ \A p \in Observers : batch[f].observers[p].seen \in Nat
                            /\ \A b \in Pairs : batch[f].brokers[b] \in Nat
                            /\ \A h \in Packets : batch[f].packets[h] \in Nat
    BY BatchFields DEF TypeOK
  <2>4. \A p \in Observers : dirtyObservers[p].seen \in Nat
    BY <1>0 DEF Bumps
  <2>5. NotAhead'
    BY <1>0, <2>1, <2>2, <2>3, <2>4 DEF NotAhead
  <2> QED BY <1>1, <2>5
<1> QED BY <1>2, <1>3 DEF Process, Exit, Crash, Causes

\* Every step keeps the times behind the clock, and none goes back.
LEMMA NextForward ==
  ASSUME TypeOK, NotAhead, [Next]_vars
  PROVE  NotAhead' /\ Forward
<1>1. CASE UNCHANGED vars
  <2>1. /\ lastSeen \in [Observers -> Nat] /\ brokerSeen \in [Pairs -> Nat]
        /\ lastHeard \in [Packets -> Nat]
    BY DEF TypeOK, StoreTyped
  <2>2. UNCHANGED <<lastSeen, brokerSeen, lastHeard, dirtyObservers, dirtyBrokers,
                    dirtyPackets, batch, now>>
    BY <1>1 DEF vars, store, memory, dirty, flushes
  <2> QED BY <2>1, <2>2 DEF NotAhead, Forward
<1> QED BY <1>1, WorkerForward, FlushForward, ProcessForward DEF Next

\* The times start behind the clock.
LEMMA InitNotAhead == Init => NotAhead
<1> SUFFICES ASSUME Init PROVE NotAhead
  OBVIOUS
<1>1. /\ now = 1
      /\ lastSeen = [p \in Observers |-> 0] /\ brokerSeen = [b \in Pairs |-> 0]
      /\ lastHeard = [h \in Packets |-> 0] /\ dirtyObservers = NoBumps
      /\ dirtyBrokers = [b \in Pairs |-> 0] /\ dirtyPackets = [h \in Packets |-> 0]
      /\ batch = [f \in Flushers |-> NoBatch]
  BY DEF Init
<1>2. \A p \in Observers : NoBumps[p].seen = 0
  BY EmptyTyped
<1>3. \A f \in Flushers : /\ batch[f].observers = NoBumps
                          /\ batch[f].brokers = [b \in Pairs |-> 0]
                          /\ batch[f].packets = [h \in Packets |-> 0]
  BY <1>1 DEF NoBatch
<1> QED BY <1>1, <1>2, <1>3 DEF NotAhead

\* No time the store holds ever goes back: GREATEST is enough for the flushes,
\* however late, and the write-throughs write a clock that only goes on.
THEOREM NeverGoesBack == Spec => NeverRegresses
<1>1. Init => TypeOK /\ NotAhead
  BY InitTypeOK, InitNotAhead
<1>2. TypeOK /\ NotAhead /\ [Next]_vars => TypeOK' /\ NotAhead'
  BY NextTypeOK, NextForward
<1>3. TypeOK /\ NotAhead /\ [Next]_vars => [Forward]_vars
  BY NextForward
<1> QED BY <1>1, <1>2, <1>3, PTL DEF Spec, NeverRegresses

(***************************************************************************)
(* Counts: BatchSpent, Unrecorded, CountConserved                          *)
(***************************************************************************)

\* The terms of the sum are numbers.
LEMMA CountsNat ==
  ASSUME TypeOK, NEW p \in Observers
  PROVE  /\ observed[p] \in Nat /\ observationCount[p] \in Nat
         /\ dirtyObservers[p].count \in Nat
         /\ batch["run"].observers[p].count \in Nat
         /\ batch["main"].observers[p].count \in Nat
         /\ lost["failure"][p] \in Nat /\ lost["crash"][p] \in Nat
         /\ lost["shutdown"][p] \in Nat
         /\ Pending(p) \in Nat /\ Lost(p) \in Nat
<1>1. /\ observed[p] \in Nat /\ observationCount[p] \in Nat
      /\ dirtyObservers[p].count \in Nat
  BY DEF TypeOK, TallyTyped, StoreTyped, MemoryTyped, Bumps
<1>2. batch["run"].observers[p].count \in Nat /\ batch["main"].observers[p].count \in Nat
  BY BatchFields DEF TypeOK, Flushers
<1>3. \A cause \in Causes : lost[cause][p] \in Nat
  BY DEF TypeOK, TallyTyped
<1>4. lost["failure"][p] \in Nat /\ lost["crash"][p] \in Nat /\ lost["shutdown"][p] \in Nat
  BY <1>3 DEF Causes
<1> QED BY <1>1, <1>2, <1>4 DEF Pending, Lost

\* A loss is added to one cause.
LEMMA LostAdds ==
  ASSUME TypeOK, NEW cause \in Causes, NEW p \in Observers, NEW k \in Nat,
         NEW n \in [Observers -> Nat], n[p] = k,
         lost' = [lost EXCEPT ![cause] = [q \in Observers |-> @[q] + n[q]]]
  PROVE  Lost(p)' = Lost(p) + k
<1>1. \A c \in Causes : lost'[c][p] = IF c = cause THEN lost[c][p] + k ELSE lost[c][p]
  BY DEF TypeOK, TallyTyped
<1>2. \A c \in Causes : lost[c][p] \in Nat
  BY DEF TypeOK, TallyTyped
<1>3. cause \in {"failure", "crash", "shutdown"}
  BY DEF Causes
<1>4. CASE cause = "failure"
  BY <1>1, <1>2, <1>4 DEF Lost, Causes
<1>5. CASE cause = "crash"
  BY <1>1, <1>2, <1>5 DEF Lost, Causes
<1>6. CASE cause = "shutdown"
  BY <1>1, <1>2, <1>6 DEF Lost, Causes
<1> QED BY <1>3, <1>4, <1>5, <1>6

\* Writing a batch, or losing it, leaves the flusher without it.
LEMMA BatchSpentStays ==
  ASSUME TypeOK, BatchSpent, [Next]_vars
  PROVE  BatchSpent'
<1>1. CASE \E w \in Workers : Worker(w)
  BY <1>1 DEF BatchSpent, Worker, Receive, ObserverLookup, ObserverStore, ObserverRecord,
     BrokerLookup, BrokerStore, BrokerRecord, IataLookup, IataStore, IataRecord,
     PacketLookup, PacketStore, PacketRecord, StatusStore, StatusDrop, flushes
<1>2. ASSUME NEW f \in Flushers, Flush(f)
      PROVE  BatchSpent'
  <2>0. /\ flush \in [Flushers -> {"idle", "observers", "brokers", "packets"}]
        /\ batch \in [Flushers -> [observers : Bumps, brokers : [Pairs -> Nat],
                                   packets : [Packets -> Nat]]]
    BY DEF TypeOK, MemoryTyped, ControlTyped
  <2>1. \A g \in Flushers \ {f} : flush'[g] = flush[g] /\ batch'[g] = batch[g]
    BY <1>2, <2>0 DEF Flush, FlushTake, TakeDirty, TouchObservers, TouchObserverBrokers,
       TouchPackets
  <2>2. flush'[f] = "observers" \/ batch'[f].observers = NoBumps
    <3>1. CASE \E last \in BOOLEAN : FlushTake(f, last)
      BY <3>1, <2>0 DEF FlushTake
    <3>2. CASE TouchObservers(f)
      BY <3>2, <2>0 DEF TouchObservers
    <3>3. CASE TouchObserverBrokers(f)
      BY <3>3, <2>0 DEF TouchObserverBrokers, BatchSpent
    <3>4. CASE TouchPackets(f)
      BY <3>4, <2>0 DEF TouchPackets, BatchSpent
    <3> QED BY <1>2, <3>1, <3>2, <3>3, <3>4 DEF Flush
  <2> QED BY <2>1, <2>2 DEF BatchSpent
<1>3. CASE Process \/ Tick
  <2>1. \/ UNCHANGED <<flush, batch>>
        \/ batch' = [f \in Flushers |-> NoBatch]
    BY <1>3 DEF Process, Cancel, Exit, Crash, Restart, Stop, Tick, flushes
  <2>2. NoBatch.observers = NoBumps
    BY DEF NoBatch
  <2> QED BY <2>1, <2>2 DEF BatchSpent
<1>4. CASE UNCHANGED vars
  BY <1>4 DEF BatchSpent, vars, flushes
<1> QED BY <1>1, <1>2, <1>3, <1>4 DEF Next

\* What a step does with the counts of an observer: it moves increments from
\* memory to the column or to what is lost, or counts one more call.
Move(p) ==
  \/ /\ p \in observers' <=> p \in observers
     /\ observed'[p] = observed[p]
     /\ observationCount'[p] + Pending(p)' + Lost(p)'
          = observationCount[p] + Pending(p) + Lost(p)
     /\ Pending(p)' <= Pending(p)
     /\ observationCount'[p] >= observationCount[p] /\ Lost(p)' >= Lost(p)
  \/ /\ p \in observers /\ p \in observers'
     /\ observed'[p] = observed[p] + 1
     /\ observationCount'[p] + Pending(p)' = observationCount[p] + Pending(p) + 1
     /\ Lost(p)' = Lost(p)
  \/ /\ p \notin observers /\ p \in observers'
     /\ observed'[p] = observed[p] + 1
     /\ observationCount'[p] = observationCount[p]
     /\ Pending(p)' = Pending(p) /\ Lost(p)' = Lost(p)

\* A step that leaves the counts alone is such a move.
LEMMA StillMove ==
  ASSUME TypeOK, NEW p \in Observers,
         UNCHANGED <<observers, observed, observationCount, lost, dirtyObservers>>,
         \A f \in Flushers : batch'[f].observers = batch[f].observers
  PROVE  Move(p)
<1>1. Pending(p)' = Pending(p) /\ Lost(p)' = Lost(p)
  BY DEF Pending, Lost, Flushers
<1> QED BY <1>1, CountsNat DEF Move

\* The calls of a worker.
LEMMA WorkerMove ==
  ASSUME IInv, NEW w \in Workers, Worker(w), NEW p \in Observers
  PROVE  Move(p)
<1> USE DEF IInv
<1>1. CASE ObserverLookup(w)
  <2>1. job[w].observer \in Observers
    BY <1>1, JobFields DEF ObserverLookup, TypeOK
  <2>2. CASE /\ job[w].observer \in identities
             /\ dirtyObservers' = [dirtyObservers EXCEPT ![job[w].observer] =
                                     [seen |-> now, count |-> @.count + 1]]
             /\ observed' = [observed EXCEPT ![job[w].observer] = @ + 1]
    <3>1. UNCHANGED <<observers, observationCount, lost, batch>>
      BY <1>1 DEF ObserverLookup, store, flushes
    <3>2. CASE p = job[w].observer
      <4>1. p \in observers
        BY <2>2, <3>2 DEF RowsFirst
      <4>2. /\ dirtyObservers'[p].count = dirtyObservers[p].count + 1
            /\ observed'[p] = observed[p] + 1
        BY <2>2, <3>2, CountsNat DEF TypeOK, MemoryTyped, TallyTyped, Bumps
      <4>3. Pending(p)' = Pending(p) + 1 /\ Lost(p)' = Lost(p)
        BY <3>1, <4>2, CountsNat DEF Pending, Lost
      <4> QED BY <3>1, <4>1, <4>2, <4>3, CountsNat DEF Move
    <3>3. CASE p # job[w].observer
      <4>1. dirtyObservers'[p] = dirtyObservers[p] /\ observed'[p] = observed[p]
        BY <2>2, <3>3 DEF TypeOK, MemoryTyped, TallyTyped, Bumps
      <4>2. Pending(p)' = Pending(p) /\ Lost(p)' = Lost(p)
        BY <3>1, <4>1 DEF Pending, Lost
      <4> QED BY <3>1, <4>1, <4>2, CountsNat DEF Move
    <3> QED BY <3>2, <3>3
  <2>3. CASE UNCHANGED <<dirtyObservers, observed>>
    BY <1>1, <2>3, StillMove DEF ObserverLookup, store, flushes
  <2> QED BY <1>1, <2>2, <2>3 DEF ObserverLookup
<1>2. CASE ObserverStore(w)
  <2>1. job[w].observer \in Observers
    BY <1>2, JobFields DEF ObserverStore, TypeOK
  <2>2. CASE UpsertObserverRow(job[w].observer)
    <3>1. UNCHANGED <<lost, batch, dirtyObservers>>
      BY <1>2 DEF ObserverStore, memory, dirty, flushes
    <3>2. Pending(p)' = Pending(p) /\ Lost(p)' = Lost(p)
      BY <3>1 DEF Pending, Lost
    <3>3. CASE p = job[w].observer
      <4>1. p \in observers' /\ observed'[p] = observed[p] + 1
        BY <2>2, <3>3 DEF UpsertObserverRow, TypeOK, TallyTyped
      <4>2. observationCount'[p] = IF p \in observers THEN observationCount[p] + 1
                                   ELSE observationCount[p]
        BY <2>2, <3>3 DEF UpsertObserverRow, TypeOK, StoreTyped
      <4> QED BY <3>2, <4>1, <4>2, CountsNat DEF Move
    <3>4. CASE p # job[w].observer
      <4>1. /\ p \in observers' <=> p \in observers
            /\ observed'[p] = observed[p]
        BY <2>2, <3>4 DEF UpsertObserverRow, TypeOK, TallyTyped
      <4>2. observationCount'[p] = observationCount[p]
        BY <2>2, <3>4 DEF UpsertObserverRow, TypeOK, StoreTyped
      <4> QED BY <3>2, <4>1, <4>2, CountsNat DEF Move
    <3> QED BY <3>3, <3>4
  <2>3. CASE UNCHANGED <<observers, observationCount, lastSeen, observed>>
    BY <1>2, <2>3, StillMove DEF ObserverStore, memory, dirty, flushes
  <2> QED BY <1>2, <2>2, <2>3 DEF ObserverStore
<1>3. CASE Worker(w) /\ ~ObserverLookup(w) /\ ~ObserverStore(w)
  <2>1. UNCHANGED <<observers, observed, observationCount, lost, dirtyObservers, batch>>
    BY <1>3 DEF Worker, Receive, ObserverRecord, BrokerLookup, BrokerStore, BrokerRecord,
       IataLookup, IataStore, IataRecord, PacketLookup, PacketStore, PacketRecord,
       StatusStore, StatusDrop, flushes, store, memory, caches, dirty, tally
  <2> QED BY <2>1, StillMove
<1> QED BY <1>1, <1>2, <1>3

\* Taking a batch, and writing or losing it.
LEMMA FlushMove ==
  ASSUME IInv, NEW f \in Flushers, Flush(f), NEW p \in Observers
  PROVE  Move(p)
<1> USE DEF IInv
<1>0. /\ batch \in [Flushers -> [observers : Bumps, brokers : [Pairs -> Nat],
                                 packets : [Packets -> Nat]]]
      /\ NoBumps[p].count = 0
      /\ Flushers = {"run", "main"}
  <2>1. NoBumps[p] = [seen |-> 0, count |-> 0]
    BY EmptyTyped
  <2>2. NoBumps[p].count = 0
    BY <2>1
  <2>3. batch \in [Flushers -> [observers : Bumps, brokers : [Pairs -> Nat],
                                packets : [Packets -> Nat]]]
    BY DEF TypeOK, MemoryTyped
  <2> QED BY <2>2, <2>3 DEF Flushers
<1>1. CASE \E last \in BOOLEAN : FlushTake(f, last)
  <2>1. /\ UNCHANGED <<observers, observed, observationCount, lost>>
        /\ flush[f] = "idle"
        /\ dirtyObservers' = NoBumps
        /\ batch' = [batch EXCEPT ![f] = [observers |-> dirtyObservers,
                                          brokers   |-> dirtyBrokers,
                                          packets   |-> dirtyPackets]]
    BY <1>1 DEF FlushTake, TakeDirty, store, tally
  <2>2. batch[f].observers[p].count = 0 /\ dirtyObservers'[p].count = 0
    BY <1>0, <2>1 DEF BatchSpent
  <2>3. /\ batch'[f].observers[p].count = dirtyObservers[p].count
        /\ \A g \in Flushers \ {f} : batch'[g] = batch[g]
    BY <1>0, <2>1
  <2>4. Pending(p)' = Pending(p)
    BY <1>0, <2>2, <2>3, CountsNat DEF Pending
  <2>5. Lost(p)' = Lost(p)
    BY <2>1 DEF Lost
  <2> QED BY <2>1, <2>4, <2>5, CountsNat DEF Move
<1>2. CASE TouchObservers(f)
  <2>1. /\ UNCHANGED <<observers, observed, dirtyObservers>>
        /\ batch' = [batch EXCEPT ![f].observers = NoBumps]
    BY <1>2 DEF TouchObservers, memory, dirty
  <2>2. batch'[f].observers[p].count = 0 /\ \A g \in Flushers \ {f} : batch'[g] = batch[g]
    BY <1>0, <2>1
  <2>3. Pending(p) = Pending(p)' + batch[f].observers[p].count
    BY <1>0, <2>1, <2>2, CountsNat DEF Pending
  <2>4. batch[f].observers[p].count \in Nat /\ Pending(p)' \in Nat
    <3>1. \A g \in Flushers : batch[g].observers[p].count \in Nat
      BY BatchFields DEF TypeOK
    <3>2. \A g \in Flushers : batch'[g].observers[p].count \in Nat
      BY <2>2, <3>1
    <3>3. dirtyObservers'[p].count \in Nat
      BY <2>1, CountsNat
    <3> QED BY <1>0, <3>1, <3>2, <3>3 DEF Pending
  <2>5. CASE /\ observationCount' = [q \in Observers |-> observationCount[q]
                                                        + batch[f].observers[q].count]
             /\ UNCHANGED lost
    <3>1. Lost(p)' = Lost(p)
      BY <2>5 DEF Lost
    <3>2. observationCount'[p] = observationCount[p] + batch[f].observers[p].count
      BY <2>5
    <3> QED BY <2>1, <2>3, <2>4, <3>1, <3>2, CountsNat DEF Move
  <2>6. CASE /\ UNCHANGED observationCount
             /\ \E cause \in Causes : Lose(cause, batch[f].observers)
    <3>1. PICK cause \in Causes : Lose(cause, batch[f].observers)
      BY <2>6
    <3>2. Lost(p)' = Lost(p) + batch[f].observers[p].count
      <4> DEFINE n == [q \in Observers |-> batch[f].observers[q].count]
      <4>1. n \in [Observers -> Nat] /\ n[p] = batch[f].observers[p].count
        BY BatchFields DEF TypeOK
      <4>2. lost' = [lost EXCEPT ![cause] = [q \in Observers |-> @[q] + n[q]]]
        BY <3>1 DEF Lose
      <4> HIDE DEF n
      <4> QED BY <2>4, <4>1, <4>2, LostAdds
    <3> QED BY <2>1, <2>3, <2>4, <2>6, <3>2, CountsNat DEF Move
  <2> QED BY <1>2, <2>5, <2>6 DEF TouchObservers, Causes
<1>3. CASE TouchObserverBrokers(f)
  <2>1. /\ UNCHANGED <<observers, observed, observationCount, lost, dirtyObservers>>
        /\ batch' = [batch EXCEPT ![f].brokers = [b \in Pairs |-> 0]]
    BY <1>3 DEF TouchObserverBrokers, memory, dirty
  <2> QED BY <1>0, <2>1, StillMove
<1>4. CASE TouchPackets(f)
  <2>1. /\ UNCHANGED <<observers, observed, observationCount, lost, dirtyObservers>>
        /\ batch' = [batch EXCEPT ![f].packets = [h \in Packets |-> 0]]
    BY <1>4 DEF TouchPackets, memory, dirty
  <2> QED BY <1>0, <2>1, StillMove
<1> QED BY <1>1, <1>2, <1>3, <1>4 DEF Flush

\* A stop drops what is pending and books it; other steps of the process and
\* the clock leave the counts.
LEMMA ProcessMove ==
  ASSUME IInv, Process \/ Tick, NEW p \in Observers
  PROVE  Move(p)
<1> USE DEF IInv
<1>1. CASE \E cause \in Causes : Stop(cause)
  <2>1. PICK cause \in Causes : Stop(cause)
    BY <1>1
  <2>2. /\ UNCHANGED <<observers, observed, observationCount>>
        /\ dirtyObservers' = NoBumps /\ batch' = [f \in Flushers |-> NoBatch]
        /\ lost' = [lost EXCEPT ![cause] = [q \in Observers |-> @[q] + Pending(q)]]
    BY <2>1 DEF Stop, store
  <2>3. Pending(p)' = 0
    <3>1. NoBumps[p].count = 0 /\ NoBatch.observers = NoBumps
      <4>1. NoBumps[p] = [seen |-> 0, count |-> 0]
        BY EmptyTyped
      <4> QED BY <4>1 DEF NoBatch
    <3> QED BY <2>2, <3>1 DEF Pending, Flushers
  <2>4. Lost(p)' = Lost(p) + Pending(p)
    <3> DEFINE n == [q \in Observers |-> Pending(q)]
    <3>1. n \in [Observers -> Nat] /\ n[p] = Pending(p) /\ Pending(p) \in Nat
      BY CountsNat
    <3>2. lost' = [lost EXCEPT ![cause] = [q \in Observers |-> @[q] + n[q]]]
      BY <2>2
    <3> HIDE DEF n
    <3> QED BY <3>1, <3>2, LostAdds
  <2> QED BY <2>2, <2>3, <2>4, CountsNat DEF Move
<1>2. CASE Cancel \/ Restart \/ Tick
  <2>1. UNCHANGED <<observers, observed, observationCount, lost, dirtyObservers, batch>>
    BY <1>2 DEF Cancel, Restart, Tick, store, memory, dirty, flushes, tally
  <2> QED BY <2>1, StillMove
<1> QED BY <1>1, <1>2 DEF Process, Exit, Crash, Causes

\* Whatever a step does, it moves the counts of each observer.
LEMMA NextMove ==
  ASSUME IInv, [Next]_vars, NEW p \in Observers
  PROVE  Move(p)
<1>1. CASE UNCHANGED vars
  BY <1>1, StillMove DEF IInv, vars, store, memory, dirty, flushes, tally
<1> QED BY <1>1, WorkerMove, FlushMove, ProcessMove DEF Next

\* Such moves conserve the sum, and an observer without a row has no counts.
LEMMA CountsConserved ==
  ASSUME IInv, [Next]_vars, TypeOK'
  PROVE  /\ CountConserved'
         /\ \A p \in Observers \ observers' : observationCount'[p] = 0 /\ Lost(p)' = 0
         /\ \A p \in Observers : Pending(p)' > 0 => p \in observers'
<1> SUFFICES ASSUME NEW p \in Observers
             PROVE  /\ observed'[p] = IF p \in observers'
                                      THEN 1 + observationCount'[p] + Pending(p)' + Lost(p)'
                                      ELSE 0
                    /\ p \notin observers' => observationCount'[p] = 0 /\ Lost(p)' = 0
                    /\ Pending(p)' > 0 => p \in observers'
  BY DEF CountConserved, Pending, Lost
<1>1. Move(p)
  BY NextMove
<1>2. /\ observed[p] = IF p \in observers THEN 1 + observationCount[p] + Pending(p) + Lost(p)
                       ELSE 0
      /\ p \notin observers => observationCount[p] = 0 /\ Lost(p) = 0
      /\ Pending(p) > 0 => p \in observers
  BY DEF IInv, CountConserved, Unrecorded, RowsFirst
<1>3. observationCount[p] \in Nat /\ Pending(p) \in Nat /\ Lost(p) \in Nat /\ observed[p] \in Nat
  BY CountsNat DEF IInv
<1>4. observationCount'[p] \in Nat /\ Pending(p)' \in Nat /\ Lost(p)' \in Nat
      /\ observed'[p] \in Nat
  <2>1. observationCount'[p] \in Nat /\ observed'[p] \in Nat /\ dirtyObservers'[p].count \in Nat
    BY DEF TypeOK, StoreTyped, TallyTyped, MemoryTyped, Bumps
  <2>2. \A f \in Flushers : batch'[f].observers[p].count \in Nat
    BY DEF TypeOK, MemoryTyped, Bumps
  <2>3. \A cause \in Causes : lost'[cause][p] \in Nat
    BY DEF TypeOK, TallyTyped
  <2>4. Pending(p)' \in Nat
    BY <2>1, <2>2 DEF Pending, Flushers
  <2>5. Lost(p)' \in Nat
    BY <2>3 DEF Lost, Causes
  <2> QED BY <2>1, <2>4, <2>5
<1>5. CASE /\ p \in observers' <=> p \in observers
           /\ observed'[p] = observed[p]
           /\ observationCount'[p] + Pending(p)' + Lost(p)'
                = observationCount[p] + Pending(p) + Lost(p)
           /\ Pending(p)' <= Pending(p)
           /\ observationCount'[p] >= observationCount[p] /\ Lost(p)' >= Lost(p)
  <2>1. CASE p \in observers
    BY <1>2, <1>3, <1>4, <1>5, <2>1
  <2>2. CASE p \notin observers
    <3>1. observationCount[p] = 0 /\ Pending(p) = 0 /\ Lost(p) = 0 /\ observed[p] = 0
      BY <1>2, <1>3, <2>2
    <3>2. observationCount'[p] = 0 /\ Pending(p)' = 0 /\ Lost(p)' = 0 /\ observed'[p] = 0
      BY <1>4, <1>5, <3>1
    <3> QED BY <1>5, <2>2, <3>2
  <2> QED BY <2>1, <2>2
<1>6. CASE /\ p \in observers /\ p \in observers'
           /\ observed'[p] = observed[p] + 1
           /\ observationCount'[p] + Pending(p)' = observationCount[p] + Pending(p) + 1
           /\ Lost(p)' = Lost(p)
  BY <1>2, <1>3, <1>4, <1>6
<1>7. CASE /\ p \notin observers /\ p \in observers'
           /\ observed'[p] = observed[p] + 1
           /\ observationCount'[p] = observationCount[p]
           /\ Pending(p)' = Pending(p) /\ Lost(p)' = Lost(p)
  <2>1. observationCount[p] = 0 /\ Pending(p) = 0 /\ Lost(p) = 0 /\ observed[p] = 0
    BY <1>2, <1>3, <1>7
  <2> QED BY <1>7, <2>1
<1> QED BY <1>1, <1>5, <1>6, <1>7 DEF Move

(***************************************************************************)
(* Rows: RowsFirst and NewOnce                                             *)
(***************************************************************************)

\* No step deletes a row.
LEMMA StoreGrows ==
  ASSUME IInv, TypeOK', [Next]_vars
  PROVE  /\ observers \subseteq observers' /\ iatas \subseteq iatas'
         /\ \A b \in Pairs : brokerSeen[b] # 0 => brokerSeen'[b] # 0
         /\ \A h \in Packets : lastHeard[h] # 0 => lastHeard'[h] # 0
<1>1. /\ \A b \in Pairs : brokerSeen'[b] >= brokerSeen[b] /\ brokerSeen[b] \in Nat
                                                         /\ brokerSeen'[b] \in Nat
      /\ \A h \in Packets : lastHeard'[h] >= lastHeard[h] /\ lastHeard[h] \in Nat
                                                         /\ lastHeard'[h] \in Nat
  BY NextForward DEF IInv, TypeOK, StoreTyped, Forward
<1>2. observers \subseteq observers'
  <2>1. \A p \in Observers : p \in observers => p \in observers'
    BY NextMove DEF Move
  <2> QED BY <2>1 DEF IInv, TypeOK, StoreTyped
<1>3. iatas \subseteq iatas'
  <2>1. ASSUME NEW w \in Workers, Worker(w)
        PROVE  iatas \subseteq iatas'
    BY <2>1 DEF Worker, Receive, ObserverLookup, ObserverStore, ObserverRecord,
       BrokerLookup, BrokerStore, BrokerRecord, IataLookup, IataStore, IataRecord,
       PacketLookup, PacketStore, PacketRecord, StatusStore, StatusDrop, store
  <2>2. ASSUME NEW f \in Flushers, Flush(f)
        PROVE  iatas' = iatas
    BY <2>2 DEF Flush, FlushTake, TouchObservers, TouchObserverBrokers, TouchPackets, store
  <2>3. CASE Process \/ Tick \/ UNCHANGED vars
    BY <2>3 DEF Process, Cancel, Exit, Crash, Restart, Stop, Tick, store, vars
  <2> QED BY <2>1, <2>2, <2>3 DEF Next
<1> QED BY <1>1, <1>2, <1>3

\* What a handler has got past, at the step of its own worker.
LEMMA OwnRows ==
  ASSUME IInv, TypeOK', NEW w \in Workers, Worker(w)
  PROVE  /\ pc'[w] \notin {"idle", "observer", "observerStore"}
              => job'[w].observer \in observers'
         /\ pc'[w] \in {"brokerRecord"} \cup PacketCalls
              => brokerSeen'[<<job'[w].observer, w>>] # 0
         /\ pc'[w] \in {"iataRecord", "packet", "packetStore", "packetRecord"}
              => job'[w].iata \in iatas'
         /\ pc'[w] = "packetRecord" => lastHeard'[job'[w].packet] # 0
<1> USE DEF IInv
<1>0. /\ pc \in [Workers -> Calls] /\ job \in [Workers -> Message \cup {Idle}]
      /\ now # 0
      /\ brokerSeen \in [Pairs -> Nat] /\ lastHeard \in [Packets -> Nat]
  BY DEF TypeOK, PcTyped, ControlTyped, StoreTyped
<1>1. pc[w] # "idle" => /\ job[w].observer \in Observers /\ <<job[w].observer, w>> \in Pairs
                        /\ job[w] \in Message
                        /\ pc[w] \in PacketCalls => job[w].iata \in Iatas
                                                    /\ job[w].packet \in Packets
  BY JobFields DEF TypeOK
<1>2. /\ pc[w] \notin {"idle", "observer", "observerStore"} => job[w].observer \in observers
      /\ pc[w] \in {"brokerRecord"} \cup PacketCalls => brokerSeen[<<job[w].observer, w>>] # 0
      /\ pc[w] \in {"iataRecord", "packet", "packetStore", "packetRecord"}
           => job[w].iata \in iatas
      /\ pc[w] = "packetRecord" => lastHeard[job[w].packet] # 0
  BY DEF RowsFirst
<1>3. \A next : Goto(w, next) => /\ pc'[w] = next
                                 /\ next # "idle" => job'[w] = job[w]
  BY <1>0 DEF Goto
<1>4. [Next]_vars
  BY DEF Next
<1>5. CASE Receive(w)
  <2>1. pc'[w] = "observer"
    BY <1>0, <1>5 DEF Receive
  <2> QED BY <2>1 DEF PacketCalls
<1>6. CASE ObserverLookup(w)
  <2>1. \/ pc'[w] = "broker" /\ job'[w] = job[w] /\ job[w].observer \in identities
        \/ pc'[w] = "observerStore"
    BY <1>3, <1>6 DEF ObserverLookup
  <2>2. identities \subseteq observers /\ observers' = observers
    BY <1>6 DEF RowsFirst, ObserverLookup, store
  <2> QED BY <2>1, <2>2 DEF PacketCalls
<1>7. CASE ObserverStore(w)
  <2>1. \/ pc'[w] = "observerRecord" /\ job'[w] = job[w] /\ job[w].observer \in observers'
        \/ pc'[w] = "idle"
    BY <1>3, <1>7 DEF ObserverStore, UpsertObserverRow
  <2> QED BY <2>1 DEF PacketCalls
<1>8. CASE ObserverRecord(w)
  <2>1. pc'[w] = "broker" /\ job'[w] = job[w] /\ pc[w] = "observerRecord"
    BY <1>3, <1>8 DEF ObserverRecord
  <2>2. observers' = observers
    BY <1>8 DEF ObserverRecord, store
  <2> QED BY <1>2, <2>1, <2>2 DEF PacketCalls
<1>9. \A m \in Message : /\ AfterBroker(m) \in {"iata", "status", "idle"}
                         /\ BrokerFailed(m) \in {"status", "idle"}
  <2>1. ASSUME NEW m \in Message
        PROVE  AfterBroker(m) = IF m.kind = "packet" THEN "iata"
                                ELSE IF m.kind = "status" THEN "status" ELSE "idle"
    <3>1. m.kind \in {"packet", "status", "neighbors"}
      BY MessageFields
    <3> QED BY <3>1 DEF AfterBroker
  <2> QED BY <2>1 DEF BrokerFailed
<1>10. CASE BrokerLookup(w)
  <2>1. \/ /\ pc'[w] \in {"iata", "status", "idle"} /\ (pc'[w] # "idle" => job'[w] = job[w])
           /\ <<job[w].observer, w>> \in knownBrokers
        \/ pc'[w] = "brokerStore" /\ job'[w] = job[w]
    BY <1>1, <1>3, <1>9, <1>10 DEF BrokerLookup
  <2>2. UNCHANGED <<observers, brokerSeen>> /\ pc[w] = "broker"
    BY <1>10 DEF BrokerLookup, store
  <2>3. <<job[w].observer, w>> \in knownBrokers => brokerSeen[<<job[w].observer, w>>] # 0
    BY DEF RowsFirst
  <2> QED BY <1>2, <2>1, <2>2, <2>3 DEF PacketCalls
<1>11. CASE BrokerStore(w)
  <2>1. \/ /\ pc'[w] = "brokerRecord" /\ job'[w] = job[w]
           /\ brokerSeen' = [brokerSeen EXCEPT ![<<job[w].observer, w>>] = now]
        \/ pc'[w] \in {"status", "idle"} /\ (pc'[w] # "idle" => job'[w] = job[w])
    BY <1>1, <1>3, <1>9, <1>11 DEF BrokerStore
  <2>2. UNCHANGED observers /\ pc[w] = "brokerStore"
    BY <1>11 DEF BrokerStore
  <2> QED BY <1>0, <1>1, <1>2, <2>1, <2>2 DEF PacketCalls
<1>12. CASE BrokerRecord(w)
  <2>1. pc'[w] \in {"iata", "status", "idle"} /\ (pc'[w] # "idle" => job'[w] = job[w])
    BY <1>1, <1>3, <1>9, <1>12 DEF BrokerRecord
  <2>2. UNCHANGED <<observers, brokerSeen>> /\ pc[w] = "brokerRecord"
    BY <1>12 DEF BrokerRecord, store
  <2> QED BY <1>2, <2>1, <2>2 DEF PacketCalls
<1>13. CASE IataLookup(w) \/ IataStore(w) \/ IataRecord(w)
  <2>1. /\ pc[w] \in {"iata", "iataStore", "iataRecord"}
        /\ UNCHANGED <<observers, brokerSeen>>
    BY <1>13 DEF IataLookup, IataStore, IataRecord, store
  <2>2. /\ pc'[w] # "idle" => job'[w] = job[w]
        /\ pc'[w] \in {"packet", "iataRecord"} => job[w].iata \in iatas'
        /\ pc'[w] \in {"idle", "iataStore", "iataRecord", "packet"}
    BY <1>2, <1>3, <1>13 DEF IataLookup, IataStore, IataRecord, RowsFirst, store
  <2> QED BY <1>2, <2>1, <2>2 DEF PacketCalls
<1>14. CASE PacketLookup(w) \/ PacketStore(w) \/ PacketRecord(w)
  <2>1. /\ pc[w] \in {"packet", "packetStore", "packetRecord"}
        /\ UNCHANGED <<observers, brokerSeen, iatas>>
    BY <1>14 DEF PacketLookup, PacketStore, PacketRecord, store
  <2>2. /\ pc'[w] \in {"idle", "packetStore", "packetRecord"}
        /\ pc'[w] # "idle" => job'[w] = job[w]
        /\ pc'[w] = "packetRecord" => lastHeard' = [lastHeard EXCEPT ![job[w].packet] = now]
    BY <1>3, <1>14 DEF PacketLookup, PacketStore, PacketRecord
  <2> QED BY <1>0, <1>1, <1>2, <2>1, <2>2 DEF PacketCalls
<1>15. CASE StatusStore(w) \/ StatusDrop(w)
  <2>1. /\ pc[w] \in {"status", "statusDrop"} /\ UNCHANGED observers
        /\ pc'[w] \in {"statusDrop", "idle"}
        /\ pc'[w] # "idle" => job'[w] = job[w]
    BY <1>3, <1>15 DEF StatusStore, StatusDrop, store
  <2> QED BY <1>2, <2>1 DEF PacketCalls
<1> QED BY <1>5, <1>6, <1>7, <1>8, <1>10, <1>11, <1>12, <1>13, <1>14, <1>15 DEF Worker

\* What the caches hold.
LEMMA CachedRows ==
  ASSUME IInv, TypeOK', [Next]_vars
  PROVE  /\ identities' \subseteq observers'
         /\ \A b \in knownBrokers' : brokerSeen'[b] # 0
         /\ knownIATAs' \subseteq iatas'
         /\ \A h \in Packets : packetsSeen'[h] # 0 => lastHeard'[h] # 0
<1> USE DEF IInv
<1>1. /\ observers \subseteq observers' /\ iatas \subseteq iatas'
      /\ \A b \in Pairs : brokerSeen[b] # 0 => brokerSeen'[b] # 0
      /\ \A h \in Packets : lastHeard[h] # 0 => lastHeard'[h] # 0
  BY StoreGrows
<1>2. /\ identities \subseteq observers /\ \A b \in knownBrokers : brokerSeen[b] # 0
      /\ knownIATAs \subseteq iatas /\ knownBrokers \subseteq Pairs
      /\ \A h \in Packets : packetsSeen[h] # 0 => lastHeard[h] # 0
      /\ packetsSeen \in [Packets -> Nat]
  BY DEF RowsFirst, TypeOK, MemoryTyped
<1>3. CASE UNCHANGED caches
  BY <1>1, <1>2, <1>3 DEF caches
<1>4. CASE \E cause \in Causes : Stop(cause)
  <2>1. /\ identities' = {} /\ knownBrokers' = {} /\ knownIATAs' = {}
        /\ packetsSeen' = [h \in Packets |-> 0]
    BY <1>4 DEF Stop
  <2> QED BY <2>1
<1>5. ASSUME NEW f \in Flushers, NEW last \in BOOLEAN, FlushTake(f, last)
      PROVE  /\ identities' \subseteq observers'
             /\ \A b \in knownBrokers' : brokerSeen'[b] # 0
             /\ knownIATAs' \subseteq iatas'
             /\ \A h \in Packets : packetsSeen'[h] # 0 => lastHeard'[h] # 0
  <2>1. /\ UNCHANGED <<identities, knownBrokers, knownIATAs>>
        /\ \A h \in Packets : packetsSeen'[h] # 0 => packetsSeen[h] # 0
    BY <1>5 DEF FlushTake
  <2> QED BY <1>1, <1>2, <2>1
<1>6. ASSUME NEW w \in Workers, Worker(w)
      PROVE  /\ identities' \subseteq observers'
             /\ \A b \in knownBrokers' : brokerSeen'[b] # 0
             /\ knownIATAs' \subseteq iatas'
             /\ \A h \in Packets : packetsSeen'[h] # 0 => lastHeard'[h] # 0
  <2>1. /\ pc[w] = "observerRecord" => job[w].observer \in observers
        /\ pc[w] = "brokerRecord" => brokerSeen[<<job[w].observer, w>>] # 0
                                     /\ <<job[w].observer, w>> \in Pairs
        /\ pc[w] = "iataRecord" => job[w].iata \in iatas
        /\ pc[w] = "packetRecord" => lastHeard[job[w].packet] # 0
    BY JobFields DEF RowsFirst, TypeOK
  <2>2. \/ identities' \subseteq identities
        \/ /\ pc[w] = "observerRecord"
           /\ identities' = identities \cup {job[w].observer}
    <3>1. CASE ObserverRecord(w)
      BY <3>1 DEF ObserverRecord
    <3>2. CASE StatusDrop(w)
      <4>1. identities' = identities \ {job[w].observer}
        BY <3>2 DEF StatusDrop
      <4> QED BY <4>1
    <3>3. CASE ~ObserverRecord(w) /\ ~StatusDrop(w)
      <4>1. UNCHANGED identities
        BY <1>6, <3>3 DEF Worker, Receive, ObserverLookup, ObserverStore,
           BrokerLookup, BrokerStore, BrokerRecord, IataLookup, IataStore, IataRecord,
           PacketLookup, PacketStore, PacketRecord, StatusStore, memory, caches
      <4> QED BY <4>1
    <3> QED BY <3>1, <3>2, <3>3
  <2>3. \/ knownBrokers' = knownBrokers
        \/ /\ pc[w] = "brokerRecord"
           /\ knownBrokers' = knownBrokers \cup {<<job[w].observer, w>>}
    <3>1. CASE BrokerRecord(w)
      BY <3>1 DEF BrokerRecord
    <3>2. CASE ~BrokerRecord(w)
      <4>1. UNCHANGED knownBrokers
        BY <1>6, <3>2 DEF Worker, Receive, ObserverLookup, ObserverStore, ObserverRecord,
           BrokerLookup, BrokerStore, IataLookup, IataStore, IataRecord,
           PacketLookup, PacketStore, PacketRecord, StatusStore, StatusDrop, memory, caches
      <4> QED BY <4>1
    <3> QED BY <3>1, <3>2
  <2>4. \/ knownIATAs' = knownIATAs
        \/ /\ pc[w] = "iataRecord"
           /\ knownIATAs' = knownIATAs \cup {job[w].iata}
    <3>1. CASE IataRecord(w)
      BY <3>1 DEF IataRecord
    <3>2. CASE ~IataRecord(w)
      <4>1. UNCHANGED knownIATAs
        BY <1>6, <3>2 DEF Worker, Receive, ObserverLookup, ObserverStore, ObserverRecord,
           BrokerLookup, BrokerStore, BrokerRecord, IataLookup, IataStore,
           PacketLookup, PacketStore, PacketRecord, StatusStore, StatusDrop, memory, caches
      <4> QED BY <4>1
    <3> QED BY <3>1, <3>2
  <2>5. \/ packetsSeen' = packetsSeen
        \/ /\ packetsSeen' = [packetsSeen EXCEPT ![job[w].packet] = now]
           /\ pc[w] = "packetRecord" \/ packetsSeen[job[w].packet] # 0
    BY <1>6 DEF Worker, Receive, ObserverLookup, ObserverStore, ObserverRecord,
       BrokerLookup, BrokerStore, BrokerRecord, IataLookup, IataStore, IataRecord,
       PacketLookup, PacketStore, PacketRecord, StatusStore, StatusDrop, memory, caches
  <2>6. \A h \in Packets : packetsSeen'[h] # 0 => lastHeard[h] # 0
    BY <1>2, <2>1, <2>5
  <2> QED BY <1>1, <1>2, <2>1, <2>2, <2>3, <2>4, <2>6
<1>7. ASSUME NEW f \in Flushers, Flush(f)
      PROVE  UNCHANGED caches \/ \E last \in BOOLEAN : FlushTake(f, last)
  BY <1>7 DEF Flush, TouchObservers, TouchObserverBrokers, TouchPackets, memory
<1>8. CASE Process \/ Tick \/ UNCHANGED vars
  <2>1. UNCHANGED caches \/ \E cause \in Causes : Stop(cause)
    BY <1>8 DEF Process, Cancel, Exit, Crash, Restart, Tick, vars, memory, Causes
  <2> QED BY <1>3, <1>4, <2>1
<1> QED BY <1>3, <1>5, <1>6, <1>7, <1>8 DEF Next

\* RowsFirst is preserved.
LEMMA RowsFirstStays ==
  ASSUME IInv, TypeOK', [Next]_vars
  PROVE  RowsFirst'
<1>1. /\ identities' \subseteq observers'
      /\ \A p \in Observers : Pending(p)' > 0 => p \in observers'
      /\ \A b \in knownBrokers' : brokerSeen'[b] # 0
      /\ knownIATAs' \subseteq iatas'
      /\ \A h \in Packets : packetsSeen'[h] # 0 => lastHeard'[h] # 0
  BY CachedRows, CountsConserved
<1>2. ASSUME NEW v \in Workers
      PROVE  /\ pc'[v] \notin {"idle", "observer", "observerStore"}
                  => job'[v].observer \in observers'
             /\ pc'[v] \in {"brokerRecord"} \cup PacketCalls
                  => brokerSeen'[<<job'[v].observer, v>>] # 0
             /\ pc'[v] \in {"iataRecord", "packet", "packetStore", "packetRecord"}
                  => job'[v].iata \in iatas'
             /\ pc'[v] = "packetRecord" => lastHeard'[job'[v].packet] # 0
  <2>1. CASE Worker(v)
    BY <2>1, OwnRows
  <2>2. CASE pc'[v] = pc[v] /\ job'[v] = job[v]
    <3>1. /\ observers \subseteq observers' /\ iatas \subseteq iatas'
          /\ \A b \in Pairs : brokerSeen[b] # 0 => brokerSeen'[b] # 0
          /\ \A h \in Packets : lastHeard[h] # 0 => lastHeard'[h] # 0
      BY StoreGrows
    <3>2. pc[v] # "idle" => /\ <<job[v].observer, v>> \in Pairs
                            /\ pc[v] \in PacketCalls => job[v].packet \in Packets
      BY JobFields DEF IInv, TypeOK
    <3>3. "idle" \notin PacketCalls /\ "packetRecord" \in PacketCalls
      BY DEF PacketCalls
    <3> QED BY <2>2, <3>1, <3>2, <3>3 DEF IInv, RowsFirst
  <2>3. CASE pc'[v] = "idle"
    BY <2>3 DEF PacketCalls
  <2>4. Worker(v) \/ (pc'[v] = pc[v] /\ job'[v] = job[v]) \/ pc'[v] = "idle"
    <3>1. ASSUME NEW w \in Workers, Worker(w), w # v
          PROVE  pc'[v] = pc[v] /\ job'[v] = job[v]
      <4>1. /\ pc \in [Workers -> Calls] /\ job \in [Workers -> Message \cup {Idle}]
        BY DEF IInv, TypeOK, PcTyped, ControlTyped
      <4>2. CASE Receive(w)
        BY <3>1, <4>1, <4>2 DEF Receive
      <4>3. CASE \E next : Goto(w, next)
        BY <3>1, <4>1, <4>3 DEF Goto
      <4>4. Receive(w) \/ \E next : Goto(w, next)
        BY <3>1 DEF Worker, ObserverLookup, ObserverStore, ObserverRecord,
           BrokerLookup, BrokerStore, BrokerRecord, IataLookup, IataStore, IataRecord,
           PacketLookup, PacketStore, PacketRecord, StatusStore, StatusDrop
      <4> QED BY <4>2, <4>3, <4>4
    <3>2. ASSUME NEW f \in Flushers, Flush(f)
          PROVE  pc' = pc /\ job' = job
      BY <3>2 DEF Flush, FlushTake, TouchObservers, TouchObserverBrokers, TouchPackets,
         threads
    <3>3. CASE Process \/ Tick \/ UNCHANGED vars
      BY <3>3 DEF Process, Cancel, Exit, Crash, Restart, Stop, Tick, vars, threads
    <3> QED BY <3>1, <3>2, <3>3 DEF Next
  <2> QED BY <2>1, <2>2, <2>3, <2>4
<1> QED BY <1>1, <1>2 DEF RowsFirst

\* A worker that has been told that it created h.
NewAt(w, h) == pc[w] = "packetRecord" /\ job[w].packet = h /\ row[w].isNew

\* Only PacketStore makes a worker such a one, and only PacketRecord books it.
LEMMA NewSteps ==
  ASSUME IInv, [Next]_vars, NEW h \in Packets
  PROVE  \/ /\ created' = created
            /\ \A v \in Workers : NewAt(v, h)' => NewAt(v, h)
         \/ \E w \in Workers : PacketStore(w)
         \/ \E w \in Workers : PacketRecord(w)
<1>0. /\ pc \in [Workers -> Calls] /\ job \in [Workers -> Message \cup {Idle}]
      /\ row \in [Workers -> [name : Names \cup {""}, isNew : BOOLEAN]]
  BY DEF IInv, TypeOK, PcTyped, ControlTyped
<1>1. ASSUME NEW w \in Workers, Worker(w), ~PacketStore(w), ~PacketRecord(w)
      PROVE  created' = created /\ \A v \in Workers : NewAt(v, h)' => NewAt(v, h)
  <2>1. created' = created
    BY <1>1 DEF Worker, Receive, ObserverLookup, ObserverStore, ObserverRecord,
       BrokerLookup, BrokerStore, BrokerRecord, IataLookup, IataStore, IataRecord,
       PacketLookup, StatusStore, StatusDrop, tally
  <2>2. \A v \in Workers \ {w} : row'[v] = row[v]
    BY <1>0, <1>1 DEF Worker, Receive, ObserverLookup, ObserverStore, ObserverRecord,
       BrokerLookup, BrokerStore, BrokerRecord, IataLookup, IataStore, IataRecord,
       PacketLookup, StatusStore, StatusDrop
  <2>3. Receive(w) \/ \E next \in Calls \ {"packetRecord"} : Goto(w, next)
    <3>1. ASSUME NEW m \in Message
          PROVE  /\ AfterBroker(m) \in Calls \ {"packetRecord"}
                 /\ BrokerFailed(m) \in Calls \ {"packetRecord"}
      <4>1. m.kind \in {"packet", "status", "neighbors"}
        BY MessageFields
      <4>2. AfterBroker(m) = IF m.kind = "packet" THEN "iata"
                             ELSE IF m.kind = "status" THEN "status" ELSE "idle"
        BY <4>1 DEF AfterBroker
      <4> QED BY <4>2 DEF BrokerFailed, Calls, PacketCalls
    <3>2. pc[w] # "idle" => job[w] \in Message
      BY JobFields DEF IInv, TypeOK
    <3>3. /\ {"idle", "observer", "observerStore", "observerRecord", "broker", "brokerStore",
              "brokerRecord", "iataStore", "iataRecord", "packet", "packetStore",
              "statusDrop"} \subseteq Calls \ {"packetRecord"}
      BY DEF Calls, PacketCalls
    <3>4. CASE ObserverLookup(w) \/ ObserverStore(w) \/ ObserverRecord(w)
      BY <3>3, <3>4 DEF ObserverLookup, ObserverStore, ObserverRecord
    <3>5. CASE BrokerLookup(w) \/ BrokerStore(w) \/ BrokerRecord(w)
      BY <3>1, <3>2, <3>3, <3>5 DEF BrokerLookup, BrokerStore, BrokerRecord
    <3>6. CASE IataLookup(w) \/ IataStore(w) \/ IataRecord(w)
      BY <3>3, <3>6 DEF IataLookup, IataStore, IataRecord
    <3>7. CASE PacketLookup(w) \/ StatusStore(w) \/ StatusDrop(w)
      BY <3>3, <3>7 DEF PacketLookup, StatusStore, StatusDrop
    <3> QED BY <1>1, <3>4, <3>5, <3>6, <3>7 DEF Worker
  <2>4. \A v \in Workers \ {w} : pc'[v] = pc[v] /\ job'[v] = job[v]
    BY <1>0, <2>3 DEF Receive, Goto
  <2>5. pc'[w] # "packetRecord"
    BY <1>0, <2>3 DEF Receive, Goto
  <2> QED BY <2>1, <2>2, <2>4, <2>5 DEF NewAt
<1>2. ASSUME NEW f \in Flushers, Flush(f)
      PROVE  created' = created /\ \A v \in Workers : NewAt(v, h)' => NewAt(v, h)
  <2>1. UNCHANGED <<pc, job, row, created>>
    BY <1>2 DEF Flush, FlushTake, TouchObservers, TouchObserverBrokers, TouchPackets,
       threads, tally
  <2> QED BY <2>1 DEF NewAt
<1>3. CASE Process \/ Tick \/ UNCHANGED vars
  <2>1. /\ created' = created
        /\ UNCHANGED <<pc, job, row>> \/ pc' = [w \in Workers |-> "idle"]
    BY <1>3 DEF Process, Cancel, Exit, Crash, Restart, Stop, Tick, vars, threads, tally
  <2> QED BY <2>1 DEF NewAt
<1> QED BY <1>1, <1>2, <1>3 DEF Next

\* NewOnce is preserved, and created stays 0 without a row.
LEMMA NewOnceStays ==
  ASSUME IInv, TypeOK', [Next]_vars
  PROVE  NewOnce' /\ \A h \in Packets : lastHeard'[h] = 0 => created'[h] = 0
<1> USE DEF IInv
<1>0. /\ pc \in [Workers -> Calls] /\ job \in [Workers -> Message \cup {Idle}]
      /\ row \in [Workers -> [name : Names \cup {""}, isNew : BOOLEAN]]
      /\ created \in [Packets -> Nat] /\ lastHeard \in [Packets -> Nat] /\ now # 0
  BY DEF TypeOK, PcTyped, ControlTyped, TallyTyped, StoreTyped
<1>1. SUFFICES ASSUME NEW h \in Packets
               PROVE  /\ created'[h] <= 1
                      /\ \A w \in Workers : NewAt(w, h)' =>
                           /\ created'[h] = 0
                           /\ \A v \in Workers \ {w} : ~NewAt(v, h)'
                      /\ lastHeard'[h] = 0 => created'[h] = 0
  BY DEF NewOnce, NewAt
<1>2. /\ created[h] <= 1
      /\ \A w \in Workers : NewAt(w, h) => /\ created[h] = 0
                                           /\ \A v \in Workers \ {w} : ~NewAt(v, h)
      /\ lastHeard[h] = 0 => created[h] = 0
  BY DEF NewOnce, NewAt, Unrecorded
<1>3. lastHeard'[h] = 0 => lastHeard[h] = 0
  BY StoreGrows
<1>4. ASSUME NEW w \in Workers, pc[w] # "idle"
      PROVE  job[w] \in Message
  BY <1>4, JobFields DEF TypeOK
<1>5. CASE /\ created' = created
           /\ \A v \in Workers : NewAt(v, h)' => NewAt(v, h)
  BY <1>2, <1>3, <1>5
<1>6. ASSUME NEW w \in Workers, PacketStore(w)
      PROVE  /\ created' = created
             /\ \A v \in Workers : NewAt(v, h)' => NewAt(v, h) \/ (v = w /\ lastHeard[h] = 0)
  <2>1. created' = created /\ \A v \in Workers \ {w} : row'[v] = row[v]
    BY <1>0, <1>6 DEF PacketStore
  <2>2. PICK next : Goto(w, next)
    BY <1>6 DEF PacketStore
  <2>3. \A v \in Workers \ {w} : pc'[v] = pc[v] /\ job'[v] = job[v]
    BY <1>0, <2>2 DEF Goto
  <2>4. ASSUME NewAt(w, h)' PROVE lastHeard[h] = 0
    <3>1. pc'[w] = "packetRecord" /\ job'[w].packet = h /\ row'[w].isNew
      BY <2>4 DEF NewAt
    <3>2. next = "packetRecord" /\ job' = job
      BY <1>0, <2>2, <3>1 DEF Goto
    <3>3. row' = [row EXCEPT ![w].isNew = lastHeard[job[w].packet] = 0]
      BY <1>0, <1>6, <3>1 DEF PacketStore, Goto
    <3>4. row'[w].isNew = (lastHeard[job[w].packet] = 0)
      BY <1>0, <3>3
    <3> QED BY <3>1, <3>2, <3>4
  <2> QED BY <2>1, <2>3, <2>4 DEF NewAt
<1>7. ASSUME NEW w \in Workers, PacketRecord(w)
      PROVE  /\ created'[h] = IF NewAt(w, h) THEN created[h] + 1 ELSE created[h]
             /\ \A v \in Workers : NewAt(v, h)' => NewAt(v, h) /\ v # w
             /\ lastHeard' = lastHeard
             /\ NewAt(w, h) => lastHeard[h] # 0
  <2>1. pc[w] = "packetRecord" /\ lastHeard' = lastHeard /\ UNCHANGED row
    BY <1>7 DEF PacketRecord, store
  <2>2. lastHeard[job[w].packet] # 0
    BY <2>1 DEF RowsFirst
  <2>3. created'[h] = IF NewAt(w, h) THEN created[h] + 1 ELSE created[h]
    <3>1. created' = [created EXCEPT ![job[w].packet] =
                        IF row[w].isNew THEN @ + 1 ELSE @]
      BY <1>7 DEF PacketRecord
    <3>2. CASE job[w].packet = h
      BY <1>0, <2>1, <3>1, <3>2 DEF NewAt
    <3>3. CASE job[w].packet # h
      BY <1>0, <3>1, <3>3 DEF NewAt
    <3> QED BY <3>2, <3>3
  <2>4. Goto(w, "idle")
    BY <1>7 DEF PacketRecord
  <2>5. pc'[w] = "idle" /\ \A v \in Workers \ {w} : pc'[v] = pc[v] /\ job'[v] = job[v]
    BY <1>0, <2>4 DEF Goto
  <2> QED BY <2>1, <2>2, <2>3, <2>5 DEF NewAt
<1>8. ASSUME NEW w \in Workers, NewAt(w, h)
      PROVE  lastHeard[h] # 0
  BY <1>8 DEF NewAt, RowsFirst
<1>9. CASE \E w \in Workers : PacketStore(w)
  BY <1>2, <1>3, <1>6, <1>8, <1>9
<1>10. CASE \E w \in Workers : PacketRecord(w)
  <2>1. PICK w \in Workers : PacketRecord(w)
    BY <1>10
  <2>2. /\ created'[h] = IF NewAt(w, h) THEN created[h] + 1 ELSE created[h]
        /\ \A v \in Workers : NewAt(v, h)' => NewAt(v, h) /\ v # w
        /\ lastHeard' = lastHeard
        /\ NewAt(w, h) => lastHeard[h] # 0
    BY <1>7, <2>1
  <2>3. CASE NewAt(w, h)
    <3>1. created'[h] = 1 /\ lastHeard'[h] # 0
      BY <1>2, <2>2, <2>3
    <3>2. \A v \in Workers : ~NewAt(v, h)'
      BY <1>2, <2>2, <2>3
    <3> QED BY <3>1, <3>2
  <2>4. CASE ~NewAt(w, h)
    <3>1. created'[h] = created[h]
      BY <2>2, <2>4
    <3> QED BY <1>2, <2>2, <3>1
  <2> QED BY <2>3, <2>4
<1> QED BY <1>5, <1>9, <1>10, NewSteps

(***************************************************************************)
(* The theorems                                                            *)
(***************************************************************************)

\* The inductive invariant holds at the start.
LEMMA InitIInv == Init => IInv
<1> SUFFICES ASSUME Init PROVE IInv
  OBVIOUS
<1>1. TypeOK /\ NotAhead
  BY InitTypeOK, InitNotAhead
<1>2. \A p \in Observers : /\ observed[p] = 0 /\ observationCount[p] = 0
                           /\ Pending(p) = 0 /\ Lost(p) = 0
  <2>1. /\ observed = [p \in Observers |-> 0] /\ observationCount = [p \in Observers |-> 0]
        /\ lost = [cause \in Causes |-> [p \in Observers |-> 0]]
        /\ dirtyObservers = NoBumps /\ batch = [f \in Flushers |-> NoBatch]
    BY DEF Init
  <2>2. /\ \A p \in Observers : NoBumps[p].count = 0
        /\ NoBatch.observers = NoBumps
    <3>1. \A p \in Observers : NoBumps[p] = [seen |-> 0, count |-> 0]
      BY EmptyTyped
    <3> QED BY <3>1 DEF NoBatch
  <2>3. \A p \in Observers : Pending(p) = 0
    BY <2>1, <2>2 DEF Pending, Flushers
  <2>4. \A p \in Observers : Lost(p) = 0
    BY <2>1 DEF Lost, Causes
  <2> QED BY <2>1, <2>3, <2>4
<1>3. observers = {}
  BY DEF Init
<1>4. CountConserved
  BY <1>2, <1>3 DEF CountConserved
<1>5. \A w \in Workers : pc[w] = "idle"
  BY DEF Init
<1>6. RowsFirst
  <2>1. identities = {} /\ knownBrokers = {} /\ knownIATAs = {}
        /\ packetsSeen = [h \in Packets |-> 0]
    BY DEF Init
  <2>2. \A p \in Observers : ~(Pending(p) > 0)
    BY <1>2
  <2> QED BY <1>5, <2>1, <2>2 DEF RowsFirst, PacketCalls
<1>7. \A h \in Packets : created[h] = 0
  BY DEF Init
<1>8. NewOnce
  <2>1. \A h \in Packets : created[h] <= 1
    BY <1>7
  <2> QED BY <1>5, <2>1 DEF NewOnce
<1>9. Unrecorded
  BY <1>2, <1>7 DEF Unrecorded
<1>10. BatchSpent
  <2>1. batch = [f \in Flushers |-> NoBatch]
    BY DEF Init
  <2>2. NoBatch.observers = NoBumps
    BY DEF NoBatch
  <2> QED BY <2>1, <2>2 DEF BatchSpent
<1> QED BY <1>1, <1>4, <1>6, <1>8, <1>9, <1>10 DEF IInv

\* Every step preserves it.
LEMMA NextIInv ==
  ASSUME IInv, [Next]_vars
  PROVE  IInv'
<1>1. TypeOK'
  BY NextTypeOK DEF IInv
<1>2. CountConserved' /\ \A p \in Observers \ observers' : observationCount'[p] = 0
                                                           /\ Lost(p)' = 0
  BY <1>1, CountsConserved
<1>3. RowsFirst'
  BY <1>1, RowsFirstStays
<1>4. NewOnce' /\ \A h \in Packets : lastHeard'[h] = 0 => created'[h] = 0
  BY <1>1, NewOnceStays
<1>5. Unrecorded'
  BY <1>2, <1>4 DEF Unrecorded, Lost
<1>6. BatchSpent' /\ NotAhead'
  BY BatchSpentStays, NextForward DEF IInv
<1> QED BY <1>1, <1>2, <1>3, <1>4, <1>5, <1>6 DEF IInv

\* The inductive invariant holds always.
LEMMA Inductive == Spec => []IInv
<1>1. IInv /\ [Next]_vars => IInv'
  BY NextIInv
<1> QED BY InitIInv, <1>1, PTL DEF Spec

\* No bump is dropped unnoticed or counted twice: observation_count, what is
\* still dirty or in a batch and what a failure, a crash or a shutdown is known to
\* have dropped make up the UpsertObserver calls.
THEOREM CountsEveryCall == Spec => []CountConserved
<1>1. IInv => CountConserved
  BY DEF IInv
<1> QED BY Inductive, <1>1, PTL

\* A cache never answers for a row that does not exist, so what a handler writes
\* next finds the rows it references.
THEOREM RowsComeFirst == Spec => []RowsFirst
<1>1. IInv => RowsFirst
  BY DEF IInv
<1> QED BY Inductive, <1>1, PTL

\* UpsertPacket says isNew at most once for a packet, whichever workers miss the
\* cache together and however often the cache is lost.
THEOREM NewAtMostOnce == Spec => []NewOnce
<1>1. IInv => NewOnce
  BY DEF IInv
<1> QED BY Inductive, <1>1, PTL
=============================================================================
