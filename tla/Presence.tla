------------------------------ MODULE Presence ------------------------------
(***************************************************************************)
(* The presence coalescer of internal/presence/coalescer.go between the    *)
(* two MQTT workers and Postgres.  A worker handles one message at a time  *)
(* and calls the coalescer in the order of its handler (internal/ingest).  *)
(* Each Upsert looks its key up under the mutex, unlocks, calls the store  *)
(* on a miss, and locks again to remember the key: three steps, between    *)
(* which the other worker and the flushes run.  A flush takes the dirty    *)
(* maps under the mutex and then writes three batches, one statement each. *)
(* Run flushes on a ticker and once more when its context is cancelled;    *)
(* main flushes before it exits, without waiting for Run or the workers.   *)
(*                                                                         *)
(* Data.  An observer is its public key (the row id is in bijection with   *)
(* it), a packet its hash, a display name a member of Names or "".  A time *)
(* is a number from 1, and 0 stands for an absent row or map entry.  One   *)
(* SQL statement is one step, with NOW() and the server's clock equal.     *)
(***************************************************************************)
EXTENDS Naturals

CONSTANTS
  Workers,       \* the MQTT workers, which are also the broker names
  Observers, Iatas, Packets,
  Names,         \* the display names a status can carry
  Kinds,         \* the kinds of message that arrive
  PacketTTL,     \* packetTTL
  MaxMessages,   \* bound: messages received
  MaxTime,       \* bound: the clock
  MaxFailures,   \* bound: statements that fail
  MaxRestarts    \* bound: restarts of the process

ASSUME PresenceAssumption ==
  /\ "" \notin Names
  /\ Kinds \subseteq {"packet", "status", "neighbors"}
  /\ {PacketTTL, MaxMessages, MaxTime, MaxFailures, MaxRestarts} \subseteq Nat

VARIABLES
  observers,     \* table observers: the keys of its rows
  observationCount, lastSeen, displayName,   \* and three of its columns
  brokerSeen,    \* table observer_brokers: last_seen of <<observer, broker>>
  iatas,         \* table iata_codes
  lastHeard,     \* table packets: last_heard_at
  identities, cachedName,         \* identities: its keys and their names
  dirtyObservers,                 \* dirtyObservers[p]: [seen, count]
  knownBrokers, dirtyBrokers,
  knownIATAs,
  packetsSeen, dirtyPackets,
  job,           \* job[w]: the message w handles
  pc,            \* pc[w]: the call w is in, and how far
  row,           \* row[w]: what the store has returned to w
  flush,         \* flush[f]: the batch f writes next, "idle" outside Flush
  batch,         \* batch[f]: the maps f has taken
  final,         \* the flushers that have begun their last flush
  life,          \* "up", "stopping" after cancel(), "down"
  now,
  observed,      \* history: observed[p], UpsertObserver calls that took effect
  lost,          \* history: lost[cause][p], increments that were dropped
  created,       \* history: created[h], times UpsertPacket returned isNew
  messages, failures, restarts    \* history: against the bounds

Flushers == {"run", "main"}
Causes   == {"failure", "crash", "shutdown"}
Pairs    == Observers \X Workers

store   == <<observers, observationCount, lastSeen, displayName, brokerSeen,
             iatas, lastHeard>>
caches  == <<identities, cachedName, knownBrokers, knownIATAs, packetsSeen>>
dirty   == <<dirtyObservers, dirtyBrokers, dirtyPackets>>
memory  == <<caches, dirty>>
threads == <<job, pc, row>>
flushes == <<flush, batch, final>>
tally   == <<observed, lost, created, messages, failures, restarts>>
vars    == <<store, memory, threads, flushes, life, now, tally>>

NoBump  == [seen |-> 0, count |-> 0]
NoBumps == [p \in Observers |-> NoBump]
NoBatch == [observers |-> NoBumps,
            brokers   |-> [b \in Pairs |-> 0],
            packets   |-> [h \in Packets |-> 0]]
Idle    == [kind |-> "none"]
NoRow   == [name |-> "", isNew |-> FALSE]

Message ==
       [kind : {"packet"} \cap Kinds, observer : Observers, iata : Iatas, packet : Packets]
  \cup [kind : {"status"} \cap Kinds, observer : Observers, name : Names \cup {""}]
  \cup [kind : {"neighbors"} \cap Kinds, observer : Observers]

Init ==
  /\ observers = {} /\ iatas = {}
  /\ observationCount = [p \in Observers |-> 0]
  /\ lastSeen = [p \in Observers |-> 0]
  /\ displayName = [p \in Observers |-> ""]
  /\ brokerSeen = [b \in Pairs |-> 0]
  /\ lastHeard = [h \in Packets |-> 0]
  /\ identities = {} /\ knownBrokers = {} /\ knownIATAs = {}
  /\ cachedName = [p \in Observers |-> ""]
  /\ packetsSeen = [h \in Packets |-> 0]
  /\ dirtyObservers = NoBumps
  /\ dirtyBrokers = [b \in Pairs |-> 0]
  /\ dirtyPackets = [h \in Packets |-> 0]
  /\ job = [w \in Workers |-> Idle]
  /\ pc = [w \in Workers |-> "idle"]
  /\ row = [w \in Workers |-> NoRow]
  /\ flush = [f \in Flushers |-> "idle"]
  /\ batch = [f \in Flushers |-> NoBatch]
  /\ final = {}
  /\ life = "up"
  /\ now = 1
  /\ observed = [p \in Observers |-> 0]
  /\ lost = [cause \in Causes |-> [p \in Observers |-> 0]]
  /\ created = [h \in Packets |-> 0]
  /\ messages = 0 /\ failures = 0 /\ restarts = 0

-----------------------------------------------------------------------------
(* A worker: handlePacket, handleStatus and handleNeighbors as far as they *)
(* call the coalescer.                                                     *)

Goto(w, next) ==
  /\ pc' = [pc EXCEPT ![w] = next]
  /\ job' = IF next = "idle" THEN [job EXCEPT ![w] = Idle] ELSE job

\* A statement that reports an error; its handler decides what is next.
StatementFails ==
  /\ failures < MaxFailures
  /\ failures' = failures + 1

AfterBroker(m) ==
  CASE m.kind = "packet" -> "iata" [] m.kind = "status" -> "status" [] OTHER -> "idle"

\* handlePacket gives the message up, the others log the error and go on.
BrokerFailed(m) == IF m.kind = "packet" THEN "idle" ELSE AfterBroker(m)

Receive(w) ==
  /\ life # "down"
  /\ pc[w] = "idle"
  /\ messages < MaxMessages
  /\ messages' = messages + 1
  /\ \E m \in Message : job' = [job EXCEPT ![w] = m]
  /\ pc' = [pc EXCEPT ![w] = "observer"]
  /\ UNCHANGED <<store, memory, row, flushes, life, now, observed, lost, created,
                 failures, restarts>>

\* UpsertObserver: a hit records a bump, a miss goes to the store.
ObserverLookup(w) ==
  /\ pc[w] = "observer"
  /\ LET p == job[w].observer IN
       \/ /\ p \in identities
          /\ dirtyObservers' = [dirtyObservers EXCEPT ![p] =
                                  [seen |-> now, count |-> @.count + 1]]
          /\ observed' = [observed EXCEPT ![p] = @ + 1]
          /\ Goto(w, "broker")
       \/ /\ p \notin identities
          /\ Goto(w, "observerStore")
          /\ UNCHANGED <<dirtyObservers, observed>>
  /\ UNCHANGED <<store, caches, dirtyBrokers, dirtyPackets, row, flushes, life, now,
                 lost, created, messages, failures, restarts>>

\* The statement: a new row counts from 0, a conflict adds one.
UpsertObserverRow(p) ==
  /\ observers' = observers \cup {p}
  /\ observationCount' = IF p \in observers
                         THEN [observationCount EXCEPT ![p] = @ + 1]
                         ELSE observationCount
  /\ lastSeen' = [lastSeen EXCEPT ![p] = now]
  /\ observed' = [observed EXCEPT ![p] = @ + 1]

ObserverStore(w) ==
  /\ pc[w] = "observerStore"
  /\ LET p == job[w].observer IN
       \/ /\ UpsertObserverRow(p)
          /\ row' = [row EXCEPT ![w].name = displayName[p]]
          /\ Goto(w, "observerRecord")
          /\ UNCHANGED failures
       \/ /\ StatementFails
          /\ \/ UpsertObserverRow(p)
             \/ UNCHANGED <<observers, observationCount, lastSeen, observed>>
          /\ Goto(w, "idle")
          /\ UNCHANGED row
  /\ UNCHANGED <<displayName, brokerSeen, iatas, lastHeard, memory, flushes, life,
                 now, lost, created, messages, restarts>>

ObserverRecord(w) ==
  /\ pc[w] = "observerRecord"
  /\ identities' = identities \cup {job[w].observer}
  /\ cachedName' = [cachedName EXCEPT ![job[w].observer] = row[w].name]
  /\ Goto(w, "broker")
  /\ UNCHANGED <<store, knownBrokers, knownIATAs, packetsSeen, dirty, row, flushes,
                 life, now, tally>>

\* UpsertObserverBroker for the worker's own broker.
BrokerLookup(w) ==
  /\ pc[w] = "broker"
  /\ LET b == <<job[w].observer, w>> IN
       \/ /\ b \in knownBrokers
          /\ dirtyBrokers' = [dirtyBrokers EXCEPT ![b] = now]
          /\ Goto(w, AfterBroker(job[w]))
       \/ /\ b \notin knownBrokers
          /\ Goto(w, "brokerStore")
          /\ UNCHANGED dirtyBrokers
  /\ UNCHANGED <<store, caches, dirtyObservers, dirtyPackets, row, flushes, life,
                 now, tally>>

\* Mutant: the error of the store is not checked.
BrokerStoreUnchecked(w) ==
  /\ pc[w] = "brokerStore"
  /\ LET upsert == [brokerSeen EXCEPT ![<<job[w].observer, w>>] = now] IN
       \/ /\ brokerSeen' = upsert
          /\ UNCHANGED failures
       \/ /\ StatementFails
          /\ brokerSeen' \in {upsert, brokerSeen}
  /\ Goto(w, "brokerRecord")
  /\ UNCHANGED <<observers, observationCount, lastSeen, displayName, iatas, lastHeard,
                 memory, row, flushes, life, now, observed, lost, created, messages,
                 restarts>>

BrokerStore(w) ==
  /\ pc[w] = "brokerStore"
  /\ LET upsert == [brokerSeen EXCEPT ![<<job[w].observer, w>>] = now] IN
       \/ /\ brokerSeen' = upsert
          /\ Goto(w, "brokerRecord")
          /\ UNCHANGED failures
       \/ /\ StatementFails
          /\ brokerSeen' \in {upsert, brokerSeen}
          /\ Goto(w, BrokerFailed(job[w]))
  /\ UNCHANGED <<observers, observationCount, lastSeen, displayName, iatas, lastHeard,
                 memory, row, flushes, life, now, observed, lost, created, messages,
                 restarts>>

BrokerRecord(w) ==
  /\ pc[w] = "brokerRecord"
  /\ knownBrokers' = knownBrokers \cup {<<job[w].observer, w>>}
  /\ Goto(w, AfterBroker(job[w]))
  /\ UNCHANGED <<store, identities, cachedName, knownIATAs, packetsSeen, dirty, row,
                 flushes, life, now, tally>>

\* UpsertIATA: the row is insert-once, so a hit does nothing.
IataLookup(w) ==
  /\ pc[w] = "iata"
  /\ Goto(w, IF job[w].iata \in knownIATAs THEN "packet" ELSE "iataStore")
  /\ UNCHANGED <<store, memory, row, flushes, life, now, tally>>

IataStore(w) ==
  /\ pc[w] = "iataStore"
  /\ \/ /\ iatas' = iatas \cup {job[w].iata}
        /\ Goto(w, "iataRecord")
        /\ UNCHANGED failures
     \/ /\ StatementFails
        /\ iatas' \in {iatas, iatas \cup {job[w].iata}}
        /\ Goto(w, "idle")
  /\ UNCHANGED <<observers, observationCount, lastSeen, displayName, brokerSeen,
                 lastHeard, memory, row, flushes, life, now, observed, lost, created,
                 messages, restarts>>

IataRecord(w) ==
  /\ pc[w] = "iataRecord"
  /\ knownIATAs' = knownIATAs \cup {job[w].iata}
  /\ Goto(w, "packet")
  /\ UNCHANGED <<store, identities, cachedName, knownBrokers, packetsSeen, dirty, row,
                 flushes, life, now, tally>>

\* UpsertPacket: a hash seen recently is not new and only leaves a bump.
PacketLookup(w) ==
  /\ pc[w] = "packet"
  /\ LET h == job[w].packet IN
       \/ /\ packetsSeen[h] # 0
          /\ packetsSeen' = [packetsSeen EXCEPT ![h] = now]
          /\ dirtyPackets' = [dirtyPackets EXCEPT ![h] = now]
          /\ Goto(w, "idle")
       \/ /\ packetsSeen[h] = 0
          /\ Goto(w, "packetStore")
          /\ UNCHANGED <<packetsSeen, dirtyPackets>>
  /\ UNCHANGED <<store, identities, cachedName, knownBrokers, knownIATAs,
                 dirtyObservers, dirtyBrokers, row, flushes, life, now, tally>>

\* Mutant: the miss in packetsSeen is taken for a new packet.
PacketStoreMissIsNew(w) ==
  /\ pc[w] = "packetStore"
  /\ LET h == job[w].packet IN
       \/ /\ lastHeard' = [lastHeard EXCEPT ![h] = now]
          /\ row' = [row EXCEPT ![w].isNew = TRUE]
          /\ Goto(w, "packetRecord")
          /\ UNCHANGED failures
       \/ /\ StatementFails
          /\ lastHeard' \in {lastHeard, [lastHeard EXCEPT ![h] = now]}
          /\ Goto(w, "idle")
          /\ UNCHANGED row
  /\ UNCHANGED <<observers, observationCount, lastSeen, displayName, brokerSeen, iatas,
                 memory, flushes, life, now, observed, lost, created, messages, restarts>>

\* The statement tells whether it inserted the row (xmax = 0).
PacketStore(w) ==
  /\ pc[w] = "packetStore"
  /\ LET h == job[w].packet IN
       \/ /\ lastHeard' = [lastHeard EXCEPT ![h] = now]
          /\ row' = [row EXCEPT ![w].isNew = lastHeard[h] = 0]
          /\ Goto(w, "packetRecord")
          /\ UNCHANGED failures
       \/ /\ StatementFails
          /\ lastHeard' \in {lastHeard, [lastHeard EXCEPT ![h] = now]}
          /\ Goto(w, "idle")
          /\ UNCHANGED row
  /\ UNCHANGED <<observers, observationCount, lastSeen, displayName, brokerSeen, iatas,
                 memory, flushes, life, now, observed, lost, created, messages, restarts>>

PacketRecord(w) ==
  /\ pc[w] = "packetRecord"
  /\ LET h == job[w].packet IN
       /\ packetsSeen' = [packetsSeen EXCEPT ![h] = now]
       /\ created' = [created EXCEPT ![h] = IF row[w].isNew THEN @ + 1 ELSE @]
  /\ Goto(w, "idle")
  /\ UNCHANGED <<store, identities, cachedName, knownBrokers, knownIATAs, dirty, row,
                 flushes, life, now, observed, lost, messages, failures, restarts>>

\* UpdateObserverStatus passes through: an empty name leaves the column.
UpdateStatusRow(m) ==
  /\ displayName' = [displayName EXCEPT ![m.observer] = IF m.name = "" THEN @ ELSE m.name]
  /\ lastSeen' = [lastSeen EXCEPT ![m.observer] = now]

StatusStore(w) ==
  /\ pc[w] = "status"
  /\ \/ /\ UpdateStatusRow(job[w])
        /\ Goto(w, "statusDrop")
        /\ UNCHANGED failures
     \/ /\ StatementFails
        /\ UpdateStatusRow(job[w]) \/ UNCHANGED <<displayName, lastSeen>>
        /\ Goto(w, "idle")
  /\ UNCHANGED <<observers, observationCount, brokerSeen, iatas, lastHeard, memory, row,
                 flushes, life, now, observed, lost, created, messages, restarts>>

StatusDrop(w) ==
  /\ pc[w] = "statusDrop"
  /\ identities' = identities \ {job[w].observer}
  /\ Goto(w, "idle")
  /\ UNCHANGED <<store, cachedName, knownBrokers, knownIATAs, packetsSeen, dirty, row,
                 flushes, life, now, tally>>

Worker(w) ==
  \/ Receive(w)
  \/ ObserverLookup(w) \/ ObserverStore(w) \/ ObserverRecord(w)
  \/ BrokerLookup(w) \/ BrokerStore(w) \/ BrokerRecord(w)
  \/ IataLookup(w) \/ IataStore(w) \/ IataRecord(w)
  \/ PacketLookup(w) \/ PacketStore(w) \/ PacketRecord(w)
  \/ StatusStore(w) \/ StatusDrop(w)

-----------------------------------------------------------------------------
(* Flush.  Run's flushes use its context, which main has cancelled when    *)
(* the process is stopping: their statements fail, and the select may      *)
(* still choose the ticker then.  The last flush of Run and that of main   *)
(* have contexts of their own.                                             *)

\* The ticker while the context lives or the select has not noticed its end
\* (last = FALSE), and the last flush of each goroutine (last = TRUE).
MayFlush(f, last) ==
  /\ f \notin final
  /\ \/ f = "run" /\ ~last /\ life # "down"
     \/ last /\ life = "stopping"

\* Mutant: the observers' map is copied and kept.
TakeDirtyKeeping(f) ==
  /\ batch' = [batch EXCEPT ![f] = [observers |-> dirtyObservers,
                                    brokers   |-> dirtyBrokers,
                                    packets   |-> dirtyPackets]]
  /\ dirtyBrokers' = [b \in Pairs |-> 0]
  /\ dirtyPackets' = [h \in Packets |-> 0]
  /\ UNCHANGED dirtyObservers

TakeDirty(f) ==
  /\ batch' = [batch EXCEPT ![f] = [observers |-> dirtyObservers,
                                    brokers   |-> dirtyBrokers,
                                    packets   |-> dirtyPackets]]
  /\ dirtyObservers' = NoBumps
  /\ dirtyBrokers' = [b \in Pairs |-> 0]
  /\ dirtyPackets' = [h \in Packets |-> 0]

\* The mutex section: take the dirty maps and forget the quiet packets.
FlushTake(f, last) ==
  /\ flush[f] = "idle"
  /\ MayFlush(f, last)
  /\ TakeDirty(f)
  /\ packetsSeen' = [h \in Packets |->
                       IF packetsSeen[h] + PacketTTL < now THEN 0 ELSE packetsSeen[h]]
  /\ flush' = [flush EXCEPT ![f] = "observers"]
  /\ final' = IF last THEN final \cup {f} ELSE final
  /\ UNCHANGED <<store, identities, cachedName, knownBrokers, knownIATAs, threads, life,
                 now, tally>>

Cancelled(f) == f = "run" /\ life = "stopping" /\ "run" \notin final

Lose(cause, bumps) ==
  lost' = [lost EXCEPT ![cause] = [p \in Observers |-> @[p] + bumps[p].count]]

\* Mutant: a late batch overwrites a newer column.
LatestOverwriting(s, t) == t

\* GREATEST.
Latest(s, t) == IF s >= t THEN s ELSE t

\* A failed batch is dropped.  One that took effect although its statement
\* reported an error is written.
TouchObservers(f) ==
  /\ flush[f] = "observers"
  /\ LET bumps == batch[f].observers IN
       \/ /\ observationCount' = [p \in Observers |-> observationCount[p] + bumps[p].count]
          /\ lastSeen' = [p \in Observers |-> IF bumps[p] = NoBump THEN lastSeen[p]
                                              ELSE Latest(lastSeen[p], bumps[p].seen)]
          /\ UNCHANGED <<lost, failures>>
       \/ /\ bumps # NoBumps
          /\ \/ StatementFails /\ Lose("failure", bumps)
             \/ Cancelled(f) /\ Lose("shutdown", bumps) /\ UNCHANGED failures
          /\ UNCHANGED <<observationCount, lastSeen>>
  /\ batch' = [batch EXCEPT ![f].observers = NoBumps]
  /\ flush' = [flush EXCEPT ![f] = "brokers"]
  /\ UNCHANGED <<observers, displayName, brokerSeen, iatas, lastHeard, memory, threads,
                 final, life, now, observed, created, messages, restarts>>

TouchObserverBrokers(f) ==
  /\ flush[f] = "brokers"
  /\ LET seen == batch[f].brokers IN
       \/ /\ brokerSeen' = [b \in Pairs |-> IF seen[b] = 0 THEN brokerSeen[b]
                                            ELSE Latest(brokerSeen[b], seen[b])]
          /\ UNCHANGED failures
       \/ /\ seen # [b \in Pairs |-> 0]
          /\ StatementFails \/ (Cancelled(f) /\ UNCHANGED failures)
          /\ UNCHANGED brokerSeen
  /\ batch' = [batch EXCEPT ![f].brokers = [b \in Pairs |-> 0]]
  /\ flush' = [flush EXCEPT ![f] = "packets"]
  /\ UNCHANGED <<observers, observationCount, lastSeen, displayName, iatas, lastHeard,
                 memory, threads, final, life, now, observed, lost, created, messages,
                 restarts>>

TouchPackets(f) ==
  /\ flush[f] = "packets"
  /\ LET heard == batch[f].packets IN
       \/ /\ lastHeard' = [h \in Packets |-> IF heard[h] = 0 THEN lastHeard[h]
                                             ELSE Latest(lastHeard[h], heard[h])]
          /\ UNCHANGED failures
       \/ /\ heard # [h \in Packets |-> 0]
          /\ StatementFails \/ (Cancelled(f) /\ UNCHANGED failures)
          /\ UNCHANGED lastHeard
  /\ batch' = [batch EXCEPT ![f].packets = [h \in Packets |-> 0]]
  /\ flush' = [flush EXCEPT ![f] = "idle"]
  /\ UNCHANGED <<observers, observationCount, lastSeen, displayName, brokerSeen, iatas,
                 memory, threads, final, life, now, observed, lost, created, messages,
                 restarts>>

Flush(f) ==
  \/ \E last \in BOOLEAN : FlushTake(f, last)
  \/ TouchObservers(f) \/ TouchObserverBrokers(f) \/ TouchPackets(f)

-----------------------------------------------------------------------------
(* The process: SIGTERM makes main cancel the context, flush and return;   *)
(* a crash can come at any time; what was in memory is gone either way.    *)

Pending(p) == dirtyObservers[p].count + batch["run"].observers[p].count
                                      + batch["main"].observers[p].count

Cancel ==
  /\ life = "up"
  /\ life' = "stopping"
  /\ UNCHANGED <<store, memory, threads, flushes, now, tally>>

Stop(cause) ==
  /\ life' = "down"
  /\ lost' = [lost EXCEPT ![cause] = [p \in Observers |-> @[p] + Pending(p)]]
  /\ identities' = {} /\ knownBrokers' = {} /\ knownIATAs' = {}
  /\ cachedName' = [p \in Observers |-> ""]
  /\ packetsSeen' = [h \in Packets |-> 0]
  /\ dirtyObservers' = NoBumps
  /\ dirtyBrokers' = [b \in Pairs |-> 0]
  /\ dirtyPackets' = [h \in Packets |-> 0]
  /\ job' = [w \in Workers |-> Idle]
  /\ pc' = [w \in Workers |-> "idle"]
  /\ row' = [w \in Workers |-> NoRow]
  /\ flush' = [f \in Flushers |-> "idle"]
  /\ batch' = [f \in Flushers |-> NoBatch]
  /\ final' = {}
  /\ UNCHANGED <<store, now, observed, created, messages, failures, restarts>>

\* main returns after its flush, waiting neither for Run nor for the workers.
Exit ==
  /\ life = "stopping" /\ "main" \in final /\ flush["main"] = "idle"
  /\ Stop("shutdown")

Crash == life # "down" /\ Stop("crash")

Restart ==
  /\ life = "down"
  /\ restarts < MaxRestarts
  /\ restarts' = restarts + 1
  /\ life' = "up"
  /\ UNCHANGED <<store, memory, threads, flushes, now, observed, lost, created, messages,
                 failures>>

Tick ==
  /\ now < MaxTime
  /\ now' = now + 1
  /\ UNCHANGED <<store, memory, threads, flushes, life, tally>>

Process == Cancel \/ Exit \/ Crash \/ Restart

Next ==
  \/ \E w \in Workers : Worker(w)
  \/ \E f \in Flushers : Flush(f)
  \/ Process
  \/ Tick

Spec == Init /\ [][Next]_vars

-----------------------------------------------------------------------------
(* Safety *)

Lost(p) == lost["failure"][p] + lost["crash"][p] + lost["shutdown"][p]

PacketCalls == {"iata", "iataStore", "iataRecord", "packet", "packetStore", "packetRecord"}

Calls == {"idle", "observer", "observerStore", "observerRecord",
          "broker", "brokerStore", "brokerRecord", "status", "statusDrop"} \cup PacketCalls

PcTyped ==
  /\ pc \in [Workers -> Calls]
  /\ \A w \in Workers :
       /\ pc[w] = "idle" <=> job[w] = Idle
       /\ pc[w] # "idle" => job[w] \in Message
       /\ pc[w] \in PacketCalls => job[w].kind = "packet"
       /\ pc[w] \in {"status", "statusDrop"} => job[w].kind = "status"

StoreTyped ==
  /\ observers \subseteq Observers /\ iatas \subseteq Iatas
  /\ observationCount \in [Observers -> Nat]
  /\ lastSeen \in [Observers -> Nat]
  /\ displayName \in [Observers -> Names \cup {""}]
  /\ brokerSeen \in [Pairs -> Nat]
  /\ lastHeard \in [Packets -> Nat]

Bumps == [Observers -> [seen : Nat, count : Nat]]

MemoryTyped ==
  /\ identities \subseteq Observers /\ knownBrokers \subseteq Pairs /\ knownIATAs \subseteq Iatas
  /\ cachedName \in [Observers -> Names \cup {""}]
  /\ packetsSeen \in [Packets -> Nat]
  /\ dirtyObservers \in Bumps
  /\ dirtyBrokers \in [Pairs -> Nat]
  /\ dirtyPackets \in [Packets -> Nat]
  /\ batch \in [Flushers -> [observers : Bumps, brokers : [Pairs -> Nat],
                             packets : [Packets -> Nat]]]

ControlTyped ==
  /\ job \in [Workers -> Message \cup {Idle}]
  /\ row \in [Workers -> [name : Names \cup {""}, isNew : BOOLEAN]]
  /\ flush \in [Flushers -> {"idle", "observers", "brokers", "packets"}]
  /\ final \subseteq Flushers
  /\ life \in {"up", "stopping", "down"}
  /\ now \in Nat \ {0}

TallyTyped ==
  /\ observed \in [Observers -> Nat]
  /\ lost \in [Causes -> [Observers -> Nat]]
  /\ created \in [Packets -> Nat]
  /\ {messages, failures, restarts} \subseteq Nat

\* Every variable has its type, and a worker's call fits its message.
TypeOK == StoreTyped /\ MemoryTyped /\ ControlTyped /\ PcTyped /\ TallyTyped

\* observation_count, with what is still in memory and what is known to be
\* dropped, is the number of UpsertObserver calls after the one that created
\* the row: whatever the interleaving of lookups, swaps, batches, failures and
\* restarts, the coalescer neither drops a bump unnoticed nor counts one twice.
CountConserved ==
  \A p \in Observers :
    observed[p] = IF p \in observers THEN 1 + observationCount[p] + Pending(p) + Lost(p)
                                     ELSE 0

\* "First-time writes still write through so rows exist before anything
\* references them" (the package comment): what the caches hold, what is dirty
\* or in a batch, and what a handler has got past, has its row.
RowsFirst ==
  /\ identities \subseteq observers
  /\ \A p \in Observers : Pending(p) > 0 => p \in observers
  /\ \A b \in knownBrokers : brokerSeen[b] # 0
  /\ knownIATAs \subseteq iatas
  /\ \A h \in Packets : packetsSeen[h] # 0 => lastHeard[h] # 0
  /\ \A w \in Workers :
       /\ pc[w] \notin {"idle", "observer", "observerStore"} => job[w].observer \in observers
       /\ pc[w] \in {"brokerRecord"} \cup PacketCalls => brokerSeen[<<job[w].observer, w>>] # 0
       /\ pc[w] \in {"iataRecord", "packet", "packetStore", "packetRecord"}
            => job[w].iata \in iatas
       /\ pc[w] = "packetRecord" => lastHeard[job[w].packet] # 0

\* UpsertPacket returns isNew at most once for a packet, although both workers
\* can miss the cache for it at once, and across restarts: it decides
\* isFirstObservation in the event clients receive.
NewOnce ==
  \A h \in Packets :
    /\ created[h] <= 1
    /\ \A w \in Workers :
         pc[w] = "packetRecord" /\ job[w].packet = h /\ row[w].isNew =>
           /\ created[h] = 0
           /\ \A v \in Workers \ {w} :
                ~ (pc[v] = "packetRecord" /\ job[v].packet = h /\ row[v].isNew)

\* Why the safety properties hold.  Nothing is counted for an observer that has
\* no row, nor created for a packet that has none; a batch that is written is
\* spent; no time is ahead of the clock.
Unrecorded ==
  /\ \A p \in Observers \ observers : observationCount[p] = 0 /\ Lost(p) = 0
  /\ \A h \in Packets : lastHeard[h] = 0 => created[h] = 0

BatchSpent == \A f \in Flushers : flush[f] # "observers" => batch[f].observers = NoBumps

NotAhead ==
  /\ \A p \in Observers : /\ lastSeen[p] <= now
                          /\ dirtyObservers[p].seen <= now
                          /\ \A f \in Flushers : batch[f].observers[p].seen <= now
  /\ \A b \in Pairs : /\ brokerSeen[b] <= now
                      /\ dirtyBrokers[b] <= now
                      /\ \A f \in Flushers : batch[f].brokers[b] <= now
  /\ \A h \in Packets : /\ lastHeard[h] <= now
                        /\ dirtyPackets[h] <= now
                        /\ \A f \in Flushers : batch[f].packets[h] <= now

\* The inductive invariant.
IInv == /\ TypeOK /\ CountConserved /\ RowsFirst /\ NewOnce
        /\ Unrecorded /\ BatchSpent /\ NotAhead

-----------------------------------------------------------------------------
(* Action properties *)

Forward ==
  /\ \A p \in Observers : lastSeen'[p] >= lastSeen[p]
  /\ \A b \in Pairs : brokerSeen'[b] >= brokerSeen[b]
  /\ \A h \in Packets : lastHeard'[h] >= lastHeard[h]

\* "GREATEST keeps a late flush from regressing a newer write-through" (the
\* comment on TouchObservers in queries.sql): no last_seen, last_packet_at or
\* last_heard_at ever goes back.
NeverRegresses == [][Forward]_vars
=============================================================================
