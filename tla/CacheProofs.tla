----------------------------- MODULE CacheProofs -----------------------------
(***************************************************************************)
(* Proofs about the read cache, for any requests, handlers, TTLs, delays   *)
(* and failures: what a request is answered is recent, and what a handler  *)
(* invalidated stays invalidated.                                          *)
(***************************************************************************)
EXTENDS ReadCache, TLAPS

(***************************************************************************)
(* The statements                                                          *)
(***************************************************************************)

\* The statements of a view are numbered from 1.
LEMMA QueryDomain ==
  \A k \in Views : \E n \in Nat : DOMAIN Query[k] = 1..n
<1>1. DOMAIN Query["observer"] = 1..4
  BY DEF Query
<1>2. DOMAIN Query["observerScopes"] = 1..1
  BY DEF Query
<1>3. DOMAIN Query["node"] = 1..2
  BY DEF Query
<1>4. DOMAIN Query["neighbors"] = 1..1
  BY DEF Query
<1> QED BY <1>1, <1>2, <1>3, <1>4 DEF Views

\* An optional statement reads one part.
LEMMA OptionalReadsOne ==
  ASSUME NEW k \in Views, NEW i \in DOMAIN Query[k], Query[k][i].optional
  PROVE  \E p \in Parts : Query[k][i].parts = {p}
<1>1. CASE k = "observer"
  <2>1. i \in 1..4
    BY <1>1 DEF Query
  <2> QED BY <1>1, <2>1 DEF Query, Statement, Parts
<1>2. CASE k = "observerScopes"
  <2>1. i \in 1..1
    BY <1>2 DEF Query
  <2> QED BY <1>2, <2>1 DEF Query, Statement, Parts
<1>3. CASE k = "node"
  <2>1. i \in 1..2
    BY <1>3 DEF Query
  <2> QED BY <1>3, <2>1 DEF Query, Statement, Parts
<1>4. CASE k = "neighbors"
  <2>1. i \in 1..1
    BY <1>4 DEF Query
  <2> QED BY <1>4, <2>1 DEF Query, Statement, Parts
<1> QED BY <1>1, <1>2, <1>3, <1>4 DEF Views

\* Only the observer's views show the observer, and only the node's the node.
LEMMA WhoShows ==
  /\ \A k \in Views : "observer" \in Shows[k] => k \in ObserverKeys
  /\ \A k \in Views : "node" \in Shows[k] => k \in NodeKeys
<1>1. \A k \in Views, p \in {"observer", "node"} :
        p \in Shows[k] => \E i \in DOMAIN Query[k] : p \in Query[k][i].parts
  BY DEF Shows
<1>2. ASSUME NEW i \in DOMAIN Query["observerScopes"]
      PROVE  Query["observerScopes"][i].parts = {"scopes"}
  <2>1. i \in 1..1
    BY <1>2 DEF Query
  <2> QED BY <2>1 DEF Query, Statement
<1>3. ASSUME NEW i \in DOMAIN Query["neighbors"]
      PROVE  Query["neighbors"][i].parts = {"edges"}
  <2>1. i \in 1..1
    BY <1>3 DEF Query
  <2> QED BY <2>1 DEF Query, Statement
<1>4. ASSUME NEW i \in DOMAIN Query["observer"]
      PROVE  "node" \notin Query["observer"][i].parts
  <2>1. i \in 1..4
    BY <1>4 DEF Query
  <2> QED BY <2>1 DEF Query, Statement
<1>5. ASSUME NEW i \in DOMAIN Query["node"]
      PROVE  "observer" \notin Query["node"][i].parts
  <2>1. i \in 1..2
    BY <1>5 DEF Query
  <2> QED BY <2>1 DEF Query, Statement
<1> QED BY <1>1, <1>2, <1>3, <1>4, <1>5 DEF Views, ObserverKeys, NodeKeys

\* What the statements of the handlers are.
Writes(s) == s.op \in {"upsert", "must", "logged"} => s.part \in Parts

\* A handler that invalidates does so after its upsert, once, and for the views
\* that show what it upserts.
LEMMA ScriptFact ==
  ASSUME NEW m \in DOMAIN Script, NEW i \in DOMAIN Script[m]
  PROVE  /\ Writes(Script[m][i])
         /\ Script[m][i].op = "upsert" => Script[m][i].part = Upserted(m) /\ i = 1
         /\ Script[m][i].op = "invalidate" =>
              /\ i = 2
              /\ Upserted(m) = "observer" => ObserverKeys \subseteq Script[m][i].keys
              /\ Upserted(m) = "node" => NodeKeys \subseteq Script[m][i].keys
<1> USE DEF Upsert, Must, Logged, Invalidate, Writes, Parts, Upserted
<1>0. m \in {"status", "packet", "advert", "neighbors", "cleanup"}
  BY DEF Script
<1>1. CASE m = "status"
  <2>1. i \in 1..4
    BY <1>1 DEF Script
  <2> QED BY <1>1, <2>1 DEF Script
<1>2. CASE m = "packet"
  <2>1. i \in 1..6
    BY <1>2 DEF Script
  <2> QED BY <1>2, <2>1 DEF Script
<1>3. CASE m = "advert"
  <2>1. i \in 1..5
    BY <1>3 DEF Script
  <2> QED BY <1>3, <2>1 DEF Script
<1>4. CASE m = "neighbors"
  <2>1. i \in 1..4
    BY <1>4 DEF Script
  <2> QED BY <1>4, <2>1 DEF Script
<1>5. CASE m = "cleanup"
  <2>1. i \in 1..2
    BY <1>5 DEF Script
  <2> QED BY <1>5, <2>1 DEF Script
<1> QED BY <1>0, <1>1, <1>2, <1>3, <1>4, <1>5

\* An upsert is of a part.
LEMMA UpsertedPart == \A m : Upserted(m) \in {"observer", "node"} /\ Upserted(m) \in Parts
BY DEF Upserted, Parts

\* A TTL is not zero.
LEMMA ResolveFact == \A k \in Views : Resolve(k) \in Nat \ {0}
<1>1. \A k \in Views : Category[k] \in {"observers", "nodes"}
  BY DEF Views, Category
<1> QED BY <1>1, CacheAssumption DEF Resolve, CacheAssumption

(***************************************************************************)
(* Type correctness                                                        *)
(***************************************************************************)

HandlerType == [msg : DOMAIN Script \cup {"none"}, pc : Nat, wrote : Nat, sound : BOOLEAN]
RequestType == [key : Views \cup {"none"}, step : Nat, keep : BOOLEAN,
                val : [Parts -> Nat], since : Nat]
EntryType   == [val : [Parts -> Nat], expires : Nat]

\* Going on in a script keeps the type of a handler, whatever else changes.
LEMMA HandlerUpdate ==
  ASSUME worker \in [Workers -> HandlerType], NEW w \in Workers, NEW n \in Nat, NEW b \in BOOLEAN
  PROVE  /\ [worker EXCEPT ![w].pc = @ + 1] \in [Workers -> HandlerType]
         /\ [worker EXCEPT ![w].pc = @ + 1, ![w].wrote = n] \in [Workers -> HandlerType]
         /\ [worker EXCEPT ![w].pc = @ + 1, ![w].sound = b] \in [Workers -> HandlerType]
<1> DEFINE wk == worker[w]
           k1 == [wk EXCEPT !.pc = @ + 1]
           k2 == [k1 EXCEPT !.wrote = n]
           k3 == [k1 EXCEPT !.sound = b]
<1>1. wk \in HandlerType
  OBVIOUS
<1>2. k1 \in HandlerType
  BY <1>1 DEF HandlerType
<1>3. k2 \in HandlerType
  <2> HIDE DEF k1
  <2> QED BY <1>2 DEF HandlerType
<1>4. k3 \in HandlerType
  <2> HIDE DEF k1
  <2> QED BY <1>2 DEF HandlerType
<1>5. /\ [worker EXCEPT ![w].pc = @ + 1] = [worker EXCEPT ![w] = k1]
      /\ [worker EXCEPT ![w].pc = @ + 1, ![w].wrote = n] = [worker EXCEPT ![w] = k2]
      /\ [worker EXCEPT ![w].pc = @ + 1, ![w].sound = b] = [worker EXCEPT ![w] = k3]
  OBVIOUS
<1> HIDE DEF k1, k2, k3
<1> QED BY <1>2, <1>3, <1>4, <1>5

\* The next statement keeps that of a request.
LEMMA RequestUpdate ==
  ASSUME reader \in [Readers -> RequestType], NEW r \in Readers, NEW v \in [Parts -> Nat]
  PROVE  /\ [reader EXCEPT ![r].step = @ + 1] \in [Readers -> RequestType]
         /\ [reader EXCEPT ![r].step = @ + 1, ![r].val = v] \in [Readers -> RequestType]
<1> DEFINE rd == reader[r]
           r1 == [rd EXCEPT !.step = @ + 1]
           r2 == [r1 EXCEPT !.val = v]
<1>1. rd \in RequestType
  OBVIOUS
<1>2. r1 \in RequestType
  <2>1. /\ rd.key \in Views \cup {"none"} /\ rd.step + 1 \in Nat /\ rd.keep \in BOOLEAN
        /\ rd.val \in [Parts -> Nat] /\ rd.since \in Nat
    BY <1>1 DEF RequestType
  <2>2. r1 = [key |-> rd.key, step |-> rd.step + 1, keep |-> rd.keep, val |-> rd.val,
              since |-> rd.since]
    BY <1>1 DEF RequestType
  <2> HIDE DEF rd, r1
  <2> QED BY <2>1, <2>2 DEF RequestType
<1>3. r2 \in RequestType
  <2> HIDE DEF r1
  <2> QED BY <1>2 DEF RequestType
<1>4. /\ [reader EXCEPT ![r].step = @ + 1] = [reader EXCEPT ![r] = r1]
      /\ [reader EXCEPT ![r].step = @ + 1, ![r].val = v] = [reader EXCEPT ![r] = r2]
  OBVIOUS
<1> HIDE DEF r1, r2
<1> QED BY <1>2, <1>3, <1>4

\* The types of requests and handlers by name.
LEMMA NamedTypes ==
  /\ TypeOK => /\ worker \in [Workers -> HandlerType]
               /\ reader \in [Readers -> RequestType]
               /\ cache \in [Views -> EntryType]
  /\ Idle \in RequestType /\ Free \in HandlerType /\ None \in EntryType
<1>1. Idle \in RequestType /\ Free \in HandlerType /\ None \in EntryType
  BY DEF RequestType, HandlerType, EntryType, Idle, Free, None, Blank
<1> QED BY <1>1 DEF TypeOK, HandlerType, RequestType, EntryType

\* A version is a natural number.
LEMMA VersionType == TypeOK => \A p \in Parts : Version(p) \in Nat
BY DEF TypeOK, Version

\* The steps of a request keep the types.
LEMMA RequestTypes ==
  ASSUME TypeOK, NEW r \in Readers,
         \/ \E k \in Keys : Hit(r, k) \/ Miss(r, k)
         \/ Fetch(r) \/ Reply(r)
  PROVE  TypeOK'
<1>0. \A k \in Keys : k \in Views
  BY CacheAssumption DEF CacheAssumption
<1>1. ASSUME NEW k \in Keys, Hit(r, k) PROVE TypeOK'
  BY <1>0, <1>1 DEF Hit, TypeOK
<1>2. ASSUME NEW k \in Keys, Miss(r, k) PROVE TypeOK'
  <2>1. /\ UNCHANGED <<now, log, cache, worker, failed, floor, handled>>
        /\ answer' = [answer EXCEPT ![r] = Nothing]
        /\ \E keep \in BOOLEAN :
             reader' = [reader EXCEPT ![r] = [key |-> k, step |-> 1, keep |-> keep,
                                              val |-> Blank, since |-> now]]
        /\ failures' \in {failures, failures + 1}
    BY <1>2 DEF Miss, Ok, Failure
  <2>2. Blank \in [Parts -> Nat] /\ Nothing \in [key : Views \cup {"none"}, val : [Parts -> Nat]]
    BY DEF Blank, Nothing
  <2> QED BY <1>0, <2>1, <2>2 DEF TypeOK
<1>3. CASE Fetch(r)
  <2> DEFINE rd == reader[r]
             q  == Query[rd.key][rd.step]
  <2>1. /\ rd.key # "none" /\ rd.step \in DOMAIN Query[rd.key]
        /\ UNCHANGED <<now, log, cache, worker, answer, floor, handled>>
        /\ \/ /\ reader' = [reader EXCEPT ![r].step = @ + 1, ![r].val = Read(@, q.parts)]
              /\ UNCHANGED <<failures, failed>>
           \/ /\ failures' = failures + 1
              /\ reader' = [reader EXCEPT ![r].step = @ + 1]
              /\ failed' = [p \in Parts |-> IF p \in q.parts THEN now ELSE failed[p]]
           \/ /\ failures' = failures + 1
              /\ reader' = [reader EXCEPT ![r] = Idle] /\ UNCHANGED failed
    BY <1>3 DEF Fetch, Ok, Failure
  <2> HIDE DEF q
  <2>2. Read(rd.val, q.parts) \in [Parts -> Nat]
    BY VersionType DEF TypeOK, Read
  <2>3. Idle \in [key : Views \cup {"none"}, step : Nat, keep : BOOLEAN,
                  val : [Parts -> Nat], since : Nat]
    BY DEF Idle, Blank
  <2>4. CASE /\ reader' = [reader EXCEPT ![r].step = @ + 1, ![r].val = Read(@, q.parts)]
             /\ UNCHANGED <<failures, failed>>
    <3>1. reader' = [reader EXCEPT ![r].step = @ + 1, ![r].val = Read(rd.val, q.parts)]
      BY <2>4
    <3>2. reader' \in [Readers -> RequestType]
      BY <2>2, <3>1, NamedTypes, RequestUpdate
    <3> QED BY <2>1, <2>4, <3>2 DEF TypeOK, RequestType
  <2>5. CASE /\ failures' = failures + 1
             /\ reader' = [reader EXCEPT ![r].step = @ + 1]
             /\ failed' = [p \in Parts |-> IF p \in q.parts THEN now ELSE failed[p]]
    <3>1. reader' \in [Readers -> RequestType]
      BY <2>2, <2>5, NamedTypes, RequestUpdate
    <3>2. failed' \in [Parts -> Nat] /\ failures' \in Nat
      BY <2>5 DEF TypeOK
    <3> QED BY <2>1, <3>1, <3>2 DEF TypeOK, RequestType
  <2>6. CASE /\ failures' = failures + 1
             /\ reader' = [reader EXCEPT ![r] = Idle] /\ UNCHANGED failed
    BY <2>1, <2>3, <2>6 DEF TypeOK
  <2> QED BY <2>1, <2>4, <2>5, <2>6
<1>4. CASE Reply(r)
  <2> DEFINE rd == reader[r]
  <2>1. /\ rd.key # "none"
        /\ UNCHANGED <<now, log, worker, failed, floor, handled>>
        /\ answer' = [answer EXCEPT ![r] = [key |-> rd.key, val |-> rd.val]]
        /\ reader' = [reader EXCEPT ![r] = Idle]
        /\ failures' \in {failures, failures + 1}
        /\ \/ cache' = [cache EXCEPT ![rd.key] =
                          [val |-> rd.val, expires |-> now + Resolve(rd.key)]]
           \/ UNCHANGED cache
    BY <1>4 DEF Reply, Ok, Failure
  <2>2. rd.key \in Views /\ rd.val \in [Parts -> Nat]
    BY <2>1 DEF TypeOK
  <2>3. Idle \in [key : Views \cup {"none"}, step : Nat, keep : BOOLEAN,
                  val : [Parts -> Nat], since : Nat]
    BY DEF Idle, Blank
  <2>4. /\ cache' \in [Views -> [val : [Parts -> Nat], expires : Nat]]
        /\ \A k \in Views : cache'[k] = None \/ cache'[k].expires > now
    <3> DEFINE e == [val |-> rd.val, expires |-> now + Resolve(rd.key)]
    <3>1. e \in EntryType /\ e.expires > now
      BY <2>2, ResolveFact DEF TypeOK, EntryType
    <3> HIDE DEF e
    <3>2. cache \in [Views -> EntryType] /\ \A k \in Views : cache[k] = None \/ cache[k].expires > now
      BY NamedTypes DEF TypeOK
    <3>3. cache' = [cache EXCEPT ![rd.key] = e] \/ cache' = cache
      BY <2>1 DEF e
    <3> QED BY <2>2, <3>1, <3>2, <3>3 DEF EntryType
  <2> QED BY <2>1, <2>2, <2>3, <2>4 DEF TypeOK
<1> QED BY <1>1, <1>2, <1>3, <1>4

\* The steps of a handler keep the types.
LEMMA HandlerTypes ==
  ASSUME TypeOK, NEW w \in Workers,
         Store(w) \/ Delete(w) \/ Return(w) \/ \E m \in Messages : Begin(w, m)
  PROVE  TypeOK'
<1> DEFINE wk == worker[w]
<1>1. CASE Store(w)
  <2> DEFINE s == Current(w)
  <2>1. /\ wk.msg # "none" /\ wk.pc \in DOMAIN Script[wk.msg]
        /\ s.op \in {"upsert", "must", "logged"}
        /\ UNCHANGED <<now, cache, reader, answer, failed, floor, handled>>
        /\ \/ /\ log' = [log EXCEPT ![s.part] = Append(@, now)]
              /\ worker' = [worker EXCEPT ![w].pc = @ + 1,
                             ![w].wrote = IF s.op = "upsert" THEN Version(s.part) + 1 ELSE @]
              /\ UNCHANGED failures
           \/ worker' = [worker EXCEPT ![w].pc = @ + 1] /\ UNCHANGED <<failures, log>>
           \/ /\ failures' = failures + 1 /\ UNCHANGED log
              /\ \/ worker' = [worker EXCEPT ![w].pc = @ + 1]
                 \/ worker' = [worker EXCEPT ![w] = Free]
    BY <1>1 DEF Store, At, Ok, Failure
  <2>2. s.part \in Parts
    <3>1. wk.msg \in DOMAIN Script
      BY <2>1 DEF TypeOK
    <3> QED BY <2>1, <3>1, ScriptFact DEF Current, Writes
  <2>3. Version(s.part) + 1 \in Nat
    BY <2>2, VersionType
  <2>4. [log EXCEPT ![s.part] = Append(@, now)] \in [Parts -> Seq(Nat)]
    <3> HIDE DEF s
    <3> QED BY <2>2 DEF TypeOK
  <2>5. Free \in [msg : DOMAIN Script \cup {"none"}, pc : Nat, wrote : Nat, sound : BOOLEAN]
    BY DEF Free
  <2> HIDE DEF s
  <2>6. /\ worker' \in [Workers -> [msg : DOMAIN Script \cup {"none"}, pc : Nat, wrote : Nat,
                                    sound : BOOLEAN]]
        /\ log' \in [Parts -> Seq(Nat)] /\ failures' \in Nat
    <3>0. worker \in [Workers -> HandlerType] /\ wk.wrote \in Nat
      BY NamedTypes DEF HandlerType
    <3>1. CASE /\ log' = [log EXCEPT ![s.part] = Append(@, now)]
               /\ worker' = [worker EXCEPT ![w].pc = @ + 1,
                              ![w].wrote = IF s.op = "upsert" THEN Version(s.part) + 1 ELSE @]
               /\ UNCHANGED failures
      <4> DEFINE n == IF s.op = "upsert" THEN Version(s.part) + 1 ELSE wk.wrote
      <4>1. n \in Nat
        BY <2>3, <3>0
      <4>2. worker' = [worker EXCEPT ![w].pc = @ + 1, ![w].wrote = n]
        BY <3>0, <3>1
      <4> HIDE DEF n
      <4>3. worker' \in [Workers -> HandlerType]
        BY <3>0, <4>1, <4>2, HandlerUpdate
      <4> QED BY <2>4, <3>1, <4>3 DEF TypeOK, HandlerType
    <3>2. CASE worker' = [worker EXCEPT ![w].pc = @ + 1] /\ UNCHANGED <<failures, log>>
      BY <3>0, <3>2, HandlerUpdate DEF TypeOK, HandlerType
    <3>3. CASE /\ failures' = failures + 1 /\ UNCHANGED log
               /\ worker' = [worker EXCEPT ![w].pc = @ + 1]
      <4>1. worker' \in [Workers -> HandlerType]
        BY <3>0, <3>3, HandlerUpdate
      <4>2. failures' \in Nat /\ log' = log
        BY <3>3 DEF TypeOK
      <4> QED BY <4>1, <4>2 DEF TypeOK, HandlerType
    <3>4. CASE /\ failures' = failures + 1 /\ UNCHANGED log
               /\ worker' = [worker EXCEPT ![w] = Free]
      BY <2>5, <3>4 DEF TypeOK
    <3> QED BY <2>1, <3>1, <3>2, <3>3, <3>4
  <2> QED BY <2>1, <2>6 DEF TypeOK
<1>2. CASE Delete(w)
  <2>1. /\ UNCHANGED <<now, log, reader, answer, failed, floor, handled>>
        /\ failures' \in {failures, failures + 1}
        /\ \/ cache' = [k \in Views |-> IF k \in Current(w).keys THEN None ELSE cache[k]]
           \/ UNCHANGED cache
        /\ \/ worker' = [worker EXCEPT ![w].pc = @ + 1,
                                       ![w].sound = ~Filling(Current(w).keys)]
           \/ worker' = [worker EXCEPT ![w].pc = @ + 1]
    BY <1>2 DEF Delete, Ok, Failure
  <2>2. worker' \in [Workers -> [msg : DOMAIN Script \cup {"none"}, pc : Nat, wrote : Nat,
                                 sound : BOOLEAN]]
    <3> DEFINE b == ~Filling(Current(w).keys)
    <3>1. b \in BOOLEAN
      BY DEF Filling
    <3> HIDE DEF b
    <3>2. CASE worker' = [worker EXCEPT ![w].pc = @ + 1, ![w].sound = b]
      BY <3>1, <3>2, NamedTypes, HandlerUpdate DEF HandlerType
    <3>3. CASE worker' = [worker EXCEPT ![w].pc = @ + 1]
      BY <3>1, <3>3, NamedTypes, HandlerUpdate DEF HandlerType
    <3> QED BY <2>1, <3>2, <3>3 DEF b
  <2>3. /\ cache' \in [Views -> [val : [Parts -> Nat], expires : Nat]]
        /\ \A k \in Views : cache'[k] = None \/ cache'[k].expires > now
    <3>1. /\ cache \in [Views -> EntryType]
          /\ \A k \in Views : cache[k] = None \/ cache[k].expires > now
      BY NamedTypes DEF TypeOK
    <3> QED BY <2>1, <3>1, NamedTypes DEF EntryType
  <2> QED BY <2>1, <2>2, <2>3 DEF TypeOK
<1>3. CASE Return(w)
  <2>1. /\ UNCHANGED <<now, log, cache, reader, answer, failed, handled, failures>>
        /\ worker' = [worker EXCEPT ![w] = Free]
        /\ \/ floor' = [floor EXCEPT ![Upserted(wk.msg)] = wk.wrote]
           \/ floor' = floor
    BY <1>3 DEF Return
  <2>2. Free \in [msg : DOMAIN Script \cup {"none"}, pc : Nat, wrote : Nat, sound : BOOLEAN]
    BY DEF Free
  <2> QED BY <2>1, <2>2 DEF TypeOK
<1>4. ASSUME NEW m \in Messages, Begin(w, m) PROVE TypeOK'
  <2>1. [Free EXCEPT !.msg = m, !.pc = 1] \in
          [msg : DOMAIN Script \cup {"none"}, pc : Nat, wrote : Nat, sound : BOOLEAN]
    BY CacheAssumption DEF Free, CacheAssumption
  <2>2. /\ UNCHANGED <<now, log, cache, reader, answer, failed, floor, failures>>
        /\ handled' = handled + 1
        /\ worker' = [worker EXCEPT ![w] = [Free EXCEPT !.msg = m, !.pc = 1]]
    BY <1>4 DEF Begin
  <2>3. worker' \in [Workers -> HandlerType]
    BY <2>1, <2>2, NamedTypes DEF HandlerType
  <2> QED BY <2>2, <2>3 DEF TypeOK, HandlerType
<1> QED BY <1>1, <1>2, <1>3, <1>4

\* Entries, requests and handlers keep their types, and no entry outlives its
\* TTL.
THEOREM TypeCorrect == Spec => []TypeOK
<1>1. Init => TypeOK
  <2> SUFFICES ASSUME Init PROVE TypeOK
    OBVIOUS
  <2>1. log \in [Parts -> Seq(Nat)]
    BY DEF Init
  <2> QED BY <2>1 DEF Init, TypeOK, None, Idle, Free, Nothing, Blank
<1>2. TypeOK /\ [Next]_vars => TypeOK'
  <2> SUFFICES ASSUME TypeOK, [Next]_vars PROVE TypeOK'
    OBVIOUS
  <2>1. CASE Tick
    <3>1. None \in [val : [Parts -> Nat], expires : Nat]
      BY DEF None, Blank
    <3>2. /\ cache' = [k \in Views |-> IF cache[k].expires <= now + 1 THEN None ELSE cache[k]]
          /\ now' = now + 1
          /\ UNCHANGED <<log, reader, worker, answer, failed, floor, handled, failures>>
      BY <2>1 DEF Tick
    <3>3. /\ cache' \in [Views -> [val : [Parts -> Nat], expires : Nat]]
          /\ \A k \in Views : cache'[k] = None \/ cache'[k].expires > now'
      BY <3>1, <3>2 DEF TypeOK
    <3> QED BY <3>2, <3>3 DEF TypeOK
  <2>2. ASSUME NEW r \in Readers, Fetch(r) \/ Reply(r) \/ \E k \in Keys : Hit(r, k) \/ Miss(r, k)
        PROVE  TypeOK'
    BY <2>2, RequestTypes
  <2>3. ASSUME NEW w \in Workers,
               Store(w) \/ Delete(w) \/ Return(w) \/ \E m \in Messages : Begin(w, m)
        PROVE  TypeOK'
    BY <2>3, HandlerTypes
  <2>4. CASE UNCHANGED vars
    BY <2>4 DEF vars, TypeOK
  <2> QED BY <2>1, <2>2, <2>3, <2>4 DEF Next
<1> QED BY <1>1, <1>2, PTL DEF Spec

(***************************************************************************)
(* Bounded staleness                                                       *)
(***************************************************************************)

\* The version v of p was current at t or later.
Since(p, v, t) == v \in 1..Len(log[p]) /\ (v < Len(log[p]) => log[p][v + 1] >= t)

SinceNext(p, v, t) == v \in 1..Len(log'[p]) /\ (v < Len(log'[p]) => log'[p][v + 1] >= t)

\* What was read at t or later, of some parts.
ReadSince(val, parts, t) ==
  \A p \in Parts :
    IF p \in parts THEN Since(p, val[p], t) \/ (val[p] = 0 /\ failed[p] >= t)
                   ELSE val[p] = 0

\* The same of the tables after a step, whatever becomes of the request.
ReadSinceNext(val, parts, t) ==
  \A p \in Parts :
    IF p \in parts THEN SinceNext(p, val[p], t) \/ (val[p] = 0 /\ failed'[p] >= t)
                   ELSE val[p] = 0

\* The parts a request has read.
SoFar(rd) == UNION {Query[rd.key][i].parts : i \in {i \in DOMAIN Query[rd.key] : i < rd.step}}

\* A request has read what was current since it began, and an entry was read
\* at most its TTL and a request's delay before it expires.
Recently ==
  /\ now >= 1
  /\ \A p \in Parts : Len(log[p]) >= 1
  /\ \A k \in Views : cache[k] # None =>
       \E t \in 1..now : /\ ReadSince(cache[k].val, Shows[k], t)
                         /\ cache[k].expires <= t + (Resolve(k) + Delay)
  /\ \A r \in Readers : reader[r].key # "none" =>
       /\ reader[r].key \in Keys /\ reader[r].step >= 1
       /\ reader[r].since \in 1..now /\ now <= reader[r].since + Delay
       /\ ReadSince(reader[r].val, SoFar(reader[r]), reader[r].since)

\* The tables are only appended to.
Grows ==
  /\ now' \in {now, now + 1}
  /\ \A p \in Parts : log'[p] = log[p] \/ log'[p] = Append(log[p], now)
  /\ \A p \in Parts : failed'[p] = failed[p] \/ failed'[p] = now

\* What was read at t was read at t whatever is written later.
LEMMA ReadKept ==
  ASSUME TypeOK, Grows, NEW val \in [Parts -> Nat], NEW parts, NEW t \in Nat, t <= now,
         ReadSince(val, parts, t)
  PROVE  ReadSinceNext(val, parts, t)
<1> SUFFICES ASSUME NEW p \in Parts, p \in parts
             PROVE  SinceNext(p, val[p], t) \/ (val[p] = 0 /\ failed'[p] >= t)
  BY DEF ReadSince, ReadSinceNext
<1>0. now \in Nat /\ log[p] \in Seq(Nat) /\ failed[p] \in Nat /\ val[p] \in Nat
  BY DEF TypeOK
<1>1. CASE val[p] = 0 /\ failed[p] >= t
  <2>1. failed'[p] = failed[p] \/ failed'[p] = now
    BY DEF Grows
  <2> QED BY <1>0, <1>1, <2>1
<1>2. CASE Since(p, val[p], t)
  <2>1. log'[p] = log[p] \/ log'[p] = Append(log[p], now)
    BY DEF Grows
  <2>2. CASE log'[p] = log[p]
    BY <1>2, <2>2 DEF Since, SinceNext
  <2>3. CASE log'[p] = Append(log[p], now)
    <3> DEFINE L == log[p]
               v == val[p]
    <3>1. v \in 1..Len(L) /\ (v < Len(L) => L[v + 1] >= t) /\ Len(L) \in Nat
      BY <1>0, <1>2 DEF Since
    <3>2. Len(log'[p]) = Len(L) + 1 /\ log'[p][Len(L) + 1] = now
      BY <1>0, <2>3
    <3>3. \A i \in 1..Len(L) : log'[p][i] = L[i]
      BY <1>0, <2>3
    <3>4. log'[p][v + 1] >= t
      <4>1. CASE v = Len(L)
        BY <1>0, <3>1, <3>2, <4>1
      <4>2. CASE v < Len(L)
        <5>1. v + 1 \in 1..Len(L)
          BY <3>1, <4>2
        <5> QED BY <3>1, <3>3, <4>2, <5>1
      <4> QED BY <3>1, <4>1, <4>2
    <3>5. v \in 1..(Len(L) + 1)
      BY <3>1
    <3> QED BY <3>2, <3>4, <3>5 DEF SinceNext
  <2> QED BY <2>1, <2>2, <2>3
<1> QED BY <1>1, <1>2 DEF ReadSince

\* No step shortens a table.
LEMMA StepGrows == TypeOK /\ [Next]_vars => Grows
<1> SUFFICES ASSUME TypeOK, [Next]_vars PROVE Grows
  OBVIOUS
<1>1. ASSUME UNCHANGED <<now, log, failed>> PROVE Grows
  BY <1>1 DEF Grows
<1>2. CASE Tick
  BY <1>2 DEF Tick, Grows
<1>3. ASSUME NEW r \in Readers, Fetch(r) PROVE Grows
  BY <1>3 DEF Fetch, Grows, TypeOK
<1>4. ASSUME NEW r \in Readers, Reply(r) \/ \E k \in Keys : Hit(r, k) \/ Miss(r, k) PROVE Grows
  BY <1>1, <1>4 DEF Reply, Hit, Miss
<1>5. ASSUME NEW w \in Workers, Store(w) PROVE Grows
  <2>1. UNCHANGED <<now, failed>>
    BY <1>5 DEF Store
  <2>2. \/ log' = [log EXCEPT ![Current(w).part] = Append(@, now)]
        \/ log' = log
    BY <1>5 DEF Store
  <2> QED BY <2>1, <2>2 DEF Grows, TypeOK
<1>6. ASSUME NEW w \in Workers, Delete(w) \/ Return(w) \/ \E m \in Messages : Begin(w, m)
      PROVE  Grows
  BY <1>1, <1>6 DEF Delete, Return, Begin
<1>7. CASE UNCHANGED vars
  BY <1>1, <1>7 DEF vars
<1> QED BY <1>2, <1>3, <1>4, <1>5, <1>6, <1>7 DEF Next

\* A statement reads what is current.
LEMMA ReadNow ==
  ASSUME TypeOK, Recently, NEW p \in Parts, NEW t \in Nat
  PROVE  Since(p, Version(p), t)
<1>1. Len(log[p]) \in Nat /\ Len(log[p]) >= 1
  BY DEF TypeOK, Recently
<1> QED BY <1>1 DEF Since, Version

\* A request that has gone through its statements has read its view.
LEMMA AllRead ==
  ASSUME NEW rd, rd.key \in Views, rd.step \in Nat, rd.step >= 1,
         rd.step \notin DOMAIN Query[rd.key]
  PROVE  SoFar(rd) = Shows[rd.key]
<1>1. PICK n \in Nat : DOMAIN Query[rd.key] = 1..n
  BY QueryDomain
<1>2. {i \in DOMAIN Query[rd.key] : i < rd.step} = DOMAIN Query[rd.key]
  BY <1>1
<1> QED BY <1>2 DEF SoFar, Shows

\* The requests' steps keep it.
LEMMA RequestsRecently ==
  ASSUME TypeOK, Recently, Grows, NEW r \in Readers,
         \/ \E k \in Keys : Hit(r, k) \/ Miss(r, k)
         \/ Fetch(r) \/ Reply(r)
  PROVE  Recently'
<1> DEFINE Entry(k) == cache[k] # None =>
             \E t \in 1..now : /\ ReadSince(cache[k].val, Shows[k], t)
                               /\ cache[k].expires <= t + (Resolve(k) + Delay)
           Request(q) == reader[q].key # "none" =>
             /\ reader[q].key \in Keys /\ reader[q].step >= 1
             /\ reader[q].since \in 1..now /\ now <= reader[q].since + Delay
             /\ ReadSince(reader[q].val, SoFar(reader[q]), reader[q].since)
<1>0. Keys \subseteq Views /\ now \in Nat /\ Delay \in Nat
  BY CacheAssumption DEF CacheAssumption, TypeOK
<1>1. now' = now /\ log' = log
  BY DEF Hit, Miss, Fetch, Reply
<1>2. \A p \in Parts : Len(log'[p]) >= 1
  BY <1>1 DEF Recently
<1>3. ASSUME NEW k \in Views, cache'[k] = cache[k] PROVE Entry(k)'
  <2>1. SUFFICES ASSUME cache[k] # None
                 PROVE  \E t \in 1..now : /\ ReadSinceNext(cache[k].val, Shows[k], t)
                                          /\ cache[k].expires <= t + (Resolve(k) + Delay)
    BY <1>1, <1>3 DEF ReadSince, ReadSinceNext, Since, SinceNext
  <2>2. PICK t \in 1..now : /\ ReadSince(cache[k].val, Shows[k], t)
                            /\ cache[k].expires <= t + (Resolve(k) + Delay)
    BY <2>1 DEF Recently
  <2>3. cache[k].val \in [Parts -> Nat] /\ t \in Nat /\ t <= now
    BY <1>0 DEF TypeOK
  <2>4. ReadSinceNext(cache[k].val, Shows[k], t)
    BY <2>2, <2>3, ReadKept
  <2> QED BY <2>2, <2>4
<1>4. ASSUME NEW q \in Readers, reader'[q] = reader[q] PROVE Request(q)'
  <2>1. SUFFICES ASSUME reader[q].key # "none"
                 PROVE  /\ reader[q].key \in Keys /\ reader[q].step >= 1
                        /\ reader[q].since \in 1..now /\ now <= reader[q].since + Delay
                        /\ ReadSinceNext(reader[q].val, SoFar(reader[q]), reader[q].since)
    BY <1>1, <1>4 DEF SoFar, ReadSince, ReadSinceNext, Since, SinceNext
  <2>2. /\ reader[q].key \in Keys /\ reader[q].step >= 1
        /\ reader[q].since \in 1..now /\ now <= reader[q].since + Delay
        /\ ReadSince(reader[q].val, SoFar(reader[q]), reader[q].since)
    BY <2>1 DEF Recently
  <2>3. reader[q].val \in [Parts -> Nat] /\ reader[q].since \in Nat /\ reader[q].since <= now
    BY <1>0, <2>2 DEF TypeOK
  <2>4. ReadSinceNext(reader[q].val, SoFar(reader[q]), reader[q].since)
    BY <2>2, <2>3, ReadKept
  <2> QED BY <2>2, <2>4
<1>5. SUFFICES (\A k \in Views : Entry(k)') /\ (\A q \in Readers : Request(q)')
  <2> HIDE DEF Entry, Request
  <2>1. now' >= 1
    BY <1>1 DEF Recently
  <2> QED BY <1>2, <2>1 DEF Recently, Entry, Request
<1> HIDE DEF Entry, Request
<1>6. ASSUME NEW k \in Keys, Hit(r, k)
      PROVE  (\A j \in Views : Entry(j)') /\ (\A q \in Readers : Request(q)')
  BY <1>3, <1>4, <1>6 DEF Hit
<1>7. ASSUME NEW k \in Keys, Miss(r, k)
      PROVE  (\A j \in Views : Entry(j)') /\ (\A q \in Readers : Request(q)')
  <2>1. PICK keep \in BOOLEAN :
          reader' = [reader EXCEPT ![r] = [key |-> k, step |-> 1, keep |-> keep,
                                           val |-> Blank, since |-> now]]
    BY <1>7 DEF Miss
  <2>2. cache' = cache /\ reader \in [Readers -> RequestType]
    BY <1>7, NamedTypes DEF Miss
  <2>3. reader'[r] = [key |-> k, step |-> 1, keep |-> keep, val |-> Blank, since |-> now]
    BY <2>1, <2>2
  <2>4. SoFar(reader'[r]) = {}
    <3>1. PICK n \in Nat : DOMAIN Query[k] = 1..n
      BY <1>0, QueryDomain
    <3>2. {i \in DOMAIN Query[k] : i < 1} = {}
      BY <3>1
    <3> QED BY <2>3, <3>2 DEF SoFar
  <2>5. Request(r)'
    <3>1. now >= 1
      BY DEF Recently
    <3>2. ReadSince(Blank, {}, now)'
      BY DEF ReadSince, Blank
    <3>3. ReadSince(reader[r].val, SoFar(reader[r]), reader[r].since)'
      BY <1>1, <2>3, <2>4, <3>2 DEF ReadSince
    <3>4. now \in 1..now /\ now <= now + Delay
      BY <1>0, <3>1
    <3> QED BY <1>1, <2>3, <3>3, <3>4 DEF Request
  <2> QED BY <1>3, <1>4, <2>1, <2>2, <2>5
<1>8. CASE Fetch(r)
  <2> DEFINE rd == reader[r]
             i  == rd.step
             s  == Query[rd.key][i]
  <2>1. /\ rd.key # "none" /\ i \in DOMAIN Query[rd.key] /\ cache' = cache
        /\ \/ /\ reader' = [reader EXCEPT ![r].step = @ + 1, ![r].val = Read(@, s.parts)]
              /\ failed' = failed
           \/ /\ reader' = [reader EXCEPT ![r].step = @ + 1]
              /\ failed' = [p \in Parts |-> IF p \in s.parts THEN now ELSE failed[p]]
           \/ reader' = [reader EXCEPT ![r] = Idle] /\ failed' = failed
    BY <1>8 DEF Fetch
  <2>2. /\ rd.key \in Keys /\ i >= 1 /\ rd.since \in 1..now /\ now <= rd.since + Delay
        /\ ReadSince(rd.val, SoFar(rd), rd.since)
    BY <2>1 DEF Recently
  <2>3. rd.val \in [Parts -> Nat] /\ rd.since \in Nat /\ rd.since <= now /\ i \in Nat
    BY <1>0, <2>2 DEF TypeOK
  <2>4. ReadSinceNext(rd.val, SoFar(rd), rd.since)
    BY <2>2, <2>3, ReadKept
  <2>5. reader \in [Readers -> RequestType]
    BY NamedTypes
  <2>6. ASSUME NEW nx, nx.key = rd.key, nx.step = i + 1 PROVE SoFar(nx) = SoFar(rd) \cup s.parts
    <3>1. PICK n \in Nat : DOMAIN Query[rd.key] = 1..n
      BY <1>0, <2>2, QueryDomain
    <3>2. {j \in DOMAIN Query[rd.key] : j < i + 1} = {j \in DOMAIN Query[rd.key] : j < i} \cup {i}
      BY <2>1, <2>3, <3>1
    <3> QED BY <2>6, <3>2 DEF SoFar
  <2>7. \A q \in Readers : q # r => reader'[q] = reader[q]
    BY <2>1, <2>5
  <2> HIDE DEF s
  <2>8. Request(r)'
    <3>1. CASE /\ reader' = [reader EXCEPT ![r].step = @ + 1, ![r].val = Read(@, s.parts)]
               /\ failed' = failed
      <4>1. /\ reader'[r].key = rd.key /\ reader'[r].step = i + 1
            /\ reader'[r].since = rd.since /\ reader'[r].val = Read(rd.val, s.parts)
        BY <2>5, <3>1 DEF RequestType
      <4>2. SoFar(reader'[r]) = SoFar(rd) \cup s.parts
        BY <2>6, <4>1
      <4>3. ReadSince(Read(rd.val, s.parts), SoFar(rd) \cup s.parts, rd.since)
        BY <2>2, <2>3, ReadNow DEF ReadSince, Read
      <4>4. ReadSince(reader[r].val, SoFar(reader[r]), reader[r].since)'
        BY <1>1, <3>1, <4>1, <4>2, <4>3 DEF ReadSince, Since
      <4> QED BY <1>1, <2>2, <2>3, <4>1, <4>4 DEF Request
    <3>2. CASE /\ reader' = [reader EXCEPT ![r].step = @ + 1]
               /\ failed' = [p \in Parts |-> IF p \in s.parts THEN now ELSE failed[p]]
      <4>1. /\ reader'[r].key = rd.key /\ reader'[r].step = i + 1
            /\ reader'[r].since = rd.since /\ reader'[r].val = rd.val
        BY <2>5, <3>2 DEF RequestType
      <4>2. SoFar(reader'[r]) = SoFar(rd) \cup s.parts
        BY <2>6, <4>1
      <4>3. ASSUME NEW p \in Parts
            PROVE  IF p \in SoFar(rd) \cup s.parts
                   THEN SinceNext(p, rd.val[p], rd.since) \/ (rd.val[p] = 0 /\ failed'[p] >= rd.since)
                   ELSE rd.val[p] = 0
        <5>1. CASE p \in SoFar(rd)
          BY <2>4, <5>1 DEF ReadSinceNext
        <5>2. CASE p \notin SoFar(rd) /\ p \in s.parts
          BY <2>2, <2>3, <3>2, <5>2 DEF ReadSince, SinceNext
        <5>3. CASE p \notin SoFar(rd) /\ p \notin s.parts
          BY <2>2, <5>3 DEF ReadSince
        <5> QED BY <5>1, <5>2, <5>3
      <4>4. ReadSince(reader[r].val, SoFar(reader[r]), reader[r].since)'
        BY <4>1, <4>2, <4>3 DEF ReadSince, Since, SinceNext
      <4> QED BY <1>1, <2>2, <2>3, <4>1, <4>4 DEF Request
    <3>3. CASE reader' = [reader EXCEPT ![r] = Idle] /\ failed' = failed
      <4>1. reader'[r].key = "none"
        BY <2>5, <3>3 DEF Idle
      <4> QED BY <4>1 DEF Request
    <3> QED BY <2>1, <3>1, <3>2, <3>3
  <2> QED BY <1>3, <1>4, <2>1, <2>7, <2>8
<1>9. CASE Reply(r)
  <2> DEFINE rd == reader[r]
             e  == [val |-> rd.val, expires |-> now + Resolve(rd.key)]
  <2>1. /\ rd.key # "none" /\ rd.step \notin DOMAIN Query[rd.key]
        /\ reader' = [reader EXCEPT ![r] = Idle]
        /\ cache' = [cache EXCEPT ![rd.key] = e] \/ cache' = cache
    BY <1>9 DEF Reply
  <2>2. /\ rd.key \in Keys /\ rd.step >= 1 /\ rd.since \in 1..now /\ now <= rd.since + Delay
        /\ ReadSince(rd.val, SoFar(rd), rd.since)
    BY <2>1 DEF Recently
  <2>3. rd.val \in [Parts -> Nat] /\ rd.since \in Nat /\ rd.since <= now /\ rd.step \in Nat
    BY <1>0, <2>2 DEF TypeOK
  <2>4. ReadSinceNext(rd.val, SoFar(rd), rd.since)
    BY <2>2, <2>3, ReadKept
  <2>5. SoFar(rd) = Shows[rd.key]
    BY <1>0, <2>1, <2>2, <2>3, AllRead
  <2>6. reader \in [Readers -> RequestType] /\ cache \in [Views -> EntryType]
    BY NamedTypes
  <2>7. Request(r)'
    <3>1. reader'[r].key = "none"
      BY <2>1, <2>6 DEF Idle
    <3> QED BY <3>1 DEF Request
  <2>8. ASSUME NEW k \in Views, k = rd.key, cache' = [cache EXCEPT ![k] = e] PROVE Entry(k)'
    <3>1. cache'[k].val = rd.val /\ cache'[k].expires = now + Resolve(k)
      BY <2>6, <2>8
    <3>2. PICK t \in 1..now : t = rd.since
      BY <2>2
    <3>3. now + Resolve(k) <= t + (Resolve(k) + Delay)
      <4>1. Resolve(k) \in Nat
        BY ResolveFact
      <4>2. now <= t + Delay /\ t \in Nat
        BY <2>2, <2>3, <3>2
      <4> QED BY <1>0, <4>1, <4>2
    <3>4. ReadSinceNext(rd.val, Shows[k], t)
      BY <2>4, <2>5, <2>8, <3>2
    <3> HIDE DEF e
    <3>5. ReadSince(cache[k].val, Shows[k], t)'
      BY <3>1, <3>4 DEF ReadSince, ReadSinceNext, Since, SinceNext
    <3> QED BY <1>1, <3>1, <3>3, <3>5 DEF Entry
  <2>9. CASE cache' = cache
    BY <1>3, <1>4, <2>1, <2>6, <2>7, <2>9
  <2>10. CASE cache' = [cache EXCEPT ![rd.key] = e]
    <3>1. \A k \in Views : k # rd.key => cache'[k] = cache[k]
      BY <2>6, <2>10
    <3>2. \A k \in Views : k = rd.key => Entry(k)'
      BY <2>8, <2>10
    <3> HIDE DEF e
    <3>3. \A k \in Views : Entry(k)'
      BY <1>3, <3>1, <3>2
    <3>4. \A q \in Readers : q # r => reader'[q] = reader[q]
      BY <2>1, <2>6
    <3> QED BY <1>4, <2>7, <3>3, <3>4
  <2> QED BY <2>1, <2>9, <2>10
<1> QED BY <1>6, <1>7, <1>8, <1>9

\* The other steps keep it.
LEMMA StaysRecent == TypeOK /\ Recently /\ [Next]_vars => Recently'
<1> SUFFICES ASSUME TypeOK, Recently, [Next]_vars PROVE Recently'
  OBVIOUS
<1>0. Grows /\ now \in Nat /\ Delay \in Nat
  BY StepGrows, CacheAssumption DEF TypeOK, CacheAssumption
<1>1. \A p \in Parts : Len(log'[p]) >= 1
  <2> SUFFICES ASSUME NEW p \in Parts PROVE Len(log'[p]) >= 1
    OBVIOUS
  <2>1. log[p] \in Seq(Nat) /\ Len(log[p]) >= 1
    BY DEF TypeOK, Recently
  <2>2. log'[p] = log[p] \/ log'[p] = Append(log[p], now)
    BY <1>0 DEF Grows
  <2> QED BY <2>1, <2>2, <1>0
<1>2. ASSUME /\ \/ now' = now
                \/ /\ now' = now + 1
                   /\ \A r \in Readers : reader[r] = Idle \/ now < reader[r].since + Delay
             /\ reader' = reader
             /\ \A k \in Views : cache'[k] = None \/ cache'[k] = cache[k]
      PROVE  Recently'
  <2>1. now' >= 1 /\ now' \in Nat /\ now' >= now
    BY <1>0, <1>2 DEF Recently
  <2>2. ASSUME NEW k \in Views, cache'[k] # None
        PROVE  \E t \in 1..now' : /\ ReadSince(cache[k].val, Shows[k], t)'
                                  /\ cache'[k].expires <= t + (Resolve(k) + Delay)
    <3>1. cache'[k] = cache[k]
      BY <1>2, <2>2
    <3>2. PICK t \in 1..now : /\ ReadSince(cache[k].val, Shows[k], t)
                              /\ cache[k].expires <= t + (Resolve(k) + Delay)
      BY <2>2, <3>1 DEF Recently
    <3>3. cache[k].val \in [Parts -> Nat] /\ t \in Nat /\ t <= now
      BY <1>0 DEF TypeOK
    <3>4. ReadSinceNext(cache[k].val, Shows[k], t)
      BY <1>0, <3>2, <3>3, ReadKept
    <3>5. ReadSince(cache[k].val, Shows[k], t)'
      BY <3>1, <3>4 DEF ReadSince, ReadSinceNext, Since, SinceNext
    <3>6. t \in 1..now'
      BY <1>0, <2>1
    <3> QED BY <3>1, <3>2, <3>5, <3>6
  <2>3. ASSUME NEW r \in Readers, reader'[r].key # "none"
        PROVE  /\ reader'[r].key \in Keys /\ reader'[r].step >= 1
               /\ reader'[r].since \in 1..now' /\ now' <= reader'[r].since + Delay
               /\ ReadSince(reader[r].val, SoFar(reader[r]), reader[r].since)'
    <3>1. /\ reader[r].key \in Keys /\ reader[r].step >= 1
          /\ reader[r].since \in 1..now /\ now <= reader[r].since + Delay
          /\ ReadSince(reader[r].val, SoFar(reader[r]), reader[r].since)
      BY <1>2, <2>3 DEF Recently
    <3>2. /\ reader[r].val \in [Parts -> Nat] /\ reader[r].since \in Nat
          /\ reader[r].since <= now
      BY <1>0, <3>1 DEF TypeOK
    <3>3. ReadSinceNext(reader[r].val, SoFar(reader[r]), reader[r].since)
      BY <1>0, <3>1, <3>2, ReadKept
    <3>4. ReadSince(reader[r].val, SoFar(reader[r]), reader[r].since)'
      BY <1>2, <3>3 DEF ReadSince, ReadSinceNext, Since, SinceNext, SoFar
    <3>5. reader[r] # Idle
      BY <1>2, <2>3 DEF Idle
    <3>6. reader[r].since \in 1..now' /\ now' <= reader[r].since + Delay
      BY <1>0, <1>2, <2>1, <3>1, <3>2, <3>5
    <3> QED BY <1>2, <3>1, <3>4, <3>6
  <2> QED BY <1>1, <2>1, <2>2, <2>3 DEF Recently
<1>3. CASE Tick
  BY <1>2, <1>3 DEF Tick
<1>4. ASSUME NEW r \in Readers, Fetch(r) \/ Reply(r) \/ \E k \in Keys : Hit(r, k) \/ Miss(r, k)
      PROVE  Recently'
  BY <1>0, <1>4, RequestsRecently
<1>5. ASSUME NEW w \in Workers, Store(w) \/ Return(w) \/ \E m \in Messages : Begin(w, m)
      PROVE  Recently'
  <2>1. UNCHANGED <<now, reader, cache>>
    BY <1>5 DEF Store, Return, Begin
  <2> QED BY <1>2, <2>1
<1>6. ASSUME NEW w \in Workers, Delete(w) PROVE Recently'
  <2>1. \A k \in Views : cache'[k] = None \/ cache'[k] = cache[k]
    BY <1>6 DEF Delete
  <2>2. UNCHANGED <<now, reader>>
    BY <1>6 DEF Delete
  <2> QED BY <1>2, <2>1, <2>2
<1>7. CASE UNCHANGED vars
  <2>1. UNCHANGED <<now, reader, cache>>
    BY <1>7 DEF vars
  <2> QED BY <1>2, <2>1
<1> QED BY <1>3, <1>4, <1>5, <1>6, <1>7 DEF Next

\* What was read recently is what the register may answer.
LEMMA RecentAnswer ==
  ASSUME TypeOK, NEW r \in Readers, NEW k \in Keys, NEW val \in [Parts -> Nat], NEW t \in Nat \ {0},
         ReadSince(val, Shows[k], t), now < t + (Resolve(k) + Delay),
         answer' = [answer EXCEPT ![r] = [key |-> k, val |-> val]],
         UNCHANGED <<now, log, failed>>
  PROVE  Stale!SNext
<1> DEFINE W == Resolve(k) + Delay
<1>0. k \in Views
  BY CacheAssumption DEF CacheAssumption
<1>1. now \in Nat /\ W \in Nat /\ now < t + W
  BY <1>0, ResolveFact, CacheAssumption DEF TypeOK, CacheAssumption
<1>2. [j \in Views |-> Resolve(j) + Delay][k] = W
  BY <1>0
<1> HIDE DEF W
<1>3. ASSUME NEW p \in Parts
      PROVE  IF p \in Shows[k]
             THEN Stale!Recent(k, p, val[p]) \/ (val[p] = 0 /\ Stale!FailedRecently(k, p))
             ELSE val[p] = 0
  <2>1. CASE p \notin Shows[k]
    BY <2>1 DEF ReadSince
  <2>2. CASE p \in Shows[k] /\ Since(p, val[p], t)
    <3>1. log[p] \in Seq(Nat) /\ val[p] \in Nat
      BY DEF TypeOK
    <3>2. ASSUME val[p] < Len(log[p]) PROVE log[p][val[p] + 1] + W > now
      <4>1. log[p][val[p] + 1] >= t
        BY <2>2, <3>2 DEF Since
      <4>2. val[p] + 1 \in 1..Len(log[p])
        BY <3>1, <3>2
      <4>3. log[p][val[p] + 1] \in Nat
        BY <3>1, <4>2
      <4> QED BY <1>1, <4>1, <4>3
    <3> QED BY <1>2, <2>2, <3>2 DEF Since, Stale!Recent
  <2>3. CASE p \in Shows[k] /\ val[p] = 0 /\ failed[p] >= t
    <3>1. failed[p] \in Nat
      BY DEF TypeOK
    <3>2. failed[p] # 0 /\ failed[p] + W > now
      BY <1>1, <2>3, <3>1
    <3> QED BY <1>2, <2>3, <3>2 DEF Stale!FailedRecently
  <2> QED BY <2>1, <2>2, <2>3 DEF ReadSince
<1>4. Stale!Answer(r, k, val)
  BY <1>3 DEF Stale!Answer
<1>5. answer'[r].val = val
  BY DEF TypeOK
<1> QED BY <1>4, <1>5 DEF Stale!SNext

\* Each step of the cache is one of the register, or none.
LEMMA StepRefines ==
  TypeOK /\ Recently /\ [Next]_vars => [Stale!SNext]_(Stale!svars)
<1> SUFFICES ASSUME TypeOK, Recently, [Next]_vars PROVE Stale!SNext \/ UNCHANGED Stale!svars
  BY DEF Stale!svars
<1>0. Keys \subseteq Views /\ now \in Nat /\ Delay \in Nat /\ now >= 1
  BY CacheAssumption DEF CacheAssumption, TypeOK, Recently
<1>1. ASSUME UNCHANGED <<now, log, failed, answer>> PROVE UNCHANGED Stale!svars
  BY <1>1 DEF Stale!svars
<1>2. CASE Tick
  BY <1>2 DEF Tick, Stale!SNext, Stale!Tick
<1>3. ASSUME NEW r \in Readers, NEW k \in Keys, Hit(r, k) PROVE Stale!SNext
  <2>1. /\ cache[k] # None /\ UNCHANGED <<now, log, failed>>
        /\ answer' = [answer EXCEPT ![r] = [key |-> k, val |-> cache[k].val]]
    BY <1>3 DEF Hit
  <2>2. PICK t \in 1..now : /\ ReadSince(cache[k].val, Shows[k], t)
                            /\ cache[k].expires <= t + (Resolve(k) + Delay)
    BY <1>0, <2>1 DEF Recently
  <2>3. cache[k].expires > now /\ cache[k].expires \in Nat /\ cache[k].val \in [Parts -> Nat]
    BY <1>0, <2>1 DEF TypeOK
  <2>4. now < t + (Resolve(k) + Delay) /\ t \in Nat \ {0}
    <3>1. Resolve(k) + Delay \in Nat
      BY <1>0, ResolveFact
    <3> QED BY <1>0, <2>2, <2>3, <3>1
  <2> QED BY <2>1, <2>2, <2>3, <2>4, RecentAnswer
<1>4. ASSUME NEW r \in Readers, NEW k \in Keys, Miss(r, k) PROVE Stale!SNext
  BY <1>4 DEF Miss, Nothing, Blank, Stale!SNext, Stale!Forget, Stale!Nothing, Stale!Blank
<1>5. ASSUME NEW r \in Readers, Fetch(r) PROVE Stale!SNext \/ UNCHANGED Stale!svars
  <2> DEFINE rd == reader[r]
             s  == Query[rd.key][rd.step]
  <2>1. /\ rd.key # "none" /\ rd.step \in DOMAIN Query[rd.key]
        /\ UNCHANGED <<now, log, answer>>
        /\ \/ failed' = failed
           \/ /\ s.optional
              /\ failed' = [p \in Parts |-> IF p \in s.parts THEN now ELSE failed[p]]
    BY <1>5 DEF Fetch
  <2>2. CASE failed' = failed
    BY <1>1, <2>1, <2>2
  <2>3. CASE /\ s.optional
             /\ failed' = [p \in Parts |-> IF p \in s.parts THEN now ELSE failed[p]]
    <3>1. rd.key \in Views
      BY <2>1 DEF TypeOK
    <3>2. PICK q \in Parts : s.parts = {q}
      BY <2>1, <2>3, <3>1, OptionalReadsOne
    <3> HIDE DEF s
    <3>3. failed' = [failed EXCEPT ![q] = now]
      BY <2>3, <3>2 DEF TypeOK
    <3>4. Stale!Fail(q)
      BY <2>1, <3>3 DEF Stale!Fail
    <3> QED BY <3>4 DEF Stale!SNext
  <2> QED BY <2>1, <2>2, <2>3
<1>6. ASSUME NEW r \in Readers, Reply(r) PROVE Stale!SNext
  <2> DEFINE rd == reader[r]
  <2>1. /\ rd.key # "none" /\ rd.step \notin DOMAIN Query[rd.key]
        /\ answer' = [answer EXCEPT ![r] = [key |-> rd.key, val |-> rd.val]]
        /\ UNCHANGED <<now, log, failed>>
    BY <1>6 DEF Reply
  <2>2. /\ rd.key \in Keys /\ rd.step >= 1 /\ rd.since \in 1..now /\ now <= rd.since + Delay
        /\ ReadSince(rd.val, SoFar(rd), rd.since)
    BY <2>1 DEF Recently
  <2>3. rd.val \in [Parts -> Nat] /\ rd.since \in Nat \ {0} /\ rd.step \in Nat
    BY <1>0, <2>2 DEF TypeOK
  <2>4. SoFar(rd) = Shows[rd.key]
    BY <1>0, <2>1, <2>2, <2>3, AllRead
  <2>5. now < rd.since + (Resolve(rd.key) + Delay)
    <3>1. Resolve(rd.key) \in Nat \ {0}
      BY <1>0, <2>2, ResolveFact
    <3> QED BY <1>0, <2>2, <2>3, <3>1
  <2>6. PICK k \in Keys : k = rd.key
    BY <2>2
  <2> QED BY <2>1, <2>2, <2>3, <2>4, <2>5, <2>6, RecentAnswer
<1>7. ASSUME NEW w \in Workers, Store(w) PROVE Stale!SNext \/ UNCHANGED Stale!svars
  <2>1. /\ At(w, {"upsert", "must", "logged"}) /\ UNCHANGED <<now, failed, answer>>
        /\ \/ log' = [log EXCEPT ![Current(w).part] = Append(@, now)]
           \/ log' = log
    BY <1>7 DEF Store
  <2>2. Current(w).part \in Parts
    <3>1. worker[w].msg \in DOMAIN Script
      BY <2>1 DEF TypeOK, At
    <3> QED BY <2>1, <3>1, ScriptFact DEF At, Current, Writes
  <2>3. CASE log' = log
    BY <1>1, <2>1, <2>3
  <2>4. CASE log' = [log EXCEPT ![Current(w).part] = Append(@, now)]
    BY <2>1, <2>2, <2>4 DEF Stale!SNext, Stale!Write
  <2> QED BY <2>1, <2>3, <2>4
<1>8. ASSUME NEW w \in Workers, Delete(w) \/ Return(w) \/ \E m \in Messages : Begin(w, m)
      PROVE  UNCHANGED Stale!svars
  BY <1>1, <1>8 DEF Delete, Return, Begin
<1>9. CASE UNCHANGED vars
  BY <1>1, <1>9 DEF vars
<1> QED BY <1>2, <1>3, <1>4, <1>5, <1>6, <1>7, <1>8, <1>9 DEF Next

\* Every answer is made of versions that were current within the TTL of its
\* category and one request's time: the cache implements the stale register.
THEOREM ImplementsRegister == Spec => BoundedStaleness
<1>1. Init => Recently
  BY DEF Init, Recently, Idle
<1>2. Init => Stale!SInit
  BY DEF Init, Stale!SInit, Nothing, Blank, Stale!Nothing, Stale!Blank
<1> QED BY <1>1, <1>2, TypeCorrect, StaysRecent, StepRefines, PTL
        DEF Spec, BoundedStaleness, Stale!SSpec

(***************************************************************************)
(* Invalidation                                                            *)
(***************************************************************************)

\* No entry, nor anything on its way to one, shows p older than version n.
Owed(p, n) ==
  /\ n <= Version(p)
  /\ \A k \in Views : cache[k].val[p] # 0 => cache[k].val[p] >= n
  /\ \A r \in Readers : (reader[r].key # "none" /\ reader[r].keep /\ reader[r].val[p] # 0)
                          => reader[r].val[p] >= n

\* What is owed stays owed.
LEMMA StaysOwed ==
  ASSUME TypeOK, [Next]_vars, NEW p \in Parts, NEW n \in Nat, Owed(p, n)
  PROVE  Owed(p, n)'
<1>0. /\ reader \in [Readers -> RequestType] /\ cache \in [Views -> EntryType]
      /\ Version(p) \in Nat /\ None.val[p] = 0 /\ Blank[p] = 0
  BY NamedTypes, VersionType DEF None, Blank
<1>1. n <= Version(p)'
  <2>1. log[p] \in Seq(Nat) /\ Len(log[p]) \in Nat /\ now \in Nat
    BY DEF TypeOK
  <2>2. log'[p] = log[p] \/ log'[p] = Append(log[p], now)
    BY StepGrows DEF Grows
  <2> QED BY <2>1, <2>2 DEF Owed, Version
<1>2. ASSUME \A k \in Views : cache'[k].val[p] \in {0, cache[k].val[p]},
             reader' = reader
      PROVE  Owed(p, n)'
  <2>1. \A k \in Views : cache'[k].val[p] # 0 => cache'[k].val[p] >= n
    BY <1>2 DEF Owed
  <2> QED BY <1>1, <1>2, <2>1 DEF Owed
<1>3. ASSUME cache' = cache, reader' = reader PROVE Owed(p, n)'
  BY <1>1, <1>3 DEF Owed
<1>4. ASSUME NEW r \in Readers, cache' = cache,
             \A q \in Readers : q # r => reader'[q] = reader[q],
             (reader'[r].key # "none" /\ reader'[r].keep /\ reader'[r].val[p] # 0)
               => reader'[r].val[p] >= n
      PROVE  Owed(p, n)'
  <2>1. \A q \in Readers : (reader'[q].key # "none" /\ reader'[q].keep /\ reader'[q].val[p] # 0)
                             => reader'[q].val[p] >= n
    BY <1>4 DEF Owed
  <2> QED BY <1>1, <1>4, <2>1 DEF Owed
<1>5. CASE Tick
  <2>1. \A k \in Views : cache'[k].val[p] \in {0, cache[k].val[p]}
    BY <1>0, <1>5 DEF Tick
  <2> QED BY <1>2, <1>5, <2>1 DEF Tick
<1>6. ASSUME NEW r \in Readers, NEW k \in Keys, Hit(r, k) PROVE Owed(p, n)'
  BY <1>3, <1>6 DEF Hit
<1>7. ASSUME NEW r \in Readers, NEW k \in Keys, Miss(r, k) PROVE Owed(p, n)'
  <2>1. PICK keep \in BOOLEAN :
          reader' = [reader EXCEPT ![r] = [key |-> k, step |-> 1, keep |-> keep,
                                           val |-> Blank, since |-> now]]
    BY <1>7 DEF Miss
  <2>2. reader'[r].val[p] = 0 /\ \A q \in Readers : q # r => reader'[q] = reader[q]
    BY <1>0, <2>1
  <2> QED BY <1>4, <1>7, <2>2 DEF Miss
<1>8. ASSUME NEW r \in Readers, Fetch(r) PROVE Owed(p, n)'
  <2> DEFINE rd == reader[r]
             s  == Query[rd.key][rd.step]
  <2>1. /\ rd.key # "none" /\ cache' = cache
        /\ \/ reader' = [reader EXCEPT ![r].step = @ + 1, ![r].val = Read(@, s.parts)]
           \/ reader' = [reader EXCEPT ![r].step = @ + 1]
           \/ reader' = [reader EXCEPT ![r] = Idle]
    BY <1>8 DEF Fetch
  <2> HIDE DEF s
  <2>2. \A q \in Readers : q # r => reader'[q] = reader[q]
    BY <1>0, <2>1
  <2>3. CASE reader' = [reader EXCEPT ![r].step = @ + 1, ![r].val = Read(@, s.parts)]
    <3>1. reader'[r].keep = rd.keep /\ reader'[r].val = Read(rd.val, s.parts)
      BY <1>0, <2>3 DEF RequestType
    <3>2. reader'[r].val[p] = Version(p) \/ reader'[r].val[p] = rd.val[p]
      BY <3>1 DEF Read
    <3>3. (reader'[r].key # "none" /\ reader'[r].keep /\ reader'[r].val[p] # 0)
            => reader'[r].val[p] >= n
      BY <1>0, <2>1, <3>1, <3>2 DEF Owed
    <3> QED BY <1>4, <2>1, <2>2, <3>3
  <2>4. CASE reader' = [reader EXCEPT ![r].step = @ + 1]
    <3>1. reader'[r].keep = rd.keep /\ reader'[r].val = rd.val
      BY <1>0, <2>4 DEF RequestType
    <3>2. (reader'[r].key # "none" /\ reader'[r].keep /\ reader'[r].val[p] # 0)
            => reader'[r].val[p] >= n
      BY <2>1, <3>1 DEF Owed
    <3> QED BY <1>4, <2>1, <2>2, <3>2
  <2>5. CASE reader' = [reader EXCEPT ![r] = Idle]
    <3>1. reader'[r].key = "none"
      BY <1>0, <2>5 DEF Idle
    <3> QED BY <1>4, <2>1, <2>2, <3>1
  <2> QED BY <2>1, <2>3, <2>4, <2>5
<1>9. ASSUME NEW r \in Readers, Reply(r) PROVE Owed(p, n)'
  <2> DEFINE rd == reader[r]
             e  == [val |-> rd.val, expires |-> now + Resolve(rd.key)]
  <2>1. /\ rd.key # "none"
        /\ reader' = [reader EXCEPT ![r] = Idle]
        /\ cache' = cache \/ (rd.keep /\ cache' = [cache EXCEPT ![rd.key] = e])
    BY <1>9 DEF Reply
  <2>2. reader'[r].key = "none" /\ \A q \in Readers : q # r => reader'[q] = reader[q]
    BY <1>0, <2>1 DEF Idle
  <2>3. \A q \in Readers : (reader'[q].key # "none" /\ reader'[q].keep /\ reader'[q].val[p] # 0)
                             => reader'[q].val[p] >= n
    BY <2>2 DEF Owed
  <2>4. ASSUME NEW k \in Views, cache'[k].val[p] # 0 PROVE cache'[k].val[p] >= n
    <3>1. CASE cache'[k] = cache[k]
      BY <2>4, <3>1 DEF Owed
    <3>2. CASE cache'[k] # cache[k]
      <4>1. rd.keep /\ cache'[k] = e
        BY <1>0, <2>1, <3>2
      <4>2. cache'[k].val = rd.val
        BY <4>1
      <4> QED BY <2>1, <2>4, <4>1, <4>2 DEF Owed
    <3> QED BY <3>1, <3>2
  <2> QED BY <1>1, <2>3, <2>4 DEF Owed
<1>10. ASSUME NEW w \in Workers, Store(w) \/ Return(w) \/ \E m \in Messages : Begin(w, m)
       PROVE  Owed(p, n)'
  <2>1. cache' = cache /\ reader' = reader
    BY <1>10 DEF Store, Return, Begin
  <2> QED BY <1>3, <2>1
<1>11. ASSUME NEW w \in Workers, Delete(w) PROVE Owed(p, n)'
  <2>1. \A k \in Views : cache'[k].val[p] \in {0, cache[k].val[p]}
    BY <1>0, <1>11 DEF Delete
  <2> QED BY <1>2, <1>11, <2>1 DEF Delete
<1>12. CASE UNCHANGED vars
  BY <1>3, <1>12 DEF vars
<1> QED BY <1>5, <1>6, <1>7, <1>8, <1>9, <1>10, <1>11, <1>12 DEF Next

\* What a handler upserted is owed once its invalidation met no fill, and to
\* every entry when it has returned.
Visible ==
  /\ \A p \in Parts : Owed(p, floor[p])
  /\ \A w \in Workers :
       /\ worker[w].msg # "none" => worker[w].wrote <= Version(Upserted(worker[w].msg))
       /\ worker[w].sound => /\ worker[w].msg # "none" /\ worker[w].pc >= 3
                             /\ Owed(Upserted(worker[w].msg), worker[w].wrote)

\* An invalidation that met no fill leaves no older version behind.
LEMMA DeleteOwes ==
  ASSUME TypeOK, Recently, Visible, [Next]_vars, NEW w \in Workers, Delete(w),
         cache' = [k \in Views |-> IF k \in Current(w).keys THEN None ELSE cache[k]],
         ~Filling(Current(w).keys), NEW p \in Parts, p = Upserted(worker[w].msg),
         NEW n \in Nat, n = worker[w].wrote
  PROVE  Owed(p, n)'
<1> DEFINE ks == Current(w).keys
<1>0. /\ worker[w].msg \in DOMAIN Script
      /\ worker[w].msg # "none"
      /\ worker[w].pc \in DOMAIN Script[worker[w].msg] /\ Current(w).op = "invalidate"
  BY DEF Delete, At, TypeOK
<1>1. /\ p = "observer" => ObserverKeys \subseteq ks
      /\ p = "node" => NodeKeys \subseteq ks
  BY <1>0, ScriptFact DEF Current
<1>2. \A k \in Views : k \notin ks => p \notin Shows[k]
  BY <1>1, WhoShows, UpsertedPart
<1> HIDE DEF ks
<1>3. ASSUME NEW k \in Views PROVE cache'[k].val[p] = 0
  <2>1. CASE k \in ks
    BY <2>1 DEF None, Blank, ks
  <2>2. CASE k \notin ks /\ cache[k] = None
    BY <2>2 DEF None, Blank, ks
  <2>3. CASE k \notin ks /\ cache[k] # None
    <3>1. PICK t \in 1..now : ReadSince(cache[k].val, Shows[k], t)
      BY <2>3 DEF Recently
    <3>2. cache[k].val[p] = 0
      BY <1>2, <2>3, <3>1 DEF ReadSince
    <3> QED BY <2>3, <3>2 DEF ks
  <2> QED BY <2>1, <2>2, <2>3
<1>4. ASSUME NEW r \in Readers, reader[r].key # "none", reader[r].keep
      PROVE  reader[r].val[p] = 0
  <2>1. CASE reader[r].key \in ks
    BY <1>4, <2>1 DEF Filling, Blank, ks
  <2>2. CASE reader[r].key \notin ks
    <3>1. reader[r].key \in Views /\ p \notin Shows[reader[r].key]
      BY <1>2, <1>4, <2>2 DEF TypeOK
    <3>2. SoFar(reader[r]) \subseteq Shows[reader[r].key]
      BY <3>1 DEF SoFar, Shows
    <3>3. ReadSince(reader[r].val, SoFar(reader[r]), reader[r].since)
      BY <1>4 DEF Recently
    <3> QED BY <3>1, <3>2, <3>3 DEF ReadSince
  <2> QED BY <2>1, <2>2
<1>5. n <= Version(p) /\ reader' = reader /\ log' = log
  BY <1>0 DEF Visible, Delete
<1> QED BY <1>3, <1>4, <1>5 DEF Owed, Version

\* Every step keeps what is owed.
LEMMA StaysVisible == TypeOK /\ Recently /\ Visible /\ [Next]_vars => Visible'
<1> SUFFICES ASSUME TypeOK, Recently, Visible, [Next]_vars PROVE Visible'
  OBVIOUS
<1> DEFINE Debt(w) ==
             /\ worker[w].msg # "none" => worker[w].wrote <= Version(Upserted(worker[w].msg))
             /\ worker[w].sound => /\ worker[w].msg # "none" /\ worker[w].pc >= 3
                                   /\ Owed(Upserted(worker[w].msg), worker[w].wrote)
<1>0. worker \in [Workers -> HandlerType] /\ floor \in [Parts -> Nat]
  BY NamedTypes DEF TypeOK
<1>1. ASSUME NEW p \in Parts, floor'[p] = floor[p] PROVE Owed(p, floor[p])'
  <2>1. PICK n \in Nat : n = floor[p]
    BY <1>0
  <2>2. Owed(p, n)'
    BY <2>1, StaysOwed DEF Visible
  <2> QED BY <1>1, <2>1, <2>2 DEF Owed
<1>2. ASSUME NEW p \in Parts PROVE Version(p) <= Version(p)' /\ Version(p) \in Nat /\ Version(p)' \in Nat
  <2>1. log[p] \in Seq(Nat) /\ now \in Nat
    BY DEF TypeOK
  <2>2. log'[p] = log[p] \/ log'[p] = Append(log[p], now)
    BY StepGrows DEF Grows
  <2> QED BY <2>1, <2>2 DEF Version
<1>3. ASSUME NEW w \in Workers, worker'[w].msg = worker[w].msg, worker'[w].wrote = worker[w].wrote,
             worker'[w].sound => worker[w].sound /\ worker'[w].pc >= worker[w].pc,
             worker'[w].pc \in Nat
      PROVE  Debt(w)'
  <2>1. PICK p \in Parts : p = Upserted(worker[w].msg)
    BY UpsertedPart
  <2>2. PICK n \in Nat : n = worker[w].wrote
    BY <1>0 DEF HandlerType
  <2>3. worker[w].pc \in Nat
    BY <1>0 DEF HandlerType
  <2>4. Upserted(worker[w].msg)' = p /\ worker'[w].wrote = n
    BY <1>3, <2>1, <2>2 DEF Upserted
  <2>5. worker'[w].msg # "none" => n <= Version(p)'
    <3>1. worker[w].msg # "none" => n <= Version(p)
      BY <2>1, <2>2 DEF Visible
    <3>2. Version(p) <= Version(p)' /\ Version(p) \in Nat /\ Version(p)' \in Nat
      BY <1>2
    <3> QED BY <1>3, <2>2, <3>1, <3>2
  <2>6. worker[w].sound => worker[w].msg # "none" /\ worker[w].pc >= 3 /\ Owed(p, n)
    BY <2>1, <2>2 DEF Visible
  <2>7. worker'[w].sound => worker'[w].msg # "none" /\ worker'[w].pc >= 3 /\ Owed(p, n)'
    BY <1>3, <2>3, <2>6, StaysOwed
  <2> QED BY <2>4, <2>5, <2>7 DEF Owed, Version
<1>4. ASSUME NEW w \in Workers, worker'[w] = worker[w] PROVE Debt(w)'
  <2>1. worker[w].pc \in Nat
    BY <1>0 DEF HandlerType
  <2> QED BY <1>3, <1>4, <2>1
<1>5. ASSUME NEW w \in Workers, worker'[w].msg = "none", worker'[w].sound = FALSE PROVE Debt(w)'
  BY <1>5
<1> HIDE DEF Debt
<1>6. ASSUME worker' = worker, floor' = floor PROVE Visible'
  BY <1>1, <1>4, <1>6 DEF Visible, Debt
<1>7. ASSUME floor' = floor, NEW w \in Workers, \A v \in Workers : v # w => worker'[v] = worker[v],
             Debt(w)'
      PROVE  Visible'
  BY <1>1, <1>4, <1>7 DEF Visible, Debt
<1>8. ASSUME NEW w \in Workers, Store(w) PROVE Visible'
  <2> DEFINE s == Current(w)
             wk == worker[w]
  <2>1. /\ wk.msg # "none" /\ wk.pc \in DOMAIN Script[wk.msg] /\ floor' = floor
        /\ s.op \in {"upsert", "must", "logged"}
        /\ \/ /\ log' = [log EXCEPT ![s.part] = Append(@, now)]
              /\ worker' = [worker EXCEPT ![w].pc = @ + 1,
                             ![w].wrote = IF s.op = "upsert" THEN Version(s.part) + 1 ELSE @]
           \/ worker' = [worker EXCEPT ![w].pc = @ + 1]
           \/ worker' = [worker EXCEPT ![w] = Free]
    BY <1>8 DEF Store, At
  <2>2. wk.msg \in DOMAIN Script /\ wk.pc \in Nat
    BY <2>1 DEF TypeOK
  <2>3. /\ s.part \in Parts
        /\ s.op = "upsert" => s.part = Upserted(wk.msg) /\ wk.pc = 1
    BY <2>1, <2>2, ScriptFact DEF Current, Writes
  <2> HIDE DEF s
  <2>4. \A v \in Workers : v # w => worker'[v] = worker[v]
    BY <1>0, <2>1
  <2>5. CASE worker' = [worker EXCEPT ![w].pc = @ + 1]
    <3>1. /\ worker'[w].msg = wk.msg /\ worker'[w].wrote = wk.wrote
          /\ worker'[w].sound = wk.sound /\ worker'[w].pc = wk.pc + 1
      BY <1>0, <2>5 DEF HandlerType
    <3> QED BY <1>3, <1>7, <2>1, <2>2, <2>4, <3>1
  <2>6. CASE worker' = [worker EXCEPT ![w] = Free]
    <3>1. worker'[w].msg = "none" /\ worker'[w].sound = FALSE
      BY <1>0, <2>6 DEF Free
    <3> QED BY <1>5, <1>7, <2>1, <2>4, <3>1
  <2>7. CASE /\ log' = [log EXCEPT ![s.part] = Append(@, now)]
             /\ worker' = [worker EXCEPT ![w].pc = @ + 1,
                            ![w].wrote = IF s.op = "upsert" THEN Version(s.part) + 1 ELSE @]
    <3>1. /\ worker'[w].msg = wk.msg /\ worker'[w].sound = wk.sound
          /\ worker'[w].pc = wk.pc + 1
          /\ worker'[w].wrote = IF s.op = "upsert" THEN Version(s.part) + 1 ELSE wk.wrote
      BY <1>0, <2>7 DEF HandlerType
    <3>2. CASE s.op # "upsert"
      BY <1>3, <1>7, <2>1, <2>2, <2>4, <3>1, <3>2
    <3>3. CASE s.op = "upsert"
      <4>1. ~wk.sound
        BY <2>3, <3>3 DEF Visible
      <4>2. PICK p \in Parts : p = s.part
        BY <2>3
      <4>3. Len(log'[p]) = Len(log[p]) + 1
        BY <2>7, <4>2 DEF TypeOK
      <4>4. worker'[w].wrote = Version(p)' /\ Version(p)' \in Nat
        BY <1>2, <3>1, <3>3, <4>2, <4>3 DEF Version
      <4>5. Upserted(worker[w].msg)' = p
        BY <2>3, <3>1, <3>3, <4>2 DEF Upserted
      <4>6. Debt(w)'
        BY <3>1, <4>1, <4>4, <4>5 DEF Debt, Version
      <4> QED BY <1>7, <2>1, <2>4, <4>6
    <3> QED BY <3>2, <3>3
  <2> QED BY <2>1, <2>5, <2>6, <2>7
<1>9. ASSUME NEW w \in Workers, Delete(w) PROVE Visible'
  <2> DEFINE wk == worker[w]
  <2>1. /\ wk.msg # "none" /\ wk.pc \in DOMAIN Script[wk.msg] /\ floor' = floor
        /\ Current(w).op = "invalidate"
        /\ \/ /\ cache' = [k \in Views |-> IF k \in Current(w).keys THEN None ELSE cache[k]]
              /\ worker' = [worker EXCEPT ![w].pc = @ + 1,
                                          ![w].sound = ~Filling(Current(w).keys)]
           \/ worker' = [worker EXCEPT ![w].pc = @ + 1]
    BY <1>9 DEF Delete, At
  <2>2. wk.msg \in DOMAIN Script /\ wk.pc \in Nat
    BY <2>1 DEF TypeOK
  <2>3. wk.pc = 2
    BY <2>1, <2>2, ScriptFact DEF Current
  <2>4. \A v \in Workers : v # w => worker'[v] = worker[v]
    BY <1>0, <2>1
  <2>5. CASE worker' = [worker EXCEPT ![w].pc = @ + 1]
    <3>1. /\ worker'[w].msg = wk.msg /\ worker'[w].wrote = wk.wrote
          /\ worker'[w].sound = wk.sound /\ worker'[w].pc = wk.pc + 1
      BY <1>0, <2>5 DEF HandlerType
    <3> QED BY <1>3, <1>7, <2>1, <2>2, <2>4, <3>1
  <2>6. CASE /\ cache' = [k \in Views |-> IF k \in Current(w).keys THEN None ELSE cache[k]]
             /\ worker' = [worker EXCEPT ![w].pc = @ + 1,
                                         ![w].sound = ~Filling(Current(w).keys)]
    <3> DEFINE b == ~Filling(Current(w).keys)
    <3>1. /\ worker'[w].msg = wk.msg /\ worker'[w].wrote = wk.wrote
          /\ worker'[w].pc = wk.pc + 1 /\ worker'[w].sound = b
      <4> HIDE DEF b
      <4>1. worker' = [worker EXCEPT ![w].pc = @ + 1, ![w].sound = b]
        BY <2>6 DEF b
      <4> QED BY <1>0, <4>1 DEF HandlerType
    <3>2. PICK p \in Parts : p = Upserted(wk.msg)
      BY UpsertedPart
    <3>3. PICK n \in Nat : n = wk.wrote
      BY <1>0 DEF HandlerType
    <3>4. b => Owed(p, n)'
      BY <1>9, <2>6, <3>2, <3>3, DeleteOwes
    <3>5. Upserted(worker[w].msg)' = p /\ worker'[w].wrote = n /\ worker'[w].pc >= 3
      BY <2>3, <3>1, <3>2, <3>3 DEF Upserted
    <3>6. n <= Version(p)'
      <4>1. n <= Version(p)
        BY <2>1, <3>2, <3>3 DEF Visible
      <4>2. Version(p) <= Version(p)' /\ Version(p) \in Nat /\ Version(p)' \in Nat
        BY <1>2
      <4> QED BY <4>1, <4>2
    <3> HIDE DEF b
    <3>7. Debt(w)'
      BY <2>1, <3>1, <3>4, <3>5, <3>6 DEF Debt, Owed, Version
    <3> QED BY <1>7, <2>1, <2>4, <3>7
  <2> QED BY <2>1, <2>5, <2>6
<1>10. ASSUME NEW w \in Workers, Return(w) PROVE Visible'
  <2> DEFINE wk == worker[w]
  <2>1. PICK p \in Parts : p = Upserted(wk.msg)
    BY UpsertedPart
  <2>2. PICK n \in Nat : n = wk.wrote
    BY <1>0 DEF HandlerType
  <2>3. /\ worker' = [worker EXCEPT ![w] = Free]
        /\ floor' = IF wk.sound /\ floor[p] < n THEN [floor EXCEPT ![p] = n] ELSE floor
    BY <1>10, <2>1, <2>2 DEF Return
  <2>4. ASSUME NEW q \in Parts PROVE Owed(q, floor[q])'
    <3>1. CASE floor'[q] = floor[q]
      BY <1>1, <3>1
    <3>2. CASE floor'[q] # floor[q]
      <4>1. q = p /\ floor'[q] = n /\ wk.sound
        BY <1>0, <2>3, <3>2
      <4>2. Owed(p, n)
        BY <2>1, <2>2, <4>1 DEF Visible
      <4>3. Owed(p, n)'
        BY <4>2, StaysOwed
      <4> QED BY <4>1, <4>3 DEF Owed
    <3> QED BY <3>1, <3>2
  <2>5. ASSUME NEW v \in Workers PROVE Debt(v)'
    <3>1. CASE v = w
      <4>1. worker'[v].msg = "none" /\ worker'[v].sound = FALSE
        BY <1>0, <2>3, <3>1 DEF Free
      <4> QED BY <1>5, <4>1
    <3>2. CASE v # w
      BY <1>0, <1>4, <2>3, <3>2
    <3> QED BY <3>1, <3>2
  <2> QED BY <2>4, <2>5 DEF Visible, Debt
<1>11. ASSUME NEW w \in Workers, NEW m \in Messages, Begin(w, m) PROVE Visible'
  <2>1. floor' = floor /\ worker' = [worker EXCEPT ![w] = [Free EXCEPT !.msg = m, !.pc = 1]]
    BY <1>11 DEF Begin
  <2>2. worker'[w].wrote = 0 /\ worker'[w].sound = FALSE
    BY <1>0, <2>1 DEF Free
  <2>3. Debt(w)'
    <3>1. PICK p \in Parts : p = Upserted(worker'[w].msg)
      BY UpsertedPart
    <3>2. Version(p)' \in Nat
      BY <1>2
    <3> QED BY <2>2, <3>1, <3>2 DEF Debt, Version, Upserted
  <2>4. \A v \in Workers : v # w => worker'[v] = worker[v]
    BY <1>0, <2>1
  <2> QED BY <1>7, <2>1, <2>3, <2>4
<1>12. CASE Tick
  BY <1>6, <1>12 DEF Tick
<1>13. ASSUME NEW r \in Readers, Fetch(r) \/ Reply(r) \/ \E k \in Keys : Hit(r, k) \/ Miss(r, k)
       PROVE  Visible'
  <2>1. worker' = worker /\ floor' = floor
    BY <1>13 DEF Fetch, Reply, Hit, Miss
  <2> QED BY <1>6, <2>1
<1>14. CASE UNCHANGED vars
  BY <1>6, <1>14 DEF vars
<1> QED BY <1>8, <1>9, <1>10, <1>11, <1>12, <1>13, <1>14 DEF Next

\* No entry shows an upsert's row as it was before, once its handler has
\* returned, unless a fill was under way when the entry was deleted.
THEOREM InvalidationHolds == Spec => []UpsertVisible
<1>1. Init => Recently /\ Visible
  <2> SUFFICES ASSUME Init PROVE Recently /\ Visible
    OBVIOUS
  <2>1. Recently
    BY DEF Init, Recently, Idle
  <2>2. \A p \in Parts : Owed(p, 0)
    BY DEF Init, Owed, Version, None, Blank, Idle
  <2> QED BY <2>1, <2>2 DEF Init, Visible, Free
<1>2. Visible => UpsertVisible
  BY DEF Visible, UpsertVisible, Owed
<1> QED BY <1>1, <1>2, TypeCorrect, StaysRecent, StaysVisible, PTL DEF Spec
=============================================================================
