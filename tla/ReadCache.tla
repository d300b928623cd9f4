------------------------------ MODULE ReadCache ------------------------------
(***************************************************************************)
(* The read-through cache of internal/cache between the API's readers, the *)
(* tables, and the ingest handlers that write the tables and invalidate.   *)
(*                                                                         *)
(* getOrSet is a Get, the statements of the wrapped reader one by one, and *)
(* a Set; a handler is the list of its statements, with the invalidation   *)
(* where the code has it.  Nothing orders these steps of different actors. *)
(*                                                                         *)
(* Data.  A part is what one statement writes; the contents of a part are  *)
(* the number of its writes; 0 stands for a part an answer does not have.  *)
(* The views that are never invalidated behave as "node" does without an   *)
(* advert, and are left out of Views.  All views are those of one          *)
(* observer, which is also the node that adverts.                          *)
(***************************************************************************)
EXTENDS Naturals, Sequences, FiniteSets

CONSTANTS
  Readers,      \* goroutines of API requests
  Workers,      \* the ingest workers, and the cleanup task
  Messages,     \* the kinds of handler run that occur
  Keys,         \* the views that are requested
  GlobalTtl,    \* cache.ttl, 0 if unset
  CategoryTtl,  \* CategoryTtl[c]: cache.ttls.c, 0 if unset
  DefaultTtl,   \* time.Hour
  Delay,        \* the ticks one request may take
  MaxTime, MaxMessages, MaxFailures  \* bounds

VARIABLES
  now,      \* the clock
  log,      \* log[p]: the times of the writes of the part p
  cache,    \* cache[k]: the entry of Redis, None if there is none
  reader,   \* reader[r]: the request's place in getOrSet
  worker,   \* worker[w]: the handler's place in its script
  answer,   \* history: answer[r], what the request was answered
  failed,   \* history: failed[p], the last time a read of p failed
  floor,    \* history: floor[k][p], the version of p that k may not be older than
  handled,  \* history: handlers begun
  failures  \* history: failures of Redis and of the database

vars == <<now, log, cache, reader, worker, answer, failed, floor, handled, failures>>

-----------------------------------------------------------------------------
(* What is read and written *)

Parts == {"observer", "status", "brokers", "scopes", "iata", "node", "heard", "edges"}

Views == {"observer", "observerScopes", "node", "neighbors"}

\* The statements of GetObserver, GetObserverScopes, GetNode and
\* GetNodeNeighbors: the parts each reads, and whether its error is logged or
\* dropped and nothing returned in its place.
Statement(parts, optional) == [parts |-> parts, optional |-> optional]

Query == [
  observer       |-> << Statement({"observer", "status"}, FALSE),
                        Statement({"brokers"}, FALSE),
                        Statement({"scopes"}, TRUE),
                        Statement({"iata"}, TRUE) >>,
  observerScopes |-> << Statement({"scopes"}, FALSE) >>,
  node           |-> << Statement({"node", "heard"}, FALSE),
                        Statement({"edges"}, TRUE) >>,
  neighbors      |-> << Statement({"edges"}, FALSE) >> ]

Shows == [k \in Views |-> UNION {Query[k][i].parts : i \in DOMAIN Query[k]}]

Category == [observer |-> "observers", observerScopes |-> "observers",
             node |-> "nodes", neighbors |-> "nodes"]

\* The TTL of a category: its own, the global one, or an hour.
Resolve(k) ==
  LET c == Category[k] IN
    IF CategoryTtl[c] # 0 THEN CategoryTtl[c] ELSE IF GlobalTtl # 0 THEN GlobalTtl ELSE DefaultTtl

\* The handlers' writes.  "upsert" is the write an invalidation is for, and
\* its failure ends the handler, as does the failure of a "must".
Upsert(p) == [op |-> "upsert", part |-> p]
Must(p)   == [op |-> "must", part |-> p]
Logged(p) == [op |-> "logged", part |-> p]
Invalidate(ks) == [op |-> "invalidate", keys |-> ks]

\* InvalidateObserver and InvalidateNode.
ObserverKeys == {"observer", "observerScopes"}
NodeKeys     == {"node", "neighbors"}

\* Mutant: the cache is invalidated before the write.
ScriptInvalidatingFirst == [
  status    |-> << Invalidate(ObserverKeys), Upsert("observer"), Logged("brokers"), Must("status") >>,
  neighbors |-> << Upsert("observer"), Logged("brokers"), Logged("status"), Logged("edges") >>,
  cleanup   |-> << Must("iata"), Must("node") >> ]

\* handleStatus; handlePacket, with the edges of a trace or a DISCOVER_RESP and
\* the capabilities of the nodes on its path; the advert's side effects, the last
\* being the default scope; handleNeighbors; the cleanup task's deletion of
\* observations and of nodes.
Script == [
  status    |-> << Upsert("observer"), Invalidate(ObserverKeys), Logged("brokers"), Must("status") >>,
  packet    |-> << Upsert("observer"), Must("brokers"), Logged("edges"), Must("iata"),
                   Logged("scopes"), Logged("node") >>,
  advert    |-> << Upsert("node"), Invalidate(NodeKeys), Logged("edges"), Logged("heard"),
                   Logged("node") >>,
  neighbors |-> << Upsert("observer"), Logged("brokers"), Logged("status"), Logged("edges") >>,
  cleanup   |-> << Must("iata"), Must("node") >> ]

\* A statement that may leave the table as it is: the coalescer answers it, it
\* finds nothing to write or to delete, or the message has nothing for it.
MayNotWrite(s) == s.part # "status" /\ s # Upsert("node")

-----------------------------------------------------------------------------

ASSUME CacheAssumption ==
  /\ Messages \subseteq DOMAIN Script
  /\ Keys \subseteq Views
  /\ CategoryTtl \in [{"observers", "nodes"} -> Nat]
  /\ GlobalTtl \in Nat /\ DefaultTtl \in Nat \ {0}
  /\ {Delay, MaxTime, MaxMessages, MaxFailures} \subseteq Nat

Version(p) == Len(log[p])

Blank   == [p \in Parts |-> 0]
None    == [val |-> Blank, expires |-> 0]
Nothing == [key |-> "none", val |-> Blank]
Idle    == [key |-> "none", step |-> 0, keep |-> FALSE, val |-> Blank, since |-> 0]
Free    == [msg |-> "none", pc |-> 0, wrote |-> 0, sound |-> FALSE]

\* Entries, requests and handlers are well formed, and an entry expires.
TypeOK ==
  /\ now \in Nat
  /\ log \in [Parts -> Seq(Nat)]
  /\ cache \in [Views -> [val : [Parts -> Nat], expires : Nat]]
  /\ \A k \in Views : cache[k] = None \/ cache[k].expires > now
  /\ reader \in [Readers -> [key : Views \cup {"none"}, step : Nat, keep : BOOLEAN,
                             val : [Parts -> Nat], since : Nat]]
  /\ worker \in [Workers -> [msg : DOMAIN Script \cup {"none"}, pc : Nat, wrote : Nat,
                             sound : BOOLEAN]]
  /\ answer \in [Readers -> [key : Views \cup {"none"}, val : [Parts -> Nat]]]
  /\ failed \in [Parts -> Nat]
  /\ floor \in [Parts -> Nat]
  /\ handled \in Nat /\ failures \in Nat

Init ==
  /\ now = 1
  /\ log = [p \in Parts |-> <<0>>]
  /\ cache = [k \in Views |-> None]
  /\ reader = [r \in Readers |-> Idle]
  /\ worker = [w \in Workers |-> Free]
  /\ answer = [r \in Readers |-> Nothing]
  /\ failed = [p \in Parts |-> 0]
  /\ floor = [p \in Parts |-> 0]
  /\ handled = 0 /\ failures = 0

Ok   == UNCHANGED failures
Failure == failures < MaxFailures /\ failures' = failures + 1

-----------------------------------------------------------------------------
(* getOrSet *)

\* Mutant: a hit renews the entry's TTL.
HitSliding(r, k) ==
  /\ reader[r] = Idle
  /\ cache[k] # None
  /\ cache' = [cache EXCEPT ![k].expires = now + Resolve(k)]
  /\ answer' = [answer EXCEPT ![r] = [key |-> k, val |-> cache[k].val]]
  /\ UNCHANGED <<now, log, reader, worker, failed, floor, handled, failures>>

\* Redis answers with an entry that can be read.
Hit(r, k) ==
  /\ reader[r] = Idle
  /\ cache[k] # None
  /\ answer' = [answer EXCEPT ![r] = [key |-> k, val |-> cache[k].val]]
  /\ UNCHANGED <<now, log, cache, reader, worker, failed, floor, handled, failures>>

\* There is no entry, or it does not unmarshal: the answer will be kept.
\* Redis fails: the answer will not be kept.
Miss(r, k) ==
  /\ reader[r] = Idle
  /\ \E keep \in BOOLEAN :
       /\ IF keep THEN (cache[k] = None /\ Ok) \/ (cache[k] # None /\ Failure) ELSE Failure
       /\ reader' = [reader EXCEPT ![r] = [key |-> k, step |-> 1, keep |-> keep,
                                           val |-> Blank, since |-> now]]
  /\ answer' = [answer EXCEPT ![r] = Nothing]
  /\ UNCHANGED <<now, log, cache, worker, failed, floor, handled>>

Read(val, parts) == [p \in Parts |-> IF p \in parts THEN Version(p) ELSE val[p]]

\* The next statement of the wrapped reader.  If it fails and is not
\* optional, the request is answered with the error and nothing is kept.
Fetch(r) ==
  LET rd == reader[r] IN
    /\ rd.key # "none"
    /\ rd.step \in DOMAIN Query[rd.key]
    /\ LET s == Query[rd.key][rd.step] IN
         \/ /\ reader' = [reader EXCEPT ![r].step = @ + 1,
                                        ![r].val = Read(@, s.parts)]
            /\ Ok /\ UNCHANGED failed
         \/ /\ Failure
            /\ IF s.optional
               THEN /\ reader' = [reader EXCEPT ![r].step = @ + 1]
                    /\ failed' = [p \in Parts |-> IF p \in s.parts THEN now ELSE failed[p]]
               ELSE reader' = [reader EXCEPT ![r] = Idle] /\ UNCHANGED failed
    /\ UNCHANGED <<now, log, cache, worker, answer, floor, handled>>

\* Set, whose error is ignored, and the answer.
Reply(r) ==
  LET rd == reader[r] IN
    /\ rd.key # "none"
    /\ rd.step \notin DOMAIN Query[rd.key]
    /\ answer' = [answer EXCEPT ![r] = [key |-> rd.key, val |-> rd.val]]
    /\ reader' = [reader EXCEPT ![r] = Idle]
    /\ \/ /\ rd.keep /\ Ok
          /\ cache' = [cache EXCEPT ![rd.key] =
                         [val |-> rd.val, expires |-> now + Resolve(rd.key)]]
       \/ rd.keep /\ Failure /\ UNCHANGED cache
       \/ ~rd.keep /\ Ok /\ UNCHANGED cache
    /\ UNCHANGED <<now, log, worker, failed, floor, handled>>

-----------------------------------------------------------------------------
(* The handlers *)

Begin(w, m) ==
  /\ worker[w] = Free
  /\ handled < MaxMessages /\ handled' = handled + 1
  /\ worker' = [worker EXCEPT ![w] = [Free EXCEPT !.msg = m, !.pc = 1]]
  /\ UNCHANGED <<now, log, cache, reader, answer, failed, floor, failures>>

Current(w) == Script[worker[w].msg][worker[w].pc]

At(w, ops) ==
  /\ worker[w].msg # "none"
  /\ worker[w].pc \in DOMAIN Script[worker[w].msg]
  /\ Current(w).op \in ops

\* A statement.  Its failure ends the handler unless it is logged only.
Store(w) ==
  /\ At(w, {"upsert", "must", "logged"})
  /\ LET s == Current(w) IN
       \/ /\ log' = [log EXCEPT ![s.part] = Append(@, now)]
          /\ worker' = [worker EXCEPT ![w].pc = @ + 1,
                                      ![w].wrote = IF s.op = "upsert" THEN Version(s.part) + 1 ELSE @]
          /\ Ok
       \/ /\ MayNotWrite(s)
          /\ worker' = [worker EXCEPT ![w].pc = @ + 1]
          /\ Ok /\ UNCHANGED log
       \/ /\ Failure
          /\ worker' = IF s.op = "logged" THEN [worker EXCEPT ![w].pc = @ + 1]
                                          ELSE [worker EXCEPT ![w] = Free]
          /\ UNCHANGED log
  /\ UNCHANGED <<now, cache, reader, answer, failed, floor, handled>>

\* A request that has read something it is going to keep under one of ks.
Filling(ks) ==
  \E r \in Readers : reader[r].key \in ks /\ reader[r].keep /\ reader[r].val # Blank

\* Del, whose error is ignored.
Delete(w) ==
  /\ At(w, {"invalidate"})
  /\ \/ /\ Ok
        /\ cache' = [k \in Views |-> IF k \in Current(w).keys THEN None ELSE cache[k]]
        /\ worker' = [worker EXCEPT ![w].pc = @ + 1, ![w].sound = ~Filling(Current(w).keys)]
     \/ /\ Failure
        /\ worker' = [worker EXCEPT ![w].pc = @ + 1]
        /\ UNCHANGED cache
  /\ UNCHANGED <<now, log, reader, answer, failed, floor, handled>>

Upserted(m) == IF m = "advert" THEN "node" ELSE "observer"

\* The handler returns.  If its invalidation reached Redis while no request
\* was filling the entries, what it upserted is owed to every later entry.
Return(w) ==
  LET wk == worker[w] p == Upserted(wk.msg) IN
    /\ wk.msg # "none"
    /\ wk.pc \notin DOMAIN Script[wk.msg]
    /\ worker' = [worker EXCEPT ![w] = Free]
    /\ floor' = IF wk.sound /\ floor[p] < wk.wrote THEN [floor EXCEPT ![p] = wk.wrote] ELSE floor
    /\ UNCHANGED <<now, log, cache, reader, answer, failed, handled, failures>>

-----------------------------------------------------------------------------

\* Time passes, and no request takes longer than Delay.
Tick ==
  /\ now < MaxTime
  /\ \A r \in Readers : reader[r] = Idle \/ now < reader[r].since + Delay
  /\ now' = now + 1
  /\ cache' = [k \in Views |-> IF cache[k].expires <= now + 1 THEN None ELSE cache[k]]
  /\ UNCHANGED <<log, reader, worker, answer, failed, floor, handled, failures>>

Next ==
  \/ Tick
  \/ \E r \in Readers : Fetch(r) \/ Reply(r) \/ \E k \in Keys : Hit(r, k) \/ Miss(r, k)
  \/ \E w \in Workers : Store(w) \/ Delete(w) \/ Return(w) \/ \E m \in Messages : Begin(w, m)

Spec == Init /\ [][Next]_vars

-----------------------------------------------------------------------------
(* Properties *)

\* An entry is not older than an upsert whose handler has returned, if the
\* invalidation reached Redis while no fill of the entry was under way: what
\* "explicitly invalidated on upsert" (README) can mean with a cache that is
\* filled and invalidated in unrelated steps.
UpsertVisible ==
  \A k \in Views, p \in Parts : cache[k].val[p] # 0 => cache[k].val[p] >= floor[p]

Stale == INSTANCE StaleRegister WITH Window <- [k \in Views |-> Resolve(k) + Delay]

\* Every answer, from Redis or not, is made of versions that were current
\* within the TTL of its category and one request's time, whatever writes,
\* invalidations, failures of Redis and concurrent fills come between.
BoundedStaleness == Stale!SSpec
==============================================================================
