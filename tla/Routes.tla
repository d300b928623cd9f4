------------------------------- MODULE Routes -------------------------------
(***************************************************************************)
(* Known routes and neighbours of one IATA: what ingest workers learn from *)
(* packets, adverts and neighbour reports, and what the reconfirm and the  *)
(* cleanup task of internal/background take away again.                    *)
(*                                                                         *)
(* Data.  A node is its public key, and its row an id of which a key gets  *)
(* a new one each time it is stored again.  A hash is a prefix of keys, of *)
(* one to four bytes; a packet's path is a sequence of hashes.  Routes are *)
(* in the order of last_reconfirmed_at.  Their count and last_seen only    *)
(* decide when DeleteOldRoutes takes them, and which rows are old, of      *)
(* routes and of nodes, is left open.                                      *)
(***************************************************************************)
EXTENDS Naturals, FiniteSets, Sequences, SequencesExt

CONSTANTS
  Keys, Workers,
  Owners,      \* Owners[h]: the keys with the prefix h
  Full,        \* Full[k]: the prefix of four bytes of k
  Types,       \* Types[k]: whether k adverts as a repeater or room (TRUE)
  Paths,       \* the paths of packets
  Vias,        \* the first hops of adverts, and observers that hear one directly
  Reports,     \* the <<observer, neighbour>> of neighbour reports
  Known,       \* the nodes there are at first
  Owned,       \* nodes with an owner: never deleted
  Batch,       \* reconfirmBatchSize
  MaxRows,     \* bound: times a key gets a row
  MaxFailures  \* bound: failed statements and restarts

Hashes == DOMAIN Owners

ASSUME RoutesAssumption ==
  /\ \A k \in Keys : Full[k] \in Hashes /\ k \in Owners[Full[k]]
  /\ \A h \in Hashes : Owners[h] \subseteq Keys
  /\ Types \in [Keys -> SUBSET BOOLEAN]
  /\ Paths \subseteq Seq(Hashes)
  /\ Vias \subseteq Hashes \cup Keys /\ Reports \subseteq Keys \X Keys
  /\ Known \subseteq Keys /\ Owned \subseteq Keys
  /\ {Batch, MaxRows} \subseteq Nat \ {0} /\ MaxFailures \in Nat

VARIABLES
  nodes,     \* the keys that have a row in nodes
  row,       \* row[k]: the number of rows k has had; with k, the id of the last
  infra,     \* infra[k]: the row's node_type is repeater or room
  listed,    \* the nodes with a row in node_short_ids
  edges,     \* node_neighbors: <<node, neighbour>>
  routes,    \* known_routes
  worker,    \* worker[w]: what it has in hand
  pass,      \* the next statement of the reconfirm task, 0 between passes
  failures   \* history: failed statements and restarts

vars == <<nodes, row, infra, listed, edges, routes, worker, pass, failures>>

node == <<nodes, row, infra, listed>>

Id(k) == [key |-> k, row |-> row[k]]
Ids   == [key : Keys, row : 1..MaxRows]

\* A row that is not deleted, and one that has its short id.
Alive(id)  == id.key \in nodes /\ id.row = row[id.key]
Listed(id) == id.key \in listed /\ id.row = row[id.key]

Hops(r) == Range(r.hops)

\* PRIMARY KEY (iata, path_key): no two of the routes lead over the same nodes.
Distinct(rs) == \A i, j \in DOMAIN rs : rs[i].hops = rs[j].hops => i = j

\* The elements of s that are not gone, in their order.
Without(s, gone) == FlattenSeq([i \in DOMAIN s |-> IF s[i] \in gone THEN <<>> ELSE <<s[i]>>])

Free == [step |-> "idle"]

\* Short ids and edges are of nodes there are, and no path key occurs twice.
TypeOK ==
  /\ nodes \subseteq Keys /\ row \in [Keys -> 0..MaxRows]
  /\ infra \in [Keys -> BOOLEAN]
  /\ listed \subseteq nodes /\ edges \subseteq nodes \X nodes
  /\ routes \in Seq([hops : Seq(Ids), hashes : Paths]) /\ Distinct(routes)
  /\ DOMAIN worker = Workers
  /\ \A w \in Workers : worker[w].step \in {"idle", "neighbor", "link", "list", "store"}
  /\ pass \in 0..3 /\ failures \in 0..MaxFailures

Init ==
  /\ nodes = Known
  /\ row = [k \in Keys |-> IF k \in Known THEN 1 ELSE 0]
  /\ infra = [k \in Keys |-> TRUE \in Types[k]]
  /\ listed = Known
  /\ edges = {} /\ routes = <<>>
  /\ worker = [w \in Workers |-> Free]
  /\ pass = 0 /\ failures = 0

Ok      == UNCHANGED failures
Failure == failures < MaxFailures /\ failures' = failures + 1

Goes(w, to) == worker' = [worker EXCEPT ![w] = to]

-----------------------------------------------------------------------------
(* Packets *)

\* Mutant: any node with the prefix, with its short id or without.
ResolveUnlisted(h) == {k \in Owners[h] \cap nodes : infra[k]}

\* ResolvePathHashes: the repeaters and rooms with the prefix.
Resolve(h) == {k \in Owners[h] \cap listed : infra[k]}

Unique(h) == Cardinality(Resolve(h)) = 1

\* The path of a packet, if each hash is of one node.
Packet(w, path) ==
  /\ worker[w].step = "idle"
  /\ Len(path) > 1 /\ \A i \in 1..Len(path) : Unique(path[i])
  /\ Goes(w, [step |-> "store", hashes |-> path,
              hops |-> [i \in 1..Len(path) |-> Id(CHOOSE k \in Resolve(path[i]) : TRUE)]])
  /\ UNCHANGED <<node, edges, routes, pass, failures>>

\* ON CONFLICT the route keeps its prefixes and its place.
Upserted(hops, hashes) ==
  IF \E r \in Range(routes) : r.hops = hops
  THEN routes ELSE Append(routes, [hops |-> hops, hashes |-> hashes])

\* UpsertKnownRoute: node_ids is no foreign key.
StoreRoute(w) ==
  /\ worker[w].step = "store"
  /\ Goes(w, Free)
  /\ \/ Ok /\ routes' = Upserted(worker[w].hops, worker[w].hashes)
     \/ Failure /\ UNCHANGED routes
  /\ UNCHANGED <<node, edges, pass>>

-----------------------------------------------------------------------------
(* Adverts and neighbour reports *)

\* UpsertNode.  Only a repeater or room goes on to its neighbour: "via" is
\* the hash of the first hop, or the observer of an advert heard directly.
Advert(w, k, isInfra, via) ==
  /\ worker[w].step = "idle"
  /\ \/ k \in nodes /\ UNCHANGED <<nodes, row>>
     \/ /\ k \notin nodes /\ row[k] < MaxRows
        /\ nodes' = nodes \cup {k}
        /\ row' = [row EXCEPT ![k] = @ + 1]
  /\ infra' = [infra EXCEPT ![k] = isInfra]
  /\ Goes(w, IF isInfra THEN [step |-> "neighbor", self |-> Id(k)', via |-> via]
                        ELSE [step |-> "list", self |-> Id(k)'])
  /\ UNCHANGED <<listed, edges, routes, pass, failures>>

\* ResolvePathHashes of the first hop, or GetNodeByPubkey of the observer;
\* without an answer, or with the node itself as the observer, no edge.
Neighbor(w) ==
  LET wk   == worker[w]
      self == wk.self
      pair == IF wk.via \in Hashes
              THEN IF Unique(wk.via)
                   THEN <<self, Id(CHOOSE k \in Resolve(wk.via) : TRUE)>> ELSE <<>>
              ELSE IF wk.via \in nodes \ {self.key}
                   THEN <<Id(wk.via), self>> ELSE <<>>
  IN
    /\ wk.step = "neighbor"
    /\ \/ Ok /\ pair # <<>> /\ Goes(w, [step |-> "link", self |-> self, pair |-> pair])
       \/ Ok /\ pair = <<>> /\ Goes(w, [step |-> "list", self |-> self])
       \/ Failure /\ Goes(w, [step |-> "list", self |-> self])
    /\ UNCHANGED <<node, edges, routes, pass>>

\* One entry of handleNeighbors, which has no short id to write; a node that
\* is deleted between the two lookups is one that Link finds gone.
Report(w, a, b) ==
  /\ worker[w].step = "idle"
  /\ a \in nodes /\ b \in nodes \ {a}
  /\ Goes(w, [step |-> "link", self |-> Id(a), pair |-> <<Id(a), Id(b)>>, last |-> TRUE])
  /\ UNCHANGED <<node, edges, routes, pass, failures>>

\* UpsertNodeNeighbor: both ids are foreign keys.
Link(w) ==
  LET wk == worker[w]
      kept == \A i \in 1..2 : Alive(wk.pair[i])
  IN
    /\ wk.step = "link"
    /\ Goes(w, IF "last" \in DOMAIN wk THEN Free ELSE [step |-> "list", self |-> wk.self])
    /\ \/ Ok /\ kept /\ edges' = edges \cup {<<wk.pair[1].key, wk.pair[2].key>>}
       \/ Ok /\ ~kept /\ UNCHANGED edges
       \/ Failure /\ UNCHANGED edges
    /\ UNCHANGED <<node, routes, pass>>

\* UpsertNodeShortID, the last statement of the advert; an error is logged.
List(w) ==
  /\ worker[w].step = "list"
  /\ Goes(w, Free)
  /\ \/ Ok /\ listed' = listed \cup {worker[w].self.key}
     \/ Failure /\ UNCHANGED listed
  /\ UNCHANGED <<nodes, row, infra, edges, routes, pass>>

-----------------------------------------------------------------------------
(* The reconfirm task: three statements, the first error ends the pass. *)

Then == pass' = (pass + 1) % 4

PassBegins == pass = 0 /\ Then /\ UNCHANGED <<node, edges, routes, worker, failures>>

\* DeleteOldRoutes.
Expire ==
  /\ pass = 1
  /\ \/ /\ Ok /\ Then
        /\ \E old \in SUBSET Range(routes) : routes' = Without(routes, old)
     \/ Failure /\ pass' = 0 /\ UNCHANGED routes
  /\ UNCHANGED <<node, edges, worker>>

Departed(r) == \E id \in Hops(r) : ~Listed(id)

\* Any node counts here, not only repeaters and rooms.
Ambiguous(r) == \E h \in Range(r.hashes) : Cardinality(Owners[h] \cap listed) > 1

\* Mutant: only departed hops count.
DeadDeparted(r) == Departed(r)

Dead(r) == Departed(r) \/ Ambiguous(r)

BatchSize == IF Len(routes) < Batch THEN Len(routes) ELSE Batch

\* The routes that have waited longest, but for the dead.
Survivors == Without(SubSeq(routes, 1, BatchSize), {r \in Range(routes) : Dead(r)})

\* Mutant: the survivors keep their place.
ReconfirmedInPlace == Survivors \o SubSeq(routes, BatchSize + 1, Len(routes))

\* The survivors are stamped.
Reconfirmed == SubSeq(routes, BatchSize + 1, Len(routes)) \o Survivors

ReconfirmRoutes ==
  /\ pass = 2
  /\ \/ Ok /\ Then /\ routes' = Reconfirmed
     \/ Failure /\ pass' = 0 /\ UNCHANGED routes
  /\ UNCHANGED <<node, edges, worker>>

\* Mutant: a neighbour without a short id is kept.
StandsUnlisted(e) == Cardinality({k \in listed : Full[k] = Full[e[2]]}) <= 1

\* A neighbour with a short id, and no other node with its prefix of four bytes.
Stands(e) == e[2] \in listed /\ Cardinality({k \in listed : Full[k] = Full[e[2]]}) <= 1

ReconfirmNeighbors ==
  /\ pass = 3
  /\ \/ Ok /\ edges' = {e \in edges : Stands(e)}
     \/ Failure /\ UNCHANGED edges
  /\ pass' = 0
  /\ UNCHANGED <<node, routes, worker>>

-----------------------------------------------------------------------------
(* The cleanup task, and the process *)

\* A worker has an advert in hand, and not a report.
Introduces(w) ==
  \/ worker[w].step \in {"neighbor", "list"}
  \/ worker[w].step = "link" /\ "last" \notin DOMAIN worker[w]

\* DeleteOldNodes: which rows are old is left open, but the node of an advert
\* in hand is not.  Short ids and edges cascade.
DeleteOldNodes ==
  /\ \E gone \in (SUBSET (nodes \ Owned)) \ {{}} :
       /\ \A w \in Workers : Introduces(w) => worker[w].self.key \notin gone
       /\ nodes' = nodes \ gone
       /\ listed' = listed \ gone
       /\ edges' = {e \in edges : e[1] \notin gone /\ e[2] \notin gone}
  /\ UNCHANGED <<row, infra, routes, worker, pass, failures>>

\* The process is killed and started again.
Restart ==
  /\ Failure
  /\ worker' = [w \in Workers |-> Free]
  /\ pass' = 0
  /\ UNCHANGED <<node, edges, routes>>

Task == PassBegins \/ Expire \/ ReconfirmRoutes \/ ReconfirmNeighbors

Handle(w) == Neighbor(w) \/ Link(w) \/ List(w) \/ StoreRoute(w)

Next ==
  \/ Task \/ DeleteOldNodes \/ Restart
  \/ \E w \in Workers :
       \/ Handle(w)
       \/ \E path \in Paths : Packet(w, path)
       \/ \E report \in Reports : Report(w, report[1], report[2])
       \/ \E k \in Keys, via \in Vias, isInfra \in BOOLEAN :
            isInfra \in Types[k] /\ Advert(w, k, isInfra, via)

Spec == Init /\ [][Next]_vars

\* The ticker goes on, and a statement ends.
FairSpec == Spec /\ WF_vars(Task) /\ \A w \in Workers : WF_vars(Handle(w))

-----------------------------------------------------------------------------
(* Properties *)

\* Each hop of a stored route, or of one a worker is about to store, is a node
\* with a short id or one that has been deleted since: a route never leads
\* over a node an advert has not finished to introduce.
HopsKnown ==
  /\ \A r \in Range(routes) : \A id \in Hops(r) : Alive(id) => Listed(id)
  /\ \A w \in Workers : worker[w].step = "store" =>
       \A id \in Hops(worker[w]) : Alive(id) => Listed(id)

\* What is in hand: a route to store is of ids there have been, and the node of
\* an advert has its row until the advert is done.
InHand ==
  \A w \in Workers :
    /\ worker[w].step = "store" =>
         worker[w].hops \in Seq(Ids) /\ worker[w].hashes \in Paths
    /\ Introduces(w) => worker[w].self.key \in nodes

\* An id is given out once: what is remembered of a node is a row it has or had.
Given ==
  /\ \A k \in nodes : row[k] > 0
  /\ \A r \in Range(routes) : \A id \in Hops(r) : id.row <= row[id.key]
  /\ \A w \in Workers : worker[w].step = "store" =>
       \A id \in Hops(worker[w]) : id.row <= row[id.key]

\* The inductive invariant.
IInv == TypeOK /\ InHand /\ Given /\ HopsKnown

\* "a deleted node's id can be left dangling in old routes there, but
\* ReconfirmTask ... will clean those up on its own schedule": once no node is
\* deleted any more no route keeps such an id, whatever traffic there is, and
\* however many routes share the batches with it.
DanglingCleanedUp == <>[](\A r \in Range(routes) : \A id \in Hops(r) : Alive(id))

\* A path that several nodes may have taken is not kept as a known route for
\* ever, though packets go on to teach it.
AmbiguousCleanedUp ==
  \A path \in Paths : []<>(\A r \in Range(routes) : r.hashes = path => ~Ambiguous(r))

\* Edges are settled again and again, though passes end at an error before
\* they come to them and reports add edges to nodes without a short id.
EdgesSettle == []<>(\A e \in edges : e[2] \in listed)
=============================================================================
