------------------------------ MODULE MCCache ------------------------------
(***************************************************************************)
(* Values for the constants of ReadCache, and a view that leaves out what  *)
(* has no influence on what can still happen or on the properties: the     *)
(* last answers, the writes of parts that no requested view shows, and the *)
(* time at which a version ended that no entry and no request holds.       *)
(***************************************************************************)
EXTENDS ReadCache, TLC

MCCategoryTtl == [observers |-> 2, nodes |-> 0]

Symmetry == Permutations(Readers) \cup Permutations(Workers)

Shown == UNION {Shows[k] : k \in Keys}

Held(p, v) == \/ \E k \in Keys : cache[k].val[p] = v
              \/ \E r \in Readers : reader[r].val[p] = v

\* The i-th write ended version i - 1.
Times(p) == [i \in DOMAIN log[p] |-> IF Held(p, i - 1) THEN log[p][i] ELSE 0]

Seen ==
  <<now, [p \in Shown |-> Times(p)], cache, reader, worker, failed, floor, handled, failures>>
=============================================================================
