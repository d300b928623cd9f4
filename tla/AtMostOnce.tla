----------------------------- MODULE AtMostOnce -----------------------------
(***************************************************************************)
(* What the ingest pipeline promises about an event that a stored row      *)
(* gives rise to, without its workers, statements and retries: a row is    *)
(* accepted once, its event is owed only from then on, and is delivered at *)
(* most once.  It may never be: a row can be accepted without an event,    *)
(* and an event that is owed can be dropped.                               *)
(***************************************************************************)
EXTENDS Naturals

CONSTANT Items

VARIABLES
  accepted,    \* the items whose row is stored
  owed,        \* those whose event is still to be delivered
  delivered    \* delivered[x]: how often the event of x was delivered

vars == <<accepted, owed, delivered>>

Init ==
  /\ accepted = {} /\ owed = {}
  /\ delivered = [x \in Items |-> 0]

Accept(x) ==
  /\ x \notin accepted
  /\ accepted' = accepted \cup {x}
  /\ owed' \in {owed, owed \cup {x}}
  /\ UNCHANGED delivered

Deliver(x) ==
  /\ x \in owed
  /\ owed' = owed \ {x}
  /\ delivered' = [delivered EXCEPT ![x] = @ + 1]
  /\ UNCHANGED accepted

Drop ==
  /\ owed' = {}
  /\ UNCHANGED <<accepted, delivered>>

Next == Drop \/ \E x \in Items : Accept(x) \/ Deliver(x)

Spec == Init /\ [][Next]_vars
=============================================================================
