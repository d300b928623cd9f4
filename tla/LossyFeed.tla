----------------------------- MODULE LossyFeed -----------------------------
(***************************************************************************)
(* What the broker promises a connection, without its channels, client     *)
(* map and fan-out loop: a bounded feed of numbered events that may lose   *)
(* events but never reorders or repeats one, that owes the consumer a      *)
(* notice for every overflow, and that ends for good.  A notice may be     *)
(* swallowed only when the consumer has been given one before.             *)
(***************************************************************************)
EXTENDS Naturals, Sequences

CONSTANTS
  Consumers,
  Numbers,    \* the numbers events can have: a set of naturals
  Cap         \* the capacity of a feed: a positive natural

VARIABLES
  feed,       \* feed[c]: the numbers buffered for c, oldest first
  got,        \* got[c]: the number c received last, 0 before the first
  debt,       \* the consumers that lost an event and wait for the notice
  notices,    \* notices[c]: the notices given to c
  over        \* the consumers whose feed has ended

vars == <<feed, got, debt, notices, over>>

Init ==
  /\ feed = [c \in Consumers |-> <<>>]
  /\ got = [c \in Consumers |-> 0]
  /\ debt = {}
  /\ notices = [c \in Consumers |-> 0]
  /\ over = {}

Deliver(c, n) ==
  /\ c \notin over \cup debt
  /\ Len(feed[c]) < Cap
  /\ n > got[c] /\ \A i \in 1..Len(feed[c]) : n > feed[c][i]
  /\ feed' = [feed EXCEPT ![c] = Append(@, n)]
  /\ UNCHANGED <<got, debt, notices, over>>

Lose(c) ==
  /\ c \notin over \cup debt
  /\ Len(feed[c]) = Cap
  /\ debt' = debt \cup {c}
  /\ UNCHANGED <<feed, got, notices, over>>

LoseOldest(c) ==
  /\ c \in debt
  /\ feed[c] # <<>>
  /\ feed' = [feed EXCEPT ![c] = Tail(@)]
  /\ UNCHANGED <<got, debt, notices, over>>

Tell(c) ==
  /\ c \in debt
  /\ debt' = debt \ {c}
  /\ \/ notices' = [notices EXCEPT ![c] = @ + 1]
     \/ notices[c] > 0 /\ UNCHANGED notices
  /\ UNCHANGED <<feed, got, over>>

Take(c) ==
  /\ feed[c] # <<>>
  /\ got' = [got EXCEPT ![c] = Head(feed[c])]
  /\ feed' = [feed EXCEPT ![c] = Tail(@)]
  /\ UNCHANGED <<debt, notices, over>>

End(c) ==
  /\ c \notin over \cup debt
  /\ over' = over \cup {c}
  /\ UNCHANGED <<feed, got, debt, notices>>

Next ==
  \E c \in Consumers :
    \/ Lose(c) \/ LoseOldest(c) \/ Tell(c) \/ Take(c) \/ End(c)
    \/ \E n \in Numbers : Deliver(c, n)

Spec == Init /\ [][Next]_vars
=============================================================================
