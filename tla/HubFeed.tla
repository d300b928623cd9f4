------------------------------ MODULE HubFeed ------------------------------
(***************************************************************************)
(* The broker implements LossyFeed: the feed of a client is its Send       *)
(* channel, its debt lasts from the failed send to the lagged notice.      *)
(***************************************************************************)
EXTENDS Hub

Numbered(s) == [i \in DOMAIN s |-> s[i].n]

Feed == INSTANCE LossyFeed WITH
          Consumers <- Clients,
          Numbers   <- 1..MaxEvents,
          Cap       <- SendCap,
          feed      <- [c \in Clients |-> Numbered(send[c])],
          got       <- read,
          debt      <- full \cup owed,
          notices   <- reported,
          over      <- closed

\* Every behaviour of Run, the handlers and the write pumps is, for each
\* connection, a behaviour of the lossy ordered feed.
FeedSpec == Feed!Spec
=============================================================================
