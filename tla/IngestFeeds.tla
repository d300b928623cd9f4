---------------------------- MODULE IngestFeeds ----------------------------
(***************************************************************************)
(* The pipeline implements AtMostOnce twice: the packetObservation event   *)
(* of a packet_observations row, and the channelMessage event of a         *)
(* channel_messages row.                                                   *)
(***************************************************************************)
EXTENDS Ingest

Observed == INSTANCE AtMostOnce WITH
              Items     <- Pairs,
              accepted  <- observations,
              owed      <- {p \in Pairs : Claims(p) # {}},
              delivered <- announced

Messaged == INSTANCE AtMostOnce WITH
              Items     <- Packets,
              accepted  <- messages,
              owed      <- {h \in Packets : Tellers(h) # {}},
              delivered <- told

\* Storing an observation and announcing it is an at-most-once delivery.
ObservationFeed == Observed!Spec

\* Storing a message, live or by a backfill, and telling of it is another.
MessageFeed == Messaged!Spec
=============================================================================
