------------------------------ MODULE MCIngest ------------------------------
(***************************************************************************)
(* Values for the constants of Ingest.  The runs name the packets of each  *)
(* payload; the workers are symmetric.                                     *)
(***************************************************************************)
EXTENDS IngestFeeds, TLC

CONSTANTS Adverts, Traces, Text

MCPayload == [h \in Packets |-> IF h \in Text THEN "text"
                                ELSE IF h \in Adverts THEN "advert"
                                ELSE IF h \in Traces THEN "trace" ELSE "other"]

Symmetry == Permutations(Workers)
=============================================================================
