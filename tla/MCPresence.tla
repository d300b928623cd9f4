----------------------------- MODULE MCPresence -----------------------------
(***************************************************************************)
(* Values for the constants of Presence.  The workers are symmetric.       *)
(***************************************************************************)
EXTENDS Presence, TLC

Symmetry == Permutations(Workers)
=============================================================================
