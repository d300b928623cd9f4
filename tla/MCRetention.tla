---------------------------- MODULE MCRetention ----------------------------
(***************************************************************************)
(* The instance of Retention that TLC checks; its constants need no        *)
(* definitions.                                                            *)
(***************************************************************************)
EXTENDS Retention
=============================================================================
