------------------------------- MODULE MCHub -------------------------------
(***************************************************************************)
(* Values for the constants of Hub.  Subscription ids are strings so that  *)
(* ScopeOf can be written down: "all" matches both kinds of event, "some"  *)
(* one of them.                                                            *)
(***************************************************************************)
EXTENDS HubFeed

MCScopeOf == [id \in SubIds |-> IF id = "all" THEN Kinds ELSE {"packet"}]
=============================================================================
