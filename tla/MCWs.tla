-------------------------------- MODULE MCWs --------------------------------
(***************************************************************************)
(* Values for the constants of WsServer: all connections share an address. *)
(***************************************************************************)
EXTENDS WsServer

MCScopeOf == [id \in SubIds |-> Kinds]
MCIpOf == [c \in Clients |-> CHOOSE ip \in Ips : TRUE]
=============================================================================
