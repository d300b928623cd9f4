------------------------------ MODULE WsServer ------------------------------
(***************************************************************************)
(* The WebSocket endpoint of internal/ws composed with the broker: the     *)
(* handler goroutine of each connection, from the per-IP limiter to the    *)
(* deferred cancel, Remove and release, and its write pump, calling the    *)
(* actions of Hub.                                                         *)
(*                                                                         *)
(* A connection's handler goes through the stages                          *)
(*    away -> admitted -> accepted -> serving -> leaving -> removed -> gone *)
(* and leaves the row early when the limiter refuses it ("refused"), the   *)
(* upgrade fails (admitted -> removed) or the hello cannot be written      *)
(* (accepted -> leaving).  Its context is cancelled when it is leaving, or *)
(* by its write pump, whose failed write puts the connection in `cut`.     *)
(*                                                                         *)
(* A write that blocks is a pump or a handler that takes no step.          *)
(***************************************************************************)
EXTENDS Hub, FiniteSets

CONSTANTS
  Ips,      \* the remote addresses
  IpOf,     \* IpOf[c]: the address of the connection c
  MaxConns  \* max_connections_per_ip

ASSUME WsAssumption == IpOf \in [Clients -> Ips] /\ MaxConns \in Nat /\ IsFiniteSet(Clients)

VARIABLES
  count,  \* count[ip]: the limiter's map; 0 stands for no entry
  stage,  \* stage[c]: how far the handler of the connection has come
  pump,   \* pump[c]: the connection's write pump
  cut     \* the connections whose next Read fails: peer lost or idle for
          \* pingTimeout, or context cancelled by the write pump

connection == <<count, stage, pump, cut>>
wsVars     == <<vars, connection>>

Stages == {"away", "refused", "admitted", "accepted", "serving", "leaving", "removed", "gone"}

\* The stages in which a connection counts against its address.
Holding == {"admitted", "accepted", "serving", "leaving", "removed"}

\* The limiter counts naturals, and handlers and pumps are in known states.
WsTypeOK ==
  /\ TypeOK
  /\ count \in [Ips -> Nat]
  /\ stage \in [Clients -> Stages]
  /\ pump \in [Clients -> {"none", "running", "ended"}]
  /\ cut \subseteq Clients

WsInit ==
  /\ Init
  /\ count = [ip \in Ips |-> 0]
  /\ stage = [c \in Clients |-> "away"]
  /\ pump = [c \in Clients |-> "none"]
  /\ cut = {}

Advance(c, from, to) == stage[c] = from /\ stage' = [stage EXCEPT ![c] = to]

-----------------------------------------------------------------------------
(* The limiter *)

\* limiter.acquire, and the 429 if it says no.
Acquire(c) ==
  LET ip == IpOf[c] IN
    \/ count[ip] >= MaxConns /\ Advance(c, "away", "refused") /\ UNCHANGED count
    \/ /\ count[ip] < MaxConns
       /\ Advance(c, "away", "admitted")
       /\ count' = [count EXCEPT ![ip] = @ + 1]

\* limiter.release, the last of the deferred calls.
Release(c) ==
  LET ip == IpOf[c] IN
    /\ Advance(c, "removed", "gone")
    /\ count' = [count EXCEPT ![ip] = IF @ - 1 <= 0 THEN 0 ELSE @ - 1]

-----------------------------------------------------------------------------
(* The handler *)

\* Mutant: the release is deferred after the upgrade only.
AcceptFailsLeaking(c) == Advance(c, "admitted", "gone")

\* websocket.Accept fails: only the release is deferred yet.
AcceptFails(c) == Advance(c, "admitted", "removed")

\* The upgrade succeeds and the connection registers with the hub.
Accept(c) == Advance(c, "admitted", "accepted") /\ NewClient(c)

HelloFails(c) == Advance(c, "accepted", "leaving")

\* The hello is written and the write pump starts.
Hello(c) == Advance(c, "accepted", "serving") /\ pump' = [pump EXCEPT ![c] = "running"]

\* handleClientMessage, as far as it calls the hub; a ping or a message that
\* is ignored changes nothing.
Request(c) ==
  /\ stage[c] = "serving"
  /\ \/ \E id \in SubIds : AddScope(c, id) \/ RemoveScope(c, id)
     \/ \E on \in BOOLEAN : SetResolvePath(c, on)

\* The peer is lost, or has been silent for pingTimeout.
PeerLost(c) == stage[c] = "serving" /\ c \notin cut /\ cut' = cut \cup {c}

\* Read fails and the handler returns; cancel is the first deferred call.
ReadEnds(c) == Advance(c, "serving", "leaving")

\* h.Remove, the second.
Deregister(c) == Advance(c, "leaving", "removed") /\ Remove(c)

-----------------------------------------------------------------------------
(* The write pump *)

\* Mutant: a failed write ends the pump but does not cancel the context.
PumpWriteNoCancel(c) ==
  /\ pump[c] = "running"
  /\ ReceiveEvent(c) \/ ReceiveLagged(c)
  /\ \E failed \in BOOLEAN :
       pump' = IF failed THEN [pump EXCEPT ![c] = "ended"] ELSE pump
  /\ UNCHANGED cut

\* An event or a notice is received and written; a write that fails cancels
\* the context and ends the pump.
PumpWrite(c) ==
  /\ pump[c] = "running"
  /\ ReceiveEvent(c) \/ ReceiveLagged(c)
  /\ \/ UNCHANGED <<pump, cut>>
     \/ pump' = [pump EXCEPT ![c] = "ended"] /\ cut' = cut \cup {c}

Cancelled(c) == stage[c] \in {"leaving", "removed", "gone"}

\* Mutant: without the case for ctx.Done.
PumpEndsOnClose(c) ==
  /\ pump[c] = "running"
  /\ c \in closed /\ (send[c] = <<>> \/ lagged[c] = <<>>)
  /\ pump' = [pump EXCEPT ![c] = "ended"]

\* A closed and drained channel, or ctx.Done.
PumpEnds(c) ==
  /\ pump[c] = "running"
  /\ Cancelled(c) \/ (c \in closed /\ (send[c] = <<>> \/ lagged[c] = <<>>))
  /\ pump' = [pump EXCEPT ![c] = "ended"]

-----------------------------------------------------------------------------

Connection(c) ==
  \/ (Acquire(c) \/ Release(c)) /\ UNCHANGED <<vars, pump, cut>>
  \/ (AcceptFails(c) \/ HelloFails(c) \/ ReadEnds(c)) /\ UNCHANGED <<vars, count, pump, cut>>
  \/ Hello(c) /\ UNCHANGED <<vars, count, cut>>
  \/ (Accept(c) \/ Deregister(c)) /\ UNCHANGED <<count, pump, cut>>
  \/ Request(c) /\ UNCHANGED connection
  \/ PeerLost(c) /\ UNCHANGED <<vars, count, stage, pump>>
  \/ PumpWrite(c) /\ UNCHANGED <<count, stage>>
  \/ PumpEnds(c) /\ UNCHANGED <<vars, count, stage, cut>>

Broker ==
  /\ Run \/ \E kind \in Kinds, resolved \in BOOLEAN : Broadcast(kind, resolved)
  /\ UNCHANGED connection

WsNext == Broker \/ \E c \in Clients : Connection(c)

\* What becomes of a connection that was cut off, or whose handler has left.
TearDown(c) ==
  \/ c \in cut /\ ReadEnds(c) /\ UNCHANGED <<vars, count, pump, cut>>
  \/ Deregister(c) /\ UNCHANGED <<count, pump, cut>>
  \/ Release(c) /\ UNCHANGED <<vars, pump, cut>>

(***************************************************************************)
(* A Read on a lost, silent or cancelled connection returns, a handler     *)
(* that returns runs its deferred calls, and a pump that can end does.     *)
(* h.Remove blocks while its channel is full; a waiting sender is served   *)
(* in turn, so it is enough that Run makes room again and again (strong    *)
(* fairness).  Nothing is assumed of connections that are alive, nor of    *)
(* the publishers.                                                         *)
(***************************************************************************)
WsFairness ==
  /\ HubFairness
  /\ \A c \in Clients :
       SF_wsVars(TearDown(c)) /\ WF_wsVars(PumpEnds(c) /\ UNCHANGED <<vars, count, stage, cut>>)

WsSpec     == WsInit /\ [][WsNext]_wsVars
WsFairSpec == WsSpec /\ WsFairness

-----------------------------------------------------------------------------
(* Properties *)

Open(ip) == {c \in Clients : IpOf[c] = ip /\ stage[c] \in Holding}

\* The limiter's count of an address is the number of its connections between
\* acquire and release, on every path through the handler (upgrade refused,
\* hello lost, read error), and never more than max_connections_per_ip.
LimiterExact == \A ip \in Ips : count[ip] = Cardinality(Open(ip)) /\ count[ip] <= MaxConns

\* A connection whose handler still reads, and which nothing has cut off, has
\* a write pump: the hub closes Send only after the handler has left, and a
\* failed write takes the reader down with it.  Otherwise a client would hold
\* its slot and its subscriptions and hear nothing.
NeverDeaf ==
  \A c \in Clients : stage[c] = "serving" /\ c \notin cut => pump[c] = "running" /\ c \notin closed

\* A connection that is cut off gives its slot back and leaves no write pump
\* behind, though h.Remove has to pass through a channel that Run drains
\* between fan-outs and other connections fill.
CutOffIsReleased ==
  \A c \in Clients : c \in cut ~> stage[c] = "gone" /\ pump[c] # "running"
=============================================================================
