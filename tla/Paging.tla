------------------------------- MODULE Paging -------------------------------
(***************************************************************************)
(* Two clients that page through tables while ingest adds to them: one     *)
(* reads the packets of some sites from the newest to the oldest           *)
(* (ListPackets with IATAs), one hears of channel messages by events and   *)
(* reads on from the last message a page brought it (ListMessagesAfterID), *)
(* for what it did not hear.                                               *)
(*                                                                         *)
(* A row's id comes from a sequence when its INSERT begins and the row is  *)
(* there when it commits, so rows can appear in another order than their   *)
(* ids.  Times are in units of which Tick make the millisecond of the      *)
(* cursor.  The conditions on packets stand inside the scan, and are left  *)
(* out; the second client asks for the messages of all sites and scopes.   *)
(***************************************************************************)
EXTENDS Naturals, FiniteSets, FiniteSetsExt

CONSTANTS
  Packets, Observers, Sites,
  Requested,   \* the sites the first client asks for
  Stored,      \* the rows there are at first
  Known,       \* the ids of the messages there are at first
  Times,       \* the values of heard_at
  Arrivals,    \* those of rows that come in
  Tick,        \* units of time in a millisecond
  Limit,       \* packets, or messages, on a page
  Factor,      \* depth of the scan for a packet of the page: 8
  MaxInserts   \* bound

Rows == [id : Nat \ {0}, packet : Packets, observer : Observers, site : Sites, heard : Times]

\* A millisecond 0 would be a cursor that is not set.
ASSUME PagingAssumption ==
  /\ Requested \subseteq Sites /\ IsFiniteSet(Requested)
  /\ Stored \subseteq Rows /\ IsFiniteSet(Stored)
  /\ \A o, u \in Stored :
       o.id = u.id \/ (o.packet = u.packet /\ o.observer = u.observer) => o = u
  /\ Known \subseteq Nat \ {0} /\ IsFiniteSet(Known)
  /\ {Tick, Limit, Factor} \subseteq Nat \ {0} /\ MaxInserts \in Nat
  /\ Arrivals \subseteq Times /\ Times \subseteq Nat /\ \A t \in Times : t >= Tick

VARIABLES
  obs,       \* packet_observations: the rows that are committed
  open,      \* rows whose INSERT is under way
  inserts,   \* rows and messages begun
  cursor,    \* the first client's cursor, 0 at first
  page,      \* "first", "next", or "end" after hasMore = false
  shown,     \* the packets it has got
  stirred,   \* history: packets heard at a requested site since its first page
  edges,     \* history: the milliseconds that were cursors
  messages,  \* channel_messages: the ids that are committed
  storing,   \* those whose INSERT is under way
  owed,      \* messages whose handler has still to send the event
  after,     \* the second client's last id
  got,       \* history: the messages it has, from a page or by an event
  lost       \* history: messages a page had passed when their event was lost

vars == <<obs, open, inserts, cursor, page, shown, stirred, edges,
          messages, storing, owed, after, got, lost>>

history == <<cursor, page, shown, edges>>
catchUp == <<messages, storing, owed, after, got, lost>>

Init ==
  /\ obs = Stored /\ open = {} /\ inserts = 0
  /\ cursor = 0 /\ page = "first" /\ shown = {} /\ stirred = {} /\ edges = {}
  /\ messages = Known /\ storing = {} /\ owed = {}
  /\ after = 0 /\ got = {} /\ lost = {}

Ids == {o.id : o \in obs \cup open}

-----------------------------------------------------------------------------
(* InsertObservation, of any worker.  Only the copy of an observation that  *)
(* is the first is a row.                                                   *)

Insert(p, ob, s, t) ==
  /\ inserts < MaxInserts
  /\ \A o \in obs \cup open : o.packet # p \/ o.observer # ob
  /\ inserts' = inserts + 1
  /\ open' = open \cup
       {[id |-> Max(Ids \cup {0}) + 1, packet |-> p, observer |-> ob, site |-> s, heard |-> t]}
  /\ UNCHANGED <<obs, history, stirred, catchUp>>

Commit(o) ==
  /\ open' = open \ {o}
  /\ obs' = obs \cup {o}
  /\ stirred' = IF page # "first" /\ o.site \in Requested THEN stirred \cup {o.packet} ELSE stirred
  /\ UNCHANGED <<inserts, history, catchUp>>

-----------------------------------------------------------------------------
(* The first client *)

Depth == (Limit + 1) * Factor

\* What the scan of a site may return: its Depth latest rows before the cursor.
Scans(s) ==
  LET rows == {o \in obs : o.site = s /\ (cursor = 0 \/ o.heard < cursor)}
  IN {T \in kSubset(IF Cardinality(rows) < Depth THEN Cardinality(rows) ELSE Depth, rows) :
        \A t \in T, o \in rows \ T : o.heard <= t.heard}

Scanned(scan) == UNION {scan[s] : s \in Requested}

\* The latest a packet was heard in a set of rows.
SiteHeard(rows, p) == Max({o.heard : o \in {o \in rows : o.packet = p}})

\* Packets not heard at or after the cursor, which were on an earlier page.
Candidates(scan) ==
  {p \in {o.packet : o \in Scanned(scan)} :
     cursor = 0 \/ ~\E o \in obs : o.packet = p /\ o.site \in Requested /\ o.heard >= cursor}

\* The first Limit of them.
Tops(scan) ==
  LET ps == Candidates(scan)
      n  == IF Cardinality(ps) < Limit THEN Cardinality(ps) ELSE Limit
  IN {T \in kSubset(n, ps) :
        \A p \in T, q \in ps \ T : SiteHeard(Scanned(scan), q) <= SiteHeard(Scanned(scan), p)}

\* scan_floor: the latest of the oldest rows of the scans that came out full.
Full(scan)  == {s \in Requested : Cardinality(scan[s]) >= Depth}
Floor(scan) == Max({Min({o.heard : o \in scan[s]}) : s \in Full(scan)})

\* Mutant: the floor of a full scan is not heeded.
LastDeep(scan, top) == Min({SiteHeard(Scanned(scan), p) : p \in top})

\* Where the page ends: at its last packet, or above it at the floor.
Last(scan, top) ==
  LET last == Min({SiteHeard(Scanned(scan), p) : p \in top})
  IN IF Full(scan) = {} THEN last ELSE Max({last, Floor(scan)})

\* Mutant: the cursor is rounded up.
MillisUp(t) == ((t \div Tick) + 1) * Tick

\* UnixMilli.
Millis(t) == (t \div Tick) * Tick

\* listPacketsByIATAs, called by a client until hasMore is false.
ListByIATAs ==
  /\ page # "end"
  /\ \E scan \in [Requested -> UNION {Scans(s) : s \in Requested}] :
       /\ \A s \in Requested : scan[s] \in Scans(s)
       /\ \E top \in Tops(scan) :
            /\ shown' = shown \cup top
            /\ IF Cardinality(Candidates(scan)) > Limit \/ (top # {} /\ Full(scan) # {})
               THEN /\ page' = "next"
                    /\ cursor' = Millis(Last(scan, top))
                    /\ edges' = edges \cup {cursor'}
               ELSE page' = "end" /\ UNCHANGED <<cursor, edges>>
  /\ UNCHANGED <<obs, open, inserts, stirred, catchUp>>

-----------------------------------------------------------------------------
(* The second client.  Each message is from a worker that runs the handler  *)
(* of its packet; the backfill at boot is over before the server listens.   *)

\* InsertChannelMessage takes the next id.
BeginMessage ==
  /\ inserts < MaxInserts
  /\ inserts' = inserts + 1
  /\ storing' = storing \cup {Max(messages \cup storing \cup {0}) + 1}
  /\ UNCHANGED <<obs, open, history, stirred, messages, owed, after, got, lost>>

\* Mutant: the message is told only if its packet could be marked.
CommitMessageMarked(m) ==
  /\ storing' = storing \ {m}
  /\ messages' = messages \cup {m}
  /\ owed' \in {owed, owed \cup {m}}
  /\ UNCHANGED <<obs, open, inserts, history, stirred, after, got, lost>>

\* The message is stored, and its handler goes on to the event whether or not
\* the packet can be marked as decrypted.
CommitMessage(m) ==
  /\ storing' = storing \ {m}
  /\ messages' = messages \cup {m}
  /\ owed' = owed \cup {m}
  /\ UNCHANGED <<obs, open, inserts, history, stirred, after, got, lost>>

\* The event reaches the client.
Tell(m) ==
  /\ owed' = owed \ {m}
  /\ got' = got \cup {m}
  /\ UNCHANGED <<obs, open, inserts, history, stirred, messages, storing, after, lost>>

\* It does not: the INSERT's answer was lost, the channel of the hub was full,
\* the client lagged or was disconnected.
Lose(m) ==
  /\ owed' = owed \ {m}
  /\ lost' = IF m <= after THEN lost \cup {m} ELSE lost
  /\ UNCHANGED <<obs, open, inserts, history, stirred, messages, storing, after, got>>

\* Mutant: as many ids as messages, though ids have gaps.
BeyondWindow == {m \in messages : m > after /\ m <= after + Limit}

Beyond == {m \in messages : m > after}

NextIds == {m \in Beyond : Cardinality({n \in Beyond : n < m}) < Limit}

\* The messages after the last one, oldest first; the client goes on from the
\* id of the last one of the page.
ListMessagesAfterID ==
  /\ NextIds # {}
  /\ got' = got \cup NextIds
  /\ after' = Max(NextIds)
  /\ UNCHANGED <<obs, open, inserts, history, stirred, messages, storing, owed, lost>>

-----------------------------------------------------------------------------

Next ==
  \/ \E p \in Packets, ob \in Observers, s \in Sites, t \in Arrivals : Insert(p, ob, s, t)
  \/ \E o \in open : Commit(o)
  \/ ListByIATAs
  \/ BeginMessage
  \/ \E m \in storing : CommitMessage(m)
  \/ \E m \in owed : Tell(m) \/ Lose(m)
  \/ ListMessagesAfterID

Spec == Init /\ [][Next]_vars

\* An INSERT ends, its handler comes to the event, and the clients ask again.
FairSpec ==
  /\ Spec
  /\ WF_vars(\E o \in open : Commit(o)) /\ WF_vars(ListByIATAs)
  /\ WF_vars(\E m \in storing : CommitMessage(m))
  /\ WF_vars(\E m \in owed : Tell(m) \/ Lose(m))
  /\ WF_vars(ListMessagesAfterID)

-----------------------------------------------------------------------------
(* Properties *)

\* Rows have different ids and are one for a packet and an observer; the
\* cursor is a millisecond.
TypeOK ==
  /\ obs \subseteq Rows /\ open \subseteq Rows
  /\ \A o, u \in obs \cup open :
       o.id = u.id \/ (o.packet = u.packet /\ o.observer = u.observer) => o = u
  /\ inserts \in 0..MaxInserts
  /\ cursor \in Nat /\ cursor = Millis(cursor) /\ edges \subseteq Nat
  /\ page \in {"first", "next", "end"}
  /\ shown \subseteq Packets /\ stirred \subseteq Packets
  /\ messages \subseteq Nat \ {0} /\ storing \subseteq Nat \ {0}
  /\ IsFiniteSet(messages) /\ IsFiniteSet(storing)
  /\ owed \subseteq messages /\ got \subseteq messages /\ lost \subseteq messages
  /\ after \in Nat

\* When a requested site last heard a packet, as far as rows show it now.
Heard(p) == {o.heard : o \in {o \in obs : o.packet = p /\ o.site \in Requested}}

\* A packet the first client cannot see, by the design of its cursor: it was
\* heard again since the first page, or in the same millisecond as a packet
\* at which a page ended.
Hidden(p) == p \in stirred \/ Millis(Max(Heard(p))) \in edges

\* Down to the cursor nothing is left out, though a packet is many rows, a
\* scan ends anywhere among them, and sites end at different depths.
NothingSkipped ==
  cursor # 0 => \A p \in Packets :
    (Heard(p) # {} /\ Max(Heard(p)) >= cursor) => (p \in shown \/ Hidden(p))

\* Each page goes further back in time, so the first client comes to an end,
\* though pages may bring nothing new.
PagingEnds == <>(page = "end")

\* "Stopping here would strand every older packet behind a hasMore=false":
\* the client is only told that there is no more when it has got all.
NothingStranded ==
  page = "end" => \A p \in Packets : Heard(p) # {} => (p \in shown \/ Hidden(p))

\* What the second client's pages have passed it has, or will be told of: a
\* page can overtake a message whose INSERT is under way, but the event of a
\* message follows its commit.  Only a message that is overtaken and whose
\* event is lost as well is gone.
Covered == \A m \in messages : m <= after => m \in got \cup owed \cup lost

\* It comes to the end of the table, and has all messages but those.
CatchesUp == <>[](\A m \in messages : m <= after /\ m \in got \cup lost)
=============================================================================
