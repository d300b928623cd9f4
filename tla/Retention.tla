----------------------------- MODULE Retention -----------------------------
(***************************************************************************)
(* Packet retention: the cleanup task of internal/background deletes the   *)
(* packets that have not been heard for Retention, while ingest workers    *)
(* store copies of them and the presence coalescer holds the updates of    *)
(* last_heard_at back in memory until a flush.                             *)
(*                                                                         *)
(* Time.  The process and the database share a clock.  A flush starts at   *)
(* most FlushGap after the one before, a cleanup pass at most CleanGap     *)
(* after the one before, and what is begun is over by then; a worker       *)
(* handles a copy within Delay.  Tick is disabled when one of these is     *)
(* due.  A time 0 stands for a row or an entry that does not exist.        *)
(*                                                                         *)
(* Data.  A packet is its hash.  A filter is a row of channel_iatas or of  *)
(* trace_iatas: its channel hash or trace tag, with its IATA.              *)
(***************************************************************************)
EXTENDS Naturals

CONSTANTS
  Hashes, Workers,
  ChannelFilters, TraceFilters,  \* the rows the packets can belong to
  Retention,    \* packet retention
  PacketTtl,    \* presence.packet_ttl
  Refresh,      \* the hour for which a filter row is not written again
  Drift,        \* the 30 minutes an observer's clock may be off
  FlushGap, CleanGap, Delay,
  MaxTime, MaxFailures  \* bounds

Filters == ChannelFilters \cup TraceFilters
NoFilter == "none"

(***************************************************************************)
(* The code does not check that the retention exceeds what the coalescer   *)
(* can hold back; the defaults (720 h against 30 s) leave room for any     *)
(* run of failures that is of interest.                                    *)
(***************************************************************************)
ASSUME RetentionAssumption ==
  /\ {Retention, PacketTtl, Refresh, Drift, FlushGap, CleanGap, Delay,
      MaxTime, MaxFailures} \subseteq Nat
  /\ NoFilter \notin Filters
  /\ Retention >= (MaxFailures + 2) * (PacketTtl + FlushGap) + Delay + Delay

VARIABLES
  now,      \* the clock
  row,      \* row[h]: packets.last_heard_at
  filter,   \* filter[f]: last_heard of the filter row
  seen,     \* packetsSeen of the coalescer
  dirty,    \* dirtyPackets
  batch,    \* the packets the running flush has taken
  flusher,  \* the coalescer's Run: where it is, and when the last flush began
  cleaner,  \* the cleanup task: when its last pass began and took the cutoff
  worker,   \* worker[w]: the copy it handles, the step, when it began
  told,     \* history: told[f], the latest time stored or offered for the row
  failures  \* history: failed statements and restarts

vars == <<now, row, filter, seen, dirty, batch, flusher, cleaner, worker, told, failures>>

memory   == <<seen, dirty, batch, flusher>>
database == <<row, filter>>

Passes == <<"telemetry", "packets", "channels", "traces", "nodes">>

Free == [step |-> "idle", hash |-> "none", filter |-> NoFilter, heard |-> 0, since |-> 0]

\* Steps and clocks have values of their kind, a worker past the first step
\* knows its packet, and only a running flush holds a batch.
TypeOK ==
  /\ now \in Nat /\ failures \in 0..MaxFailures
  /\ row \in [Hashes -> Nat] /\ seen \in [Hashes -> Nat]
  /\ dirty \in [Hashes -> Nat] /\ batch \in [Hashes -> Nat]
  /\ filter \in [Filters -> Nat] /\ told \in [Filters -> Nat]
  /\ flusher \in [busy : BOOLEAN, began : Nat]
  /\ cleaner \in [pass : 0..5, began : Nat, taken : Nat]
  /\ worker \in [Workers -> {Free} \cup
       [step : {"store", "record", "insert", "filter"}, hash : Hashes,
        filter : Filters \cup {NoFilter}, heard : Nat, since : Nat]]
  /\ \A w \in Workers : worker[w].step = "filter" =>
       worker[w].filter \in Filters /\ worker[w].heard # 0
  /\ flusher.busy \/ \A h \in Hashes : batch[h] = 0

Nowhere == [h \in Hashes |-> 0]

Init ==
  /\ now = Drift + 1
  /\ row = Nowhere
  /\ filter = [f \in Filters |-> 0]
  /\ seen = Nowhere /\ dirty = Nowhere /\ batch = Nowhere
  /\ flusher = [busy |-> FALSE, began |-> now]
  /\ cleaner = [pass |-> 0, began |-> now, taken |-> 0]
  /\ worker = [w \in Workers |-> Free]
  /\ told = [f \in Filters |-> 0]
  /\ failures = 0

Ok      == UNCHANGED failures
Failure == failures < MaxFailures /\ failures' = failures + 1

-----------------------------------------------------------------------------
(* The coalescer *)

\* Mutant: an entry does not expire.
TakeDirtyKeeping == seen

\* The entries the flush leaves: those heard within the TTL.
TakeDirty == [h \in Hashes |-> IF seen[h] + PacketTtl < now THEN 0 ELSE seen[h]]

\* Flush swaps the maps and expires the entries, under the lock.
FlushBegins ==
  /\ ~flusher.busy
  /\ flusher' = [busy |-> TRUE, began |-> now]
  /\ batch' = dirty
  /\ dirty' = Nowhere
  /\ seen' = TakeDirty
  /\ UNCHANGED <<now, database, cleaner, worker, told, failures>>

\* TouchPackets: the later time, of the rows that exist.
Touch(h) == IF row[h] # 0 /\ batch[h] > row[h] THEN batch[h] ELSE row[h]

\* The batch is written, or dropped.
FlushEnds ==
  /\ flusher.busy
  /\ flusher' = [flusher EXCEPT !.busy = FALSE]
  /\ batch' = Nowhere
  /\ \/ Ok /\ row' = [h \in Hashes |-> Touch(h)]
     \/ Failure /\ UNCHANGED row
  /\ UNCHANGED <<now, filter, seen, dirty, cleaner, worker, told>>

-----------------------------------------------------------------------------
(* A worker, from UpsertPacket to the filter row *)

\* Coalescer.UpsertPacket: a packet seen lately is only marked.
Upsert(w, h, f) ==
  /\ worker[w].step = "idle"
  /\ worker' = [worker EXCEPT ![w] =
       [step |-> IF seen[h] # 0 THEN "insert" ELSE "store",
        hash |-> h, filter |-> f, heard |-> 0, since |-> now]]
  /\ IF seen[h] # 0
     THEN seen' = [seen EXCEPT ![h] = now] /\ dirty' = [dirty EXCEPT ![h] = now]
     ELSE UNCHANGED <<seen, dirty>>
  /\ UNCHANGED <<now, database, batch, flusher, cleaner, told, failures>>

\* Store.UpsertPacket.
Store(w) ==
  /\ worker[w].step = "store"
  /\ \/ /\ Ok
        /\ row' = [row EXCEPT ![worker[w].hash] = now]
        /\ worker' = [worker EXCEPT ![w].step = "record"]
     \/ Failure /\ UNCHANGED row /\ worker' = [worker EXCEPT ![w] = Free]
  /\ UNCHANGED <<now, filter, memory, cleaner, told>>

Record(w) ==
  /\ worker[w].step = "record"
  /\ seen' = [seen EXCEPT ![worker[w].hash] = now]
  /\ worker' = [worker EXCEPT ![w].step = "insert"]
  /\ UNCHANGED <<now, database, dirty, batch, flusher, cleaner, told, failures>>

\* The observer's time is taken for heard_at if it is not more than Drift off.
Near == {t \in 1..(now + Drift) : now <= t + Drift}

\* InsertObservation needs the packet's row; a copy that is already stored
\* goes on like a new one.
Insert(w) ==
  LET wk == worker[w] IN
    /\ wk.step = "insert"
    /\ \/ /\ Ok /\ row[wk.hash] # 0 /\ wk.filter # NoFilter
          /\ \E heard \in Near :
               worker' = [worker EXCEPT ![w].step = "filter", ![w].heard = heard]
       \/ Ok /\ (row[wk.hash] = 0 \/ wk.filter = NoFilter) /\ worker' = [worker EXCEPT ![w] = Free]
       \/ Failure /\ worker' = [worker EXCEPT ![w] = Free]
    /\ UNCHANGED <<now, database, memory, cleaner, told>>

\* Mutant: a row that exists is not written again.
RefreshedNever(last, heard) == IF last = 0 THEN heard ELSE last

\* UpsertChannelIATA and UpsertTraceIATA write a row at most once per Refresh.
Refreshed(last, heard) == IF last = 0 \/ heard > last + Refresh THEN heard ELSE last

\* The filter row; an error is only logged.
Filter(w) ==
  LET wk == worker[w] IN
    /\ wk.step = "filter"
    /\ worker' = [worker EXCEPT ![w] = Free]
    /\ \/ /\ Ok
          /\ filter' = [filter EXCEPT ![wk.filter] = Refreshed(@, wk.heard)]
          /\ told' = [told EXCEPT ![wk.filter] = IF @ < wk.heard THEN wk.heard ELSE @]
       \/ Failure /\ UNCHANGED <<filter, told>>
    /\ UNCHANGED <<now, row, memory, cleaner>>

-----------------------------------------------------------------------------
(* The cleanup task *)

\* Mutant: the retention of another table.
OldTwice(last) == last # 0 /\ last + Retention + Retention < cleaner.taken

\* last_heard < cutoff.  The packets and both filters share one cutoff.
Old(last) == last # 0 /\ last + Retention < cleaner.taken

CleanBegins ==
  /\ cleaner.pass = 0
  /\ cleaner' = [pass |-> 1, began |-> now, taken |-> 0]
  /\ UNCHANGED <<now, database, memory, worker, told, failures>>

\* The next statement of the pass; the first error ends the pass.  The cutoff
\* is taken when the telemetry is done.
Clean ==
  /\ cleaner.pass # 0
  /\ \/ /\ Ok
        /\ cleaner' = [pass  |-> IF cleaner.pass = 5 THEN 0 ELSE cleaner.pass + 1,
                       began |-> cleaner.began,
                       taken |-> IF cleaner.pass = 1 THEN now ELSE cleaner.taken]
        /\ row' = [h \in Hashes |-> IF Passes[cleaner.pass] = "packets" /\ Old(row[h])
                                    THEN 0 ELSE row[h]]
        /\ filter' = [f \in Filters |->
             IF /\ \/ Passes[cleaner.pass] = "channels" /\ f \in ChannelFilters
                   \/ Passes[cleaner.pass] = "traces" /\ f \in TraceFilters
                /\ Old(filter[f])
             THEN 0 ELSE filter[f]]
     \/ Failure /\ cleaner' = [cleaner EXCEPT !.pass = 0] /\ UNCHANGED database
  /\ UNCHANGED <<now, memory, worker, told>>

-----------------------------------------------------------------------------

\* The process is killed and started again: the tables stay, what the
\* coalescer held is gone, and the tickers start afresh.
Restart ==
  /\ Failure
  /\ seen' = Nowhere /\ dirty' = Nowhere /\ batch' = Nowhere
  /\ flusher' = [busy |-> FALSE, began |-> now]
  /\ cleaner' = [pass |-> 0, began |-> now, taken |-> 0]
  /\ worker' = [w \in Workers |-> Free]
  /\ UNCHANGED <<now, database, told>>

Tick ==
  /\ now < MaxTime
  /\ now < flusher.began + FlushGap
  /\ now < cleaner.began + CleanGap
  /\ \A w \in Workers : worker[w].step # "idle" => now < worker[w].since + Delay
  /\ now' = now + 1
  /\ UNCHANGED <<database, memory, cleaner, worker, told, failures>>

Next ==
  \/ Tick \/ FlushBegins \/ FlushEnds \/ CleanBegins \/ Clean \/ Restart
  \/ \E w \in Workers :
       \/ Store(w) \/ Record(w) \/ Insert(w) \/ Filter(w)
       \/ \E h \in Hashes, f \in Filters \cup {NoFilter} : Upsert(w, h, f)

Spec == Init /\ [][Next]_vars

-----------------------------------------------------------------------------
(* Properties *)

\* When a worker comes to insert an observation, its packet's row is there:
\* a packet the coalescer answers for from memory is not one the cleanup can
\* have deleted, though flushes that would have kept it alive fail and the
\* row is not read again (packet_observations refers to packets).
NoOrphan == \A w \in Workers : worker[w].step = "insert" => row[worker[w].hash] # 0

\* A channel or a trace heard in an IATA stays in the filter of that IATA for
\* Retention, but for the hour in which the row is not written again:
\* "in step with packet retention", as far as it holds.
FilterInStep ==
  \A f \in Filters : told[f] # 0 /\ told[f] + Retention >= now + Refresh => filter[f] # 0

\* What n failures can put a deletion off by: a pass, or a pass and a ticker.
Debt(n) == (n + n) * CleanGap

\* Packets that are no longer heard are gone in time, though a pass stops at
\* its first error, a restart takes the pass under way and the interval after
\* it, and flushes go on writing rows.
GoneInTime ==
  \A h \in Hashes : row[h] # 0 => now <= row[h] + Retention + Debt(failures) + CleanGap + CleanGap
=============================================================================
