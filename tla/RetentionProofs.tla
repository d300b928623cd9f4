--------------------------- MODULE RetentionProofs ---------------------------
(***************************************************************************)
(* Proofs about packet retention, for any packets, workers, filter rows,   *)
(* times and numbers of failures that RetentionAssumption admits.          *)
(***************************************************************************)
EXTENDS Retention, TLAPS

(***************************************************************************)
(* The inductive invariant                                                 *)
(***************************************************************************)

\* The longest time between two marks of a packet in the coalescer's memory.
Hop == PacketTtl + FlushGap

\* What rows may lag behind memory after n failures, without and with a
\* flush under way.
Lag(n)  == n * Hop + Delay
Slack   == (MaxFailures + 2) * Hop + Delay

\* Nothing is later than the clock, and the deadlines hold.
Clocks ==
  /\ now > 0
  /\ flusher.began <= now /\ now <= flusher.began + FlushGap
  /\ cleaner.began <= now /\ now <= cleaner.began + CleanGap
  /\ cleaner.taken <= now /\ (cleaner.pass \in 2..5 => cleaner.began <= cleaner.taken)
  /\ \A h \in Hashes : row[h] <= now /\ seen[h] <= now /\ dirty[h] <= now /\ batch[h] <= now
  /\ \A w \in Workers : worker[w].step # "idle" =>
       worker[w].since <= now /\ now <= worker[w].since + Delay

\* What the coalescer remembers is recent, and of the present flush interval
\* if it is dirty.  Nothing it remembers is newer than both the mark and the
\* row, but for the Delay between a row's write and its record.
MemoryInv ==
  \A h \in Hashes :
    /\ seen[h] # 0 => seen[h] + PacketTtl >= flusher.began
    /\ dirty[h] # 0 /\ seen[h] # 0 => dirty[h] >= seen[h] \/ row[h] + Delay >= seen[h]

\* A packet the coalescer remembers has a row, and how old it can be: a flush
\* that fails costs one Hop, and so does one that is under way.
LagInv ==
  \A h \in Hashes : seen[h] # 0 =>
    /\ row[h] # 0
    /\ dirty[h] = 0 /\ batch[h] = 0 => row[h] + Lag(failures) >= seen[h]
    /\ dirty[h] # 0 /\ batch[h] = 0 => row[h] + Lag(failures) + PacketTtl >= flusher.began
    /\ dirty[h] = 0 /\ batch[h] # 0 =>
         /\ row[h] + Lag(failures) + Hop >= seen[h]
         /\ batch[h] >= seen[h] \/ row[h] + Delay >= seen[h]
    /\ dirty[h] # 0 /\ batch[h] # 0 =>
         /\ row[h] + Lag(failures) + Hop + PacketTtl >= flusher.began
         /\ batch[h] + PacketTtl >= flusher.began \/ row[h] + Delay + PacketTtl >= flusher.began

\* The row of a packet a worker is about to refer to is young enough to
\* outlive the worker's Delay.
HandlerInv ==
  \A w \in Workers :
    LET r == row[worker[w].hash] IN
      /\ worker[w].step = "record" => r # 0 /\ r >= worker[w].since
      /\ worker[w].step = "insert" => r # 0 /\ r + Slack >= worker[w].since

\* A filter row that cannot be old is at most Refresh behind what was offered.
FilterInv ==
  \A f \in Filters : told[f] # 0 /\ told[f] + Retention >= now + Refresh =>
    filter[f] # 0 /\ filter[f] + Refresh >= told[f]

\* What the last pass that got to the packets has left.
CleanInv ==
  \A h \in Hashes : row[h] # 0 =>
    row[h] + Retention + Debt(failures) +
      (IF cleaner.pass \in 1..2 THEN CleanGap ELSE 0) >= cleaner.began

Parts == Clocks /\ MemoryInv /\ LagInv /\ HandlerInv /\ FilterInv /\ CleanInv

(***************************************************************************)
(* Arithmetic                                                              *)
(***************************************************************************)

\* The constants are times.
LEMMA Times ==
  /\ Retention \in Nat /\ PacketTtl \in Nat /\ Refresh \in Nat /\ Drift \in Nat
  /\ FlushGap \in Nat /\ CleanGap \in Nat /\ Delay \in Nat /\ MaxTime \in Nat /\ MaxFailures \in Nat
BY RetentionAssumption DEF RetentionAssumption

\* One failure adds a Hop to the lag; the retention covers the worst of it.
LEMMA LagFacts ==
  ASSUME NEW n \in 0..MaxFailures
  PROVE  /\ Hop \in Nat /\ Hop = PacketTtl + FlushGap
         /\ Lag(n) \in Nat /\ Lag(n) >= Delay
         /\ Lag(n + 1) = Lag(n) + Hop
         /\ Slack \in Nat /\ Lag(n) + Hop + Hop <= Slack /\ Slack + Delay <= Retention
<1>1. Hop \in Nat /\ Hop = PacketTtl + FlushGap
  BY Times DEF Hop
<1> DEFINE P(a, k) == a * k
<1>2. \A k, a \in Nat : P(a, k) \in Nat /\ P(a + 1, k) = P(a, k) + k
  OBVIOUS
<1>3. \A k, a, b \in Nat : a <= b => P(a, k) <= P(b, k)
  OBVIOUS
<1>4. P(n, Hop) \in Nat /\ P(n + 1, Hop) = P(n, Hop) + Hop /\ P(n, Hop) <= P(MaxFailures, Hop)
  BY <1>1, <1>2, <1>3, Times
<1>5. P(MaxFailures + 2, Hop) = P(MaxFailures, Hop) + Hop + Hop /\ P(MaxFailures, Hop) \in Nat
  <2>1. P(MaxFailures + 1, Hop) = P(MaxFailures, Hop) + Hop /\ P(MaxFailures, Hop) \in Nat
    BY <1>1, <1>2, Times
  <2>2. P((MaxFailures + 1) + 1, Hop) = P(MaxFailures + 1, Hop) + Hop
    BY <1>1, <1>2, Times
  <2>3. (MaxFailures + 1) + 1 = MaxFailures + 2
    BY Times
  <2> QED BY <2>1, <2>2, <2>3
<1>6. Lag(n) = P(n, Hop) + Delay /\ Lag(n + 1) = P(n + 1, Hop) + Delay
      /\ Slack = P(MaxFailures + 2, Hop) + Delay
  BY DEF Lag, Slack
<1>7. Retention >= P(MaxFailures + 2, Hop) + Delay + Delay
  BY RetentionAssumption DEF RetentionAssumption, Hop
<1> HIDE DEF P
<1> QED BY <1>1, <1>4, <1>5, <1>6, <1>7, Times

\* One failure adds two gaps to what the cleanup owes.
LEMMA DebtFacts ==
  ASSUME NEW n \in 0..MaxFailures
  PROVE  Debt(n) \in Nat /\ Debt(n + 1) = Debt(n) + CleanGap + CleanGap
<1>1. n \in Nat /\ CleanGap \in Nat
  BY Times
<1>2. \A k, a \in Nat : (a + a) * k \in Nat /\ ((a + 1) + (a + 1)) * k = (a + a) * k + k + k
  OBVIOUS
<1> QED BY <1>1, <1>2 DEF Debt

\* Counting a failure keeps the count in range.
LEMMA Counted ==
  ASSUME TypeOK, Ok \/ Failure
  PROVE  /\ failures' \in 0..MaxFailures
         /\ failures' = failures \/ failures' = failures + 1
         /\ Failure => failures' = failures + 1
BY Times DEF TypeOK, Ok, Failure

\* What a statement of the cleanup does to its place in the pass.
LEMMA CleanerMoves ==
  ASSUME TypeOK, Clean
  PROVE  /\ now' = now
         /\ \/ /\ Ok /\ cleaner.pass \in 1..5
               /\ cleaner'.pass = IF cleaner.pass = 5 THEN 0 ELSE cleaner.pass + 1
               /\ cleaner'.began = cleaner.began
               /\ cleaner'.taken = IF cleaner.pass = 1 THEN now ELSE cleaner.taken
            \/ /\ Failure /\ cleaner'.pass = 0
               /\ UNCHANGED <<cleaner.began, cleaner.taken>>
         /\ cleaner' \in [pass : 0..5, began : Nat, taken : Nat]
<1>1. /\ cleaner \in [pass : 0..5, began : Nat, taken : Nat] /\ cleaner.pass # 0
      /\ now' = now /\ now \in Nat
  BY DEF TypeOK, Clean
<1>2. \/ /\ Ok
         /\ cleaner' = [pass  |-> IF cleaner.pass = 5 THEN 0 ELSE cleaner.pass + 1,
                        began |-> cleaner.began,
                        taken |-> IF cleaner.pass = 1 THEN now ELSE cleaner.taken]
      \/ Failure /\ cleaner' = [cleaner EXCEPT !.pass = 0]
  BY DEF Clean
<1> QED BY ONLY <1>1, <1>2

(***************************************************************************)
(* Type correctness                                                        *)
(***************************************************************************)

\* The variables start with values of their types.
LEMMA InitTypeOK == Init => TypeOK
BY Times DEF Init, TypeOK, Nowhere, Free

\* Every step keeps them.
LEMMA NextTypeOK == TypeOK /\ [Next]_vars => TypeOK'
<1> SUFFICES ASSUME TypeOK, [Next]_vars PROVE TypeOK'
  OBVIOUS
<1> USE Times
<1>1. CASE Tick
  BY <1>1 DEF Tick, TypeOK, database, memory
<1>2. CASE FlushBegins
  BY <1>2 DEF FlushBegins, TypeOK, TakeDirty, Nowhere, database
<1>3. CASE FlushEnds
  BY <1>3, Counted DEF FlushEnds, TypeOK, Touch, Nowhere
<1>4. CASE CleanBegins
  <2>1. cleaner' \in [pass : 0..5, began : Nat, taken : Nat]
    BY <1>4 DEF CleanBegins, TypeOK
  <2> QED BY <1>4, <2>1 DEF CleanBegins, TypeOK, database, memory
<1>5. CASE Clean
  <2>1. cleaner' \in [pass : 0..5, began : Nat, taken : Nat]
    BY <1>5, CleanerMoves
  <2>2. failures' \in 0..MaxFailures
    BY <1>5, Counted DEF Clean
  <2>3. row' \in [Hashes -> Nat] /\ filter' \in [Filters -> Nat]
    BY <1>5 DEF Clean, TypeOK, database
  <2> QED BY <1>5, <2>1, <2>2, <2>3 DEF Clean, TypeOK, memory
<1>6. CASE Restart
  <2>1. Nowhere \in [Hashes -> Nat] /\ \A h \in Hashes : Nowhere[h] = 0
    BY DEF Nowhere
  <2>2. [w \in Workers |-> Free] \in [Workers -> {Free}] /\ Free.step = "idle"
    BY DEF Free
  <2>3. failures' \in 0..MaxFailures /\ now \in Nat
    BY <1>6, Counted DEF Restart, TypeOK
  <2> HIDE DEF Nowhere, Free
  <2> QED BY <1>6, <2>1, <2>2, <2>3 DEF Restart, TypeOK, database
<1>7. ASSUME NEW w \in Workers, NEW h \in Hashes, NEW f \in Filters \cup {NoFilter}, Upsert(w, h, f)
      PROVE  TypeOK'
  BY <1>7 DEF Upsert, TypeOK, database
<1>8. ASSUME NEW w \in Workers, Store(w) PROVE TypeOK'
  BY <1>8, Counted DEF Store, TypeOK, memory, Free
<1>9. ASSUME NEW w \in Workers, Record(w) PROVE TypeOK'
  BY <1>9 DEF Record, TypeOK, database, Free
<1>10. ASSUME NEW w \in Workers, Insert(w) PROVE TypeOK'
  BY <1>10, Counted DEF Insert, Near, TypeOK, database, memory, Free
<1>11. ASSUME NEW w \in Workers, Filter(w) PROVE TypeOK'
  BY <1>11, Counted DEF Filter, TypeOK, Refreshed, memory, Free
<1>12. CASE UNCHANGED vars
  BY <1>12 DEF TypeOK, vars
<1> QED BY <1>1, <1>2, <1>3, <1>4, <1>5, <1>6, <1>7, <1>8, <1>9, <1>10, <1>11, <1>12 DEF Next

\* The variables have their types in every state.
THEOREM TypeCorrect == Spec => []TypeOK
BY InitTypeOK, NextTypeOK, PTL DEF Spec

(***************************************************************************)
(* The clock and the deadlines                                             *)
(***************************************************************************)

\* What the steps do to the clocks of the flusher and the cleaner.
LEMMA ClockMoves ==
  ASSUME TypeOK, Clocks, [Next]_vars
  PROVE  /\ now' \in Nat /\ now' >= now /\ now' > 0
         /\ flusher'.began <= now' /\ now' <= flusher'.began + FlushGap
         /\ cleaner'.began <= now' /\ now' <= cleaner'.began + CleanGap
         /\ cleaner'.taken <= now' /\ (cleaner'.pass \in 2..5 => cleaner'.began <= cleaner'.taken)
         /\ flusher.began \in Nat /\ flusher'.began \in Nat
         /\ cleaner.began \in Nat /\ cleaner'.began \in Nat
<1> USE Times DEF Clocks, TypeOK
<1>1. CASE Tick
  BY <1>1 DEF Tick, memory
<1>2. CASE FlushBegins
  BY <1>2 DEF FlushBegins
<1>3. CASE FlushEnds
  BY <1>3 DEF FlushEnds
<1>4. CASE CleanBegins
  BY <1>4 DEF CleanBegins, memory
<1>5. CASE Clean
  <2>1. UNCHANGED <<now, flusher>>
    BY <1>5 DEF Clean, memory
  <2> QED BY <1>5, <2>1, CleanerMoves
<1>6. CASE Restart
  BY <1>6 DEF Restart
<1>7. ASSUME NEW w \in Workers,
             \/ Store(w) \/ Record(w) \/ Insert(w) \/ Filter(w)
             \/ \E h \in Hashes, f \in Filters \cup {NoFilter} : Upsert(w, h, f)
      PROVE  UNCHANGED <<now, flusher, cleaner>>
  BY <1>7 DEF Upsert, Store, Record, Insert, Filter, memory
<1>8. CASE UNCHANGED <<now, flusher, cleaner>>
  BY <1>8
<1>9. UNCHANGED vars => UNCHANGED <<now, flusher, cleaner>>
  BY DEF vars
<1> QED BY <1>1, <1>2, <1>3, <1>4, <1>5, <1>6, <1>7, <1>8, <1>9 DEF Next

\* A worker's step begins at the current time or goes on from one that did.
LEMMA WorkerMoves ==
  ASSUME TypeOK, [Next]_vars, NEW v \in Workers, worker'[v].step # "idle"
  PROVE  \/ worker'[v].since = now /\ now' = now
         \/ /\ worker[v].step # "idle" /\ worker'[v].since = worker[v].since
            /\ now' = now \/ (now < worker[v].since + Delay /\ now' = now + 1)
<1>1. CASE Tick
  BY <1>1 DEF Tick, TypeOK
<1>2. CASE UNCHANGED <<now, worker>>
  BY <1>2
<1>7. FlushBegins \/ FlushEnds \/ CleanBegins \/ Clean \/ UNCHANGED vars => UNCHANGED <<now, worker>>
  BY DEF vars, FlushBegins, FlushEnds, CleanBegins, Clean
<1>3. CASE Restart
  BY <1>3 DEF Restart, Free
<1>4. ASSUME NEW w \in Workers, NEW h \in Hashes, NEW f \in Filters \cup {NoFilter},
             Upsert(w, h, f)
      PROVE  now' = now /\ (worker'[v].since = now \/ worker'[v] = worker[v])
  BY <1>4 DEF Upsert, TypeOK
<1>5. ASSUME NEW w \in Workers, Store(w) \/ Record(w) \/ Insert(w) \/ Filter(w)
      PROVE  /\ worker[v].step # "idle" /\ worker'[v].since = worker[v].since
             /\ now' = now
  BY <1>5 DEF Store, Record, Insert, Filter, Free, TypeOK
<1> QED BY <1>1, <1>2, <1>3, <1>4, <1>5, <1>7 DEF Next

\* What the steps do to a row: it is written with the time, by a worker that
\* is to record it; touched with a batch's time; or deleted if it is old.
LEMMA RowMoves ==
  ASSUME TypeOK, [Next]_vars, NEW h \in Hashes
  PROVE  \/ row'[h] = row[h]
         \/ row'[h] = now /\ now' = now /\ UNCHANGED <<memory, cleaner>>
         \/ FlushEnds /\ row[h] # 0 /\ row'[h] = batch[h] /\ batch[h] > row[h]
         \/ Clean /\ row'[h] = 0 /\ Old(row[h])
<1> USE DEF TypeOK
<1>1. CASE FlushEnds
  BY <1>1 DEF FlushEnds, Touch
<1>2. CASE Clean
  BY <1>2 DEF Clean, database
<1>3. CASE Tick \/ FlushBegins \/ CleanBegins \/ Restart \/ UNCHANGED vars
  BY <1>3 DEF Tick, FlushBegins, CleanBegins, Restart, database, vars
<1>4. ASSUME NEW w \in Workers, Store(w)
      PROVE  row'[h] = row[h] \/ (row'[h] = now /\ now' = now /\ UNCHANGED <<memory, cleaner>>)
  BY <1>4 DEF Store
<1>5. ASSUME NEW w \in Workers,
             \/ Record(w) \/ Insert(w) \/ Filter(w)
             \/ \E g \in Hashes, f \in Filters \cup {NoFilter} : Upsert(w, g, f)
      PROVE  row' = row
  BY <1>5 DEF Upsert, Record, Insert, Filter, database
<1> QED BY <1>1, <1>2, <1>3, <1>4, <1>5 DEF Next

\* What the steps do to the coalescer's memory of a packet.
LEMMA MemoryMoves ==
  ASSUME TypeOK, Clocks, [Next]_vars, NEW h \in Hashes
  PROVE  \/ UNCHANGED <<seen[h], dirty[h], batch[h], flusher.began>>
         \/ /\ FlushBegins /\ UNCHANGED row /\ ~flusher.busy /\ flusher'.began = now
            /\ batch'[h] = dirty[h] /\ dirty'[h] = 0
            /\ seen'[h] = 0 \/ (seen'[h] = seen[h] /\ seen[h] + PacketTtl >= now)
         \/ /\ FlushEnds /\ batch'[h] = 0 /\ UNCHANGED <<seen[h], dirty[h], flusher.began>>
            /\ \/ Ok /\ row'[h] = Touch(h)
               \/ Failure /\ row'[h] = row[h]
         \/ seen'[h] = 0 /\ dirty'[h] = 0 /\ batch'[h] = 0 /\ row' = row
         \/ /\ seen[h] # 0 /\ seen'[h] = now /\ dirty'[h] = now
            /\ UNCHANGED <<row, batch[h], flusher, failures>>
         \/ /\ \E w \in Workers : worker[w].step = "record" /\ worker[w].hash = h
            /\ seen'[h] = now /\ UNCHANGED <<row, dirty[h], batch[h], flusher, failures>>
<1> USE Times DEF TypeOK
<1>1. CASE FlushBegins
  <2>1. seen'[h] = 0 \/ (seen'[h] = seen[h] /\ seen[h] + PacketTtl >= now)
    <3>1. seen[h] \in Nat /\ now \in Nat /\ seen' = TakeDirty
      BY <1>1 DEF FlushBegins
    <3>2. seen'[h] = IF seen[h] + PacketTtl < now THEN 0 ELSE seen[h]
      BY ONLY <3>1, h \in Hashes DEF TakeDirty
    <3> QED BY ONLY <3>1, <3>2, Times
  <2> QED BY <1>1, <2>1 DEF FlushBegins, Nowhere, database
<1>2. CASE FlushEnds
  BY <1>2 DEF FlushEnds, Nowhere
<1>3. CASE Tick \/ CleanBegins \/ Clean \/ UNCHANGED vars
  BY <1>3 DEF Tick, CleanBegins, Clean, memory, vars
<1>4. CASE Restart
  BY <1>4 DEF Restart, Nowhere, database
<1>5. ASSUME NEW w \in Workers, NEW g \in Hashes, NEW f \in Filters \cup {NoFilter},
             Upsert(w, g, f)
      PROVE  \/ UNCHANGED <<seen[h], dirty[h], batch[h], flusher.began>>
             \/ /\ seen[h] # 0 /\ seen'[h] = now /\ dirty'[h] = now
                /\ UNCHANGED <<row, batch[h], flusher, failures>>
  BY <1>5 DEF Upsert, database
<1>6. ASSUME NEW w \in Workers, Record(w)
      PROVE  \/ UNCHANGED <<seen[h], dirty[h], batch[h], flusher.began>>
             \/ /\ worker[w].step = "record" /\ worker[w].hash = h
                /\ seen'[h] = now /\ UNCHANGED <<row, dirty[h], batch[h], flusher, failures>>
  BY <1>6 DEF Record, database
<1>7. ASSUME NEW w \in Workers, Store(w) \/ Insert(w) \/ Filter(w)
      PROVE  UNCHANGED <<seen[h], dirty[h], batch[h], flusher.began>>
  BY <1>7 DEF Store, Insert, Filter, memory
<1> QED BY <1>1, <1>2, <1>3, <1>4, <1>5, <1>6, <1>7 DEF Next

\* Nothing gets ahead of the clock, and no deadline is missed.
LEMMA NextClocks == TypeOK /\ Clocks /\ [Next]_vars => Clocks'
<1> SUFFICES ASSUME TypeOK, Clocks, [Next]_vars PROVE Clocks'
  OBVIOUS
<1>1. ASSUME NEW h \in Hashes
      PROVE  row'[h] <= now' /\ seen'[h] <= now' /\ dirty'[h] <= now' /\ batch'[h] <= now'
  <2>1. row[h] <= now /\ seen[h] <= now /\ dirty[h] <= now /\ batch[h] <= now
        /\ row[h] \in Nat /\ seen[h] \in Nat /\ dirty[h] \in Nat /\ batch[h] \in Nat /\ now \in Nat
    BY DEF Clocks, TypeOK
  <2>2. row'[h] <= now'
    BY <2>1, ClockMoves, RowMoves
  <2>3. seen'[h] <= now' /\ dirty'[h] <= now' /\ batch'[h] <= now'
    BY <2>1, ClockMoves, MemoryMoves
  <2> QED BY <2>2, <2>3
<1>2. ASSUME NEW w \in Workers, worker'[w].step # "idle"
      PROVE  worker'[w].since <= now' /\ now' <= worker'[w].since + Delay
  <2>1. \/ worker'[w].since = now /\ now' = now
        \/ /\ worker[w].step # "idle" /\ worker'[w].since = worker[w].since
           /\ now' = now \/ (now < worker[w].since + Delay /\ now' = now + 1)
    BY <1>2, WorkerMoves
  <2>2. now \in Nat /\ (worker[w].step # "idle" => worker[w].since \in Nat)
    BY DEF TypeOK, Free
  <2>3. worker[w].step # "idle" => worker[w].since <= now /\ now <= worker[w].since + Delay
    BY DEF Clocks
  <2> QED BY ONLY <2>1, <2>2, <2>3, Times
<1> QED BY <1>1, <1>2, ClockMoves DEF Clocks

(***************************************************************************)
(* What the coalescer remembers has a row                                  *)
(***************************************************************************)

\* The times of a packet are numbers.
LEMMA PacketTyped ==
  ASSUME TypeOK, NEW h \in Hashes
  PROVE  /\ row[h] \in Nat /\ seen[h] \in Nat /\ dirty[h] \in Nat /\ batch[h] \in Nat
         /\ now \in Nat /\ flusher.began \in Nat /\ cleaner.taken \in Nat
         /\ failures \in 0..MaxFailures
BY DEF TypeOK

\* Failures only add up, and a flush that fails adds a Hop to the lag.
LEMMA LagMoves ==
  ASSUME TypeOK, TypeOK', [Next]_vars
  PROVE  /\ failures' = failures \/ failures' = failures + 1
         /\ Lag(failures) \in Nat /\ Lag(failures') \in Nat /\ Lag(failures) >= Delay
         /\ Lag(failures') >= Lag(failures)
         /\ Failure => Lag(failures') = Lag(failures) + Hop
         /\ Hop \in Nat /\ Hop = PacketTtl + FlushGap
<1>1. failures \in 0..MaxFailures
  BY DEF TypeOK
<1>2. failures' = failures \/ failures' = failures + 1
  BY <1>1 DEF Next, vars, Tick, FlushBegins, FlushEnds, CleanBegins, Clean, Restart, Upsert, Store,
     Record, Insert, Filter, Ok, Failure
<1>3. Failure => failures' = failures + 1
  BY DEF Failure
<1>4. /\ Lag(failures) \in Nat /\ Lag(failures) >= Delay
      /\ Lag(failures + 1) = Lag(failures) + Hop
      /\ Hop \in Nat /\ Hop = PacketTtl + FlushGap
  BY <1>1, LagFacts
<1> QED BY <1>2, <1>3, <1>4, Times

\* A remembered packet's row lags behind the clock by less than the retention.
LEMMA Remembered ==
  ASSUME TypeOK, Clocks, MemoryInv, LagInv, NEW h \in Hashes, seen[h] # 0
  PROVE  row[h] # 0 /\ row[h] + Slack >= now /\ ~Old(row[h])
<1> DEFINE L == Lag(failures)
<1>1. /\ Hop \in Nat /\ Hop = PacketTtl + FlushGap
      /\ L \in Nat /\ Slack \in Nat /\ L + Hop + Hop <= Slack /\ Slack + Delay <= Retention
      /\ L >= Delay
  BY PacketTyped, LagFacts
<1>2. /\ row[h] \in Nat /\ seen[h] \in Nat /\ dirty[h] \in Nat /\ batch[h] \in Nat
      /\ now \in Nat /\ flusher.began \in Nat /\ cleaner.taken \in Nat
  BY PacketTyped
<1>3. now <= flusher.began + FlushGap /\ cleaner.taken <= now
  BY DEF Clocks
<1>4. seen[h] + PacketTtl >= flusher.began
  BY DEF MemoryInv
<1>5. /\ row[h] # 0
      /\ dirty[h] = 0 /\ batch[h] = 0 => row[h] + L >= seen[h]
      /\ dirty[h] # 0 /\ batch[h] = 0 => row[h] + L + PacketTtl >= flusher.began
      /\ dirty[h] = 0 /\ batch[h] # 0 => row[h] + L + Hop >= seen[h]
      /\ dirty[h] # 0 /\ batch[h] # 0 => row[h] + L + Hop + PacketTtl >= flusher.began
  BY DEF LagInv
<1> HIDE DEF L
<1>6. row[h] + Slack >= now
  BY ONLY <1>1, <1>2, <1>3, <1>4, <1>5, Times
<1>7. ~Old(row[h])
  BY ONLY <1>1, <1>2, <1>3, <1>6, Times DEF Old
<1> QED BY <1>5, <1>6, <1>7

\* The row of a packet that is not forgotten is not deleted.
LEMMA RowKept ==
  ASSUME TypeOK, Clocks, MemoryInv, LagInv, [Next]_vars, NEW h \in Hashes, seen[h] # 0
  PROVE  \/ row'[h] = row[h]
         \/ row'[h] = now /\ UNCHANGED memory
         \/ FlushEnds /\ row'[h] = batch[h] /\ batch[h] > row[h]
BY RowMoves, Remembered

\* A row that has just been written is as new as its record.
LEMMA Recorded ==
  ASSUME TypeOK, Clocks, HandlerInv, NEW w \in Workers, worker[w].step = "record"
  PROVE  LET h == worker[w].hash IN h \in Hashes /\ row[h] # 0 /\ row[h] + Delay >= now
<1> DEFINE h == worker[w].hash
<1>1. h \in Hashes /\ worker[w].since \in Nat
  BY DEF TypeOK, Free
<1>2. row[h] # 0 /\ row[h] >= worker[w].since
  BY DEF HandlerInv
<1>3. now <= worker[w].since + Delay
  BY DEF Clocks
<1>4. row[h] \in Nat /\ now \in Nat
  BY <1>1, PacketTyped
<1> HIDE DEF h
<1>5. row[h] + Delay >= now
  BY ONLY <1>1, <1>2, <1>3, <1>4, Times
<1> QED BY <1>1, <1>2, <1>5 DEF h

\* What the coalescer remembers stays recent.
LEMMA NextMemory ==
  ASSUME TypeOK, TypeOK', Clocks, MemoryInv, LagInv, HandlerInv, [Next]_vars
  PROVE  MemoryInv'
<1> SUFFICES ASSUME NEW h \in Hashes, seen'[h] # 0
             PROVE  /\ seen'[h] + PacketTtl >= flusher'.began
                    /\ dirty'[h] # 0 => dirty'[h] >= seen'[h] \/ row'[h] + Delay >= seen'[h]
  BY DEF MemoryInv
<1>1. /\ row[h] \in Nat /\ seen[h] \in Nat /\ dirty[h] \in Nat /\ batch[h] \in Nat
      /\ row'[h] \in Nat /\ seen'[h] \in Nat /\ dirty'[h] \in Nat
      /\ now \in Nat /\ flusher.began \in Nat /\ flusher'.began \in Nat
  BY PacketTyped DEF TypeOK
<1>2. /\ seen[h] # 0 => seen[h] + PacketTtl >= flusher.began
      /\ seen[h] # 0 /\ dirty[h] # 0 => dirty[h] >= seen[h] \/ row[h] + Delay >= seen[h]
  BY DEF MemoryInv
<1>3. seen[h] <= now /\ flusher.began <= now
  BY DEF Clocks
<1>4. seen[h] # 0 => \/ row'[h] >= row[h]
                     \/ row'[h] = now
  BY <1>1, RowKept
<1>5. CASE UNCHANGED <<seen[h], dirty[h], batch[h], flusher.began>>
  BY <1>1, <1>2, <1>3, <1>4, <1>5, Times
<1>6. CASE FlushBegins /\ flusher'.began = now /\ dirty'[h] = 0
           /\ seen'[h] = seen[h] /\ seen[h] + PacketTtl >= now
  BY <1>1, <1>6, Times
<1>7. CASE UNCHANGED <<seen[h], dirty[h], flusher.began>>
  BY <1>1, <1>2, <1>3, <1>4, <1>7, Times
<1>8. CASE seen'[h] = now /\ dirty'[h] = now /\ UNCHANGED flusher
  BY <1>1, <1>3, <1>8, Times
<1>9. ASSUME NEW w \in Workers, worker[w].step = "record", worker[w].hash = h,
             seen'[h] = now, UNCHANGED <<row, flusher>>
      PROVE  seen'[h] + PacketTtl >= flusher'.began /\ row'[h] + Delay >= seen'[h]
  <2>1. row[h] + Delay >= now
    BY <1>9, Recorded
  <2> QED BY <2>1, <1>1, <1>3, <1>9, Times
<1> QED BY <1>5, <1>6, <1>7, <1>8, <1>9, MemoryMoves

\* The lag of a row, as LagInv has it, in numbers: r is the row, s the mark,
\* d and b the dirty mark and the batch, g the start of the flush, l the lag.
LagOf(r, s, d, b, g, l) ==
  /\ r # 0
  /\ d = 0 /\ b = 0 => r + l >= s
  /\ d # 0 /\ b = 0 => r + l + PacketTtl >= g
  /\ d = 0 /\ b # 0 => r + l + Hop >= s /\ (b >= s \/ r + Delay >= s)
  /\ d # 0 /\ b # 0 => /\ r + l + Hop + PacketTtl >= g
                       /\ b + PacketTtl >= g \/ r + Delay + PacketTtl >= g

\* A younger row or a longer lag keeps it.
LEMMA LagKept ==
  ASSUME NEW r \in Nat, NEW q \in Nat, NEW s \in Nat, NEW d \in Nat, NEW b \in Nat, NEW g \in Nat,
         NEW l \in Nat, NEW m \in Nat, Hop \in Nat, LagOf(r, s, d, b, g, l), q >= r, m >= l
  PROVE  LagOf(q, s, d, b, g, m)
BY Times DEF LagOf

\* A row of the present time has none.
LEMMA LagNone ==
  ASSUME NEW r \in Nat, NEW s \in Nat, NEW d \in Nat, NEW b \in Nat, NEW g \in Nat,
         NEW l \in Nat, Hop \in Nat, r # 0, l >= Delay,
         s + PacketTtl >= g, r + Delay >= s
  PROVE  LagOf(r, s, d, b, g, l)
BY Times DEF LagOf

\* A flush begins: the dirty mark becomes the batch.
LEMMA LagBegins ==
  ASSUME NEW r \in Nat, NEW s \in Nat, NEW d \in Nat, NEW g \in Nat, NEW now1 \in Nat, NEW l \in Nat,
         NEW m \in Nat, Hop \in Nat, Hop = PacketTtl + FlushGap, LagOf(r, s, d, 0, g, l),
         s <= now1, now1 <= g + FlushGap, d # 0 => d >= s \/ r + Delay >= s, m >= l
  PROVE  LagOf(r, s, 0, d, now1, m)
BY Times DEF LagOf

\* A flush writes its batch.
LEMMA LagWritten ==
  ASSUME NEW r \in Nat, NEW q \in Nat, NEW s \in Nat, NEW d \in Nat, NEW b \in Nat, NEW g \in Nat,
         NEW l \in Nat, Hop \in Nat, LagOf(r, s, d, b, g, l), l >= Delay,
         s + PacketTtl >= g, q >= r, q >= b
  PROVE  LagOf(q, s, d, 0, g, l)
BY Times DEF LagOf

\* A flush drops its batch, and the lag grows by a Hop.
LEMMA LagDropped ==
  ASSUME NEW r \in Nat, NEW s \in Nat, NEW d \in Nat, NEW b \in Nat, NEW g \in Nat,
         NEW l \in Nat, NEW m \in Nat, Hop \in Nat, LagOf(r, s, d, b, g, l), l >= Delay,
         s + PacketTtl >= g, m = l + Hop
  PROVE  LagOf(r, s, d, 0, g, m)
BY Times DEF LagOf

\* A packet is marked again.
LEMMA LagMarked ==
  ASSUME NEW r \in Nat, NEW s \in Nat, NEW d \in Nat, NEW b \in Nat, NEW g \in Nat, NEW l \in Nat,
         NEW now1 \in Nat, now1 # 0, Hop \in Nat, LagOf(r, s, d, b, g, l), s + PacketTtl >= g
  PROVE  LagOf(r, now1, now1, b, g, l)
BY Times DEF LagOf

\* LagInv speaks of LagOf.
LEMMA LagInvOf ==
  /\ LagInv <=> \A h \in Hashes : seen[h] # 0 =>
       LagOf(row[h], seen[h], dirty[h], batch[h], flusher.began, Lag(failures))
  /\ LagInv' <=> \A h \in Hashes : seen'[h] # 0 =>
       LagOf(row'[h], seen'[h], dirty'[h], batch'[h], flusher'.began, Lag(failures'))
BY DEF LagInv, LagOf, Lag

\* A remembered packet keeps a row, and its lag within bounds.
LEMMA NextLag ==
  ASSUME TypeOK, TypeOK', Clocks, MemoryInv, LagInv, HandlerInv, [Next]_vars
  PROVE  LagInv'
<1> DEFINE L == Lag(failures)
           M == Lag(failures')
<1> SUFFICES ASSUME NEW h \in Hashes, seen'[h] # 0
             PROVE  LagOf(row'[h], seen'[h], dirty'[h], batch'[h], flusher'.began, M)
  BY LagInvOf
<1>1. /\ row[h] \in Nat /\ seen[h] \in Nat /\ dirty[h] \in Nat /\ batch[h] \in Nat
      /\ row'[h] \in Nat /\ seen'[h] \in Nat /\ dirty'[h] \in Nat /\ batch'[h] \in Nat
      /\ now \in Nat /\ flusher.began \in Nat /\ flusher'.began \in Nat
  BY PacketTyped DEF TypeOK
<1>2. /\ L \in Nat /\ M \in Nat /\ L >= Delay /\ M >= Delay /\ M >= L
      /\ Failure => M = L + Hop
      /\ Hop \in Nat /\ Hop = PacketTtl + FlushGap
  BY LagMoves, Times
<1>3. /\ seen[h] # 0 => seen[h] + PacketTtl >= flusher.began
      /\ seen[h] # 0 /\ dirty[h] # 0 => dirty[h] >= seen[h] \/ row[h] + Delay >= seen[h]
  BY DEF MemoryInv
<1>4. seen[h] <= now /\ flusher.began <= now /\ now <= flusher.began + FlushGap /\ now # 0
  BY DEF Clocks
<1>5. seen[h] # 0 => LagOf(row[h], seen[h], dirty[h], batch[h], flusher.began, L)
  BY LagInvOf
<1>6. failures' = failures => M = L
  OBVIOUS
<1> HIDE DEF L, M
<1>7. CASE UNCHANGED <<seen[h], dirty[h], batch[h], flusher.began>>
  <2>1. row'[h] = row[h] \/ row'[h] = now \/ (row'[h] = batch[h] /\ batch[h] > row[h])
    BY <1>7, RowKept
  <2>2. CASE row'[h] >= row[h]
    BY <2>2, <1>1, <1>2, <1>5, <1>7, LagKept
  <2>3. CASE row'[h] = now
    <3>1. row'[h] + Delay >= seen[h]
      BY <2>3, <1>1, <1>4, Times
    <3> QED BY <2>3, <3>1, <1>1, <1>2, <1>3, <1>4, <1>7, LagNone
  <2> QED BY <2>1, <2>2, <2>3, <1>1
<1>8. CASE /\ FlushBegins /\ UNCHANGED row /\ ~flusher.busy /\ flusher'.began = now
           /\ batch'[h] = dirty[h] /\ dirty'[h] = 0
           /\ seen'[h] = seen[h]
  <2>1. batch[h] = 0
    BY <1>8 DEF TypeOK
  <2>2. LagOf(row[h], seen[h], 0, dirty[h], now, M)
    BY <2>1, <1>1, <1>2, <1>3, <1>4, <1>5, <1>8, LagBegins
  <2> QED BY <2>2, <1>8
<1>9. CASE /\ FlushEnds /\ batch'[h] = 0 /\ UNCHANGED <<seen[h], dirty[h], flusher.began>>
           /\ \/ Ok /\ row'[h] = Touch(h)
              \/ Failure /\ row'[h] = row[h]
  <2>1. row[h] # 0
    BY <1>5, <1>9 DEF LagOf
  <2>2. \/ M = L /\ row'[h] >= row[h] /\ row'[h] >= batch[h]
        \/ M = L + Hop /\ row'[h] = row[h]
    BY <2>1, <1>1, <1>2, <1>6, <1>9 DEF Touch, Ok
  <2>3. LagOf(row[h], seen[h], dirty[h], batch[h], flusher.began, L)
        /\ seen[h] + PacketTtl >= flusher.began
    BY <1>3, <1>5, <1>9
  <2>4. LagOf(row'[h], seen[h], dirty[h], 0, flusher.began, M)
    <3>1. CASE M = L /\ row'[h] >= row[h] /\ row'[h] >= batch[h]
      BY <3>1, <2>3, <1>1, <1>2, LagWritten
    <3>2. CASE M = L + Hop /\ row'[h] = row[h]
      BY <3>2, <2>3, <1>1, <1>2, LagDropped
    <3> QED BY <2>2, <3>1, <3>2
  <2> QED BY <2>4, <1>9
<1>10. CASE /\ seen[h] # 0 /\ seen'[h] = now /\ dirty'[h] = now
            /\ UNCHANGED <<row, batch[h], flusher, failures>>
  <2>1. LagOf(row[h], seen[h], dirty[h], batch[h], flusher.began, L)
        /\ seen[h] + PacketTtl >= flusher.began
    BY <1>3, <1>5, <1>10
  <2>2. LagOf(row[h], now, now, batch[h], flusher.began, L)
    BY <2>1, <1>1, <1>2, <1>4, LagMarked
  <2> QED BY <2>2, <1>6, <1>10
<1>11. ASSUME NEW w \in Workers, worker[w].step = "record", worker[w].hash = h,
              seen'[h] = now, UNCHANGED <<row, dirty[h], batch[h], flusher, failures>>
       PROVE  LagOf(row'[h], seen'[h], dirty'[h], batch'[h], flusher'.began, M)
  <2>1. row[h] # 0 /\ row[h] + Delay >= now
    BY <1>11, Recorded
  <2>2. now + PacketTtl >= flusher.began
    BY <1>1, <1>4, Times
  <2> QED BY <2>1, <2>2, <1>1, <1>2, <1>11, LagNone
<1> QED BY <1>7, <1>8, <1>9, <1>10, <1>11, MemoryMoves

(***************************************************************************)
(* The workers' packets have rows                                          *)
(***************************************************************************)

\* A worker comes to "record" from the write of its row, and to "insert" from
\* its record or from a mark in the coalescer's memory.
LEMMA StepMoves ==
  ASSUME TypeOK, [Next]_vars, NEW w \in Workers
  PROVE  LET h == worker[w].hash IN
         /\ worker'[w].step = "record" =>
              \/ worker[w].step = "record" /\ UNCHANGED worker[w]
              \/ /\ worker[w].step = "store" /\ worker'[w].hash = h /\ row'[h] = now
                 /\ worker'[w].since = worker[w].since /\ now' = now
         /\ worker'[w].step = "insert" =>
              \/ worker[w].step = "insert" /\ UNCHANGED worker[w]
              \/ /\ worker[w].step = "record" /\ worker'[w].hash = h /\ UNCHANGED row
                 /\ worker'[w].since = worker[w].since
              \/ /\ worker'[w].hash \in Hashes /\ seen[worker'[w].hash] # 0 /\ UNCHANGED row
                 /\ worker'[w].since = now
<1> USE DEF TypeOK
<1>1. CASE UNCHANGED worker
  BY <1>1
<1>2. CASE Restart
  BY <1>2 DEF Restart, Free
<1>3. ASSUME NEW v \in Workers, v # w,
             \/ Store(v) \/ Record(v) \/ Insert(v) \/ Filter(v)
             \/ \E g \in Hashes, f \in Filters \cup {NoFilter} : Upsert(v, g, f)
      PROVE  UNCHANGED worker[w]
  BY <1>3 DEF Store, Record, Insert, Filter, Upsert
<1>4. ASSUME NEW g \in Hashes, NEW f \in Filters \cup {NoFilter}, Upsert(w, g, f)
      PROVE  /\ worker'[w].step # "record"
             /\ worker'[w].step = "insert" =>
                  /\ worker'[w].hash = g /\ seen[g] # 0 /\ UNCHANGED row
                  /\ worker'[w].since = now
  BY <1>4 DEF Upsert, database
<1>5. CASE Store(w)
  BY <1>5 DEF Store, Free
<1>6. CASE Record(w)
  BY <1>6 DEF Record, database, Free
<1>7. CASE Insert(w)
  BY <1>7 DEF Insert, Free
<1>8. CASE Filter(w)
  BY <1>8 DEF Filter, Free
<1>9. Tick \/ FlushBegins \/ FlushEnds \/ CleanBegins \/ Clean \/ UNCHANGED vars => UNCHANGED worker
  BY DEF Tick, FlushBegins, FlushEnds, CleanBegins, Clean, vars
<1> HIDE DEF TypeOK
<1> QED BY <1>1, <1>2, <1>3, <1>4, <1>5, <1>6, <1>7, <1>8, <1>9 DEF Next

\* The row of a packet that a worker has written or found in memory stays
\* until the worker's Delay is over.
LEMMA NextHandler ==
  ASSUME TypeOK, TypeOK', Clocks, MemoryInv, LagInv, HandlerInv, [Next]_vars
  PROVE  HandlerInv'
<1> SUFFICES ASSUME NEW w \in Workers
             PROVE  LET r == row'[worker'[w].hash] IN
               /\ worker'[w].step = "record" => r # 0 /\ r >= worker'[w].since
               /\ worker'[w].step = "insert" => r # 0 /\ r + Slack >= worker'[w].since
  BY DEF HandlerInv
<1> DEFINE h == worker[w].hash
<1>1. /\ now \in Nat /\ now > 0 /\ cleaner.taken \in Nat /\ cleaner.taken <= now
      /\ Slack \in Nat /\ Slack + Delay <= Retention
  BY PacketTyped, LagFacts DEF Clocks, TypeOK
<1>2. worker[w].step # "idle" =>
        /\ h \in Hashes /\ worker[w].since \in Nat
        /\ worker[w].since <= now /\ now <= worker[w].since + Delay
  BY DEF TypeOK, Clocks, Free
<1>3. \A g \in Hashes : /\ row[g] \in Nat /\ row[g] <= now /\ row'[g] \in Nat
                        /\ batch[g] \in Nat
  BY PacketTyped DEF TypeOK, Clocks
<1>4. ASSUME worker[w].step # "idle", row[h] # 0, row[h] + Slack >= worker[w].since
      PROVE  row'[h] # 0 /\ row'[h] >= row[h]
  <2>1. ~Old(row[h])
    BY <1>1, <1>2, <1>3, <1>4, Times DEF Old
  <2>2. row'[h] = row[h] \/ row'[h] = now \/ (row'[h] = batch[h] /\ batch[h] > row[h])
    BY <2>1, <1>2, <1>4, RowMoves
  <2> QED BY <2>2, <1>1, <1>2, <1>3, <1>4
<1>5. ASSUME worker[w].step = "record"
      PROVE  row[h] # 0 /\ row[h] >= worker[w].since /\ row[h] + Slack >= worker[w].since
  BY <1>1, <1>2, <1>3, <1>5 DEF HandlerInv
<1>6. ASSUME worker[w].step = "insert"
      PROVE  row[h] # 0 /\ row[h] + Slack >= worker[w].since
  BY <1>6 DEF HandlerInv
<1>7. ASSUME NEW g \in Hashes, seen[g] # 0
      PROVE  row[g] # 0 /\ row[g] + Slack >= now
  BY <1>7, Remembered
<1>8. ASSUME worker'[w].step = "record"
      PROVE  row'[worker'[w].hash] # 0 /\ row'[worker'[w].hash] >= worker'[w].since
  <2>1. CASE worker[w].step = "record" /\ UNCHANGED worker[w]
    BY <2>1, <1>2, <1>3, <1>4, <1>5
  <2>2. CASE /\ worker[w].step = "store" /\ worker'[w].hash = h /\ row'[h] = now
             /\ worker'[w].since = worker[w].since /\ now' = now
    BY <2>2, <1>1, <1>2
  <2> QED BY <2>1, <2>2, <1>8, StepMoves
<1>9. ASSUME worker'[w].step = "insert"
      PROVE  row'[worker'[w].hash] # 0 /\ row'[worker'[w].hash] + Slack >= worker'[w].since
  <2>1. CASE worker[w].step = "insert" /\ UNCHANGED worker[w]
    BY <2>1, <1>1, <1>2, <1>3, <1>4, <1>6
  <2>2. CASE /\ worker[w].step = "record" /\ worker'[w].hash = h /\ UNCHANGED row
             /\ worker'[w].since = worker[w].since
    BY <2>2, <1>5
  <2>3. CASE /\ worker'[w].hash \in Hashes /\ seen[worker'[w].hash] # 0 /\ UNCHANGED row
             /\ worker'[w].since = now
    BY <2>3, <1>7
  <2> QED BY <2>1, <2>2, <2>3, <1>9, StepMoves
<1> QED BY <1>8, <1>9

(***************************************************************************)
(* The filters and the cleanup                                             *)
(***************************************************************************)

\* What the steps do to a filter row.
LEMMA FilterMoves ==
  ASSUME TypeOK, [Next]_vars, NEW f \in Filters
  PROVE  \/ UNCHANGED <<filter[f], told[f]>>
         \/ filter'[f] = 0 /\ Old(filter[f]) /\ UNCHANGED told[f]
         \/ \E heard \in Nat : /\ heard # 0
                               /\ filter'[f] = Refreshed(filter[f], heard)
                               /\ told'[f] = IF told[f] < heard THEN heard ELSE told[f]
<1> USE DEF TypeOK
<1>1. CASE Clean
  BY <1>1 DEF Clean, database
<1>2. Tick \/ FlushBegins \/ FlushEnds \/ CleanBegins \/ Restart \/ UNCHANGED vars
        => UNCHANGED <<filter, told>>
  BY DEF Tick, FlushBegins, FlushEnds, CleanBegins, Restart, database, vars
<1>3. ASSUME NEW w \in Workers,
             \/ Store(w) \/ Record(w) \/ Insert(w)
             \/ \E g \in Hashes, e \in Filters \cup {NoFilter} : Upsert(w, g, e)
      PROVE  UNCHANGED <<filter, told>>
  BY <1>3 DEF Store, Record, Insert, Upsert, database
<1>4. ASSUME NEW w \in Workers, Filter(w)
      PROVE  \/ UNCHANGED <<filter[f], told[f]>>
             \/ /\ worker[w].heard \in Nat /\ worker[w].heard # 0
                /\ filter'[f] = Refreshed(filter[f], worker[w].heard)
                /\ told'[f] = IF told[f] < worker[w].heard THEN worker[w].heard ELSE told[f]
  BY <1>4 DEF Filter, Free
<1> HIDE DEF TypeOK
<1> QED BY <1>1, <1>2, <1>3, <1>4 DEF Next

\* A filter row keeps up with what it was offered.
LEMMA NextFilter == TypeOK /\ TypeOK' /\ Clocks /\ FilterInv /\ [Next]_vars => FilterInv'
<1> SUFFICES ASSUME TypeOK, TypeOK', Clocks, FilterInv, [Next]_vars, NEW f \in Filters,
                    told'[f] # 0, told'[f] + Retention >= now' + Refresh
             PROVE  filter'[f] # 0 /\ filter'[f] + Refresh >= told'[f]
  BY DEF FilterInv
<1>1. /\ filter[f] \in Nat /\ told[f] \in Nat /\ filter'[f] \in Nat /\ told'[f] \in Nat
      /\ now \in Nat /\ cleaner.taken \in Nat /\ cleaner.taken <= now
  BY DEF TypeOK, Clocks
<1>2. now' \in Nat /\ now' >= now
  BY ClockMoves
<1>3. told[f] # 0 /\ told[f] + Retention >= now + Refresh =>
        filter[f] # 0 /\ filter[f] + Refresh >= told[f]
  BY DEF FilterInv
<1>4. CASE UNCHANGED <<filter[f], told[f]>>
  BY <1>1, <1>2, <1>3, <1>4, Times
<1>5. CASE filter'[f] = 0 /\ Old(filter[f]) /\ UNCHANGED told[f]
  BY <1>1, <1>2, <1>3, <1>5, Times DEF Old
<1>6. ASSUME NEW heard \in Nat, heard # 0, filter'[f] = Refreshed(filter[f], heard),
             told'[f] = IF told[f] < heard THEN heard ELSE told[f]
      PROVE  filter'[f] # 0 /\ filter'[f] + Refresh >= told'[f]
  BY <1>1, <1>2, <1>3, <1>6, Times DEF Refreshed
<1> QED BY <1>4, <1>5, <1>6, FilterMoves

\* What a pass leaves to do once it has passed the packets.
Pending(pass) == IF pass \in 1..2 THEN CleanGap ELSE 0

\* What the steps do to the cleanup task.
LEMMA CleanMoves ==
  ASSUME TypeOK, Clocks, [Next]_vars, NEW h \in Hashes
  PROVE  LET pass == cleaner.pass began == cleaner.began IN
         \/ UNCHANGED cleaner
         \/ UNCHANGED row /\ pass = 0 /\ cleaner'.pass = 1 /\ cleaner'.began = now
         \/ Ok /\ pass # 2 /\ cleaner'.began = began /\ Pending(cleaner'.pass) = Pending(pass)
            /\ row'[h] = row[h]
         \/ Ok /\ pass = 2 /\ cleaner'.pass = 3 /\ cleaner'.began = began
            /\ row'[h] = (IF Old(row[h]) THEN 0 ELSE row[h])
         \/ Failure /\ UNCHANGED row /\ cleaner'.pass = 0 /\ cleaner'.began = began
         \/ Failure /\ UNCHANGED row /\ cleaner'.pass = 0 /\ cleaner'.began = now
<1> USE DEF TypeOK
<1>1. CASE Clean
  <2>1. CASE Failure
    <3>1. ~Ok
      BY <2>1 DEF Ok, Failure
    <3> QED BY <1>1, <2>1, <3>1 DEF Clean, database
  <2>2. CASE Ok /\ cleaner.pass = 2
    <3>1. Passes[2] = "packets"
      BY DEF Passes
    <3>2. cleaner'.pass = 3 /\ cleaner'.began = cleaner.began
      BY <1>1, <2>2, CleanerMoves DEF Failure, Ok
    <3>3. row' = [g \in Hashes |-> IF Passes[cleaner.pass] = "packets" /\ Old(row[g])
                                  THEN 0 ELSE row[g]]
      BY <1>1, <2>2 DEF Clean, Failure, Ok
    <3>4. row'[h] = (IF Old(row[h]) THEN 0 ELSE row[h])
      BY <2>2, <3>1, <3>3
    <3> QED BY <2>2, <3>2, <3>4
  <2>3. CASE Ok /\ cleaner.pass # 2
    <3>1. \A i \in 1..5 : i # 2 => Passes[i] # "packets"
      BY DEF Passes
    <3>2. /\ cleaner.pass \in 1..5
          /\ cleaner'.pass = IF cleaner.pass = 5 THEN 0 ELSE cleaner.pass + 1
          /\ cleaner'.began = cleaner.began
          /\ row' = [g \in Hashes |-> IF Passes[cleaner.pass] = "packets" /\ Old(row[g])
                                      THEN 0 ELSE row[g]]
      BY <1>1, <2>3, CleanerMoves DEF Clean, Failure, Ok
    <3>3. row'[h] = row[h]
      BY <3>1, <3>2, <2>3
    <3>4. cleaner'.began = cleaner.began /\ Pending(cleaner'.pass) = Pending(cleaner.pass)
      BY <3>2, <2>3 DEF Pending
    <3> QED BY <2>3, <3>3, <3>4
  <2> QED BY <1>1, <2>1, <2>2, <2>3 DEF Clean
<1>2. CASE CleanBegins
  BY <1>2 DEF CleanBegins, database
<1>3. CASE Restart
  BY <1>3 DEF Restart, database
<1>4. Tick \/ FlushBegins \/ FlushEnds \/ UNCHANGED vars => UNCHANGED cleaner
  BY DEF Tick, FlushBegins, FlushEnds, vars
<1>5. ASSUME NEW w \in Workers,
             \/ Store(w) \/ Record(w) \/ Insert(w) \/ Filter(w)
             \/ \E g \in Hashes, e \in Filters \cup {NoFilter} : Upsert(w, g, e)
      PROVE  UNCHANGED cleaner
  BY <1>5 DEF Store, Record, Insert, Filter, Upsert
<1> HIDE DEF TypeOK
<1> QED BY <1>1, <1>2, <1>3, <1>4, <1>5 DEF Next

\* CleanInv with Pending.
LEMMA CleanInvOf ==
  /\ CleanInv <=> \A h \in Hashes : row[h] # 0 =>
       row[h] + Retention + Debt(failures) + Pending(cleaner.pass) >= cleaner.began
  /\ CleanInv' <=> \A h \in Hashes : row'[h] # 0 =>
       row'[h] + Retention + Debt(failures') + Pending(cleaner'.pass) >= cleaner'.began
BY DEF CleanInv, Pending, Debt

\* The rows that are left are not older than the passes so far allow.
LEMMA NextClean == TypeOK /\ TypeOK' /\ Clocks /\ CleanInv /\ [Next]_vars => CleanInv'
<1> DEFINE D == Debt(failures)
           E == Debt(failures')
           P == Pending(cleaner.pass)
           Q == Pending(cleaner'.pass)
<1> SUFFICES ASSUME TypeOK, TypeOK', Clocks, CleanInv, [Next]_vars, NEW h \in Hashes, row'[h] # 0
             PROVE  row'[h] + Retention + E + Q >= cleaner'.began
  BY CleanInvOf
<1>1. /\ row[h] \in Nat /\ row'[h] \in Nat /\ batch[h] \in Nat /\ now \in Nat
      /\ cleaner.began \in Nat /\ cleaner'.began \in Nat /\ cleaner.taken \in Nat
      /\ cleaner.began <= now /\ now <= cleaner.began + CleanGap
      /\ cleaner.pass = 2 => cleaner.began <= cleaner.taken
  BY DEF TypeOK, Clocks
<1>2. /\ D \in Nat /\ E \in Nat /\ E >= D
      /\ Ok => E = D
      /\ Failure => E = D + CleanGap + CleanGap
  <2>1. failures \in 0..MaxFailures /\ (failures' = failures \/ failures' = failures + 1)
    BY LagMoves DEF TypeOK
  <2>2. D \in Nat /\ Debt(failures + 1) = D + CleanGap + CleanGap
    BY <2>1, DebtFacts
  <2> QED BY <2>1, <2>2, Times DEF Ok, Failure
<1>3. /\ P \in Nat /\ Q \in Nat /\ P <= CleanGap
      /\ cleaner.pass = 0 => P = 0
      /\ cleaner.pass = 2 => P = CleanGap
      /\ cleaner'.pass = 1 => Q = CleanGap
      /\ cleaner'.pass \in {0, 3} => Q = 0
  BY Times DEF Pending, TypeOK
<1>4. row[h] # 0 => row[h] + Retention + D + P >= cleaner.began
  BY CleanInvOf
<1>5. UNCHANGED cleaner => P = Q
  OBVIOUS
<1> HIDE DEF D, E, P, Q
<1>6. CASE UNCHANGED cleaner
  <2>1. \/ row'[h] = now \/ (row[h] # 0 /\ row'[h] >= row[h])
    <3>1. Clean /\ UNCHANGED cleaner => row'[h] = row[h]
      BY DEF Clean, TypeOK, database
    <3> QED BY <1>1, <1>6, <3>1, RowMoves
  <2> QED BY <2>1, <1>1, <1>2, <1>3, <1>4, <1>5, <1>6, Times
<1>7. CASE UNCHANGED row /\ cleaner.pass = 0 /\ cleaner'.pass = 1 /\ cleaner'.began = now
  BY <1>7, <1>1, <1>2, <1>3, <1>4, Times
<1>8. CASE /\ Ok /\ cleaner.pass # 2 /\ cleaner'.began = cleaner.began
           /\ Q = P /\ row'[h] = row[h]
  BY <1>8, <1>1, <1>2, <1>3, <1>4, Times
<1>9. CASE /\ cleaner.pass = 2 /\ cleaner'.pass = 3 /\ cleaner'.began = cleaner.began
           /\ row'[h] = (IF Old(row[h]) THEN 0 ELSE row[h])
  BY <1>9, <1>1, <1>2, <1>3, Times DEF Old
<1>10. CASE Failure /\ UNCHANGED row /\ cleaner'.pass = 0 /\ cleaner'.began = cleaner.began
  BY <1>10, <1>1, <1>2, <1>3, <1>4, Times
<1>11. CASE Failure /\ UNCHANGED row /\ cleaner'.pass = 0 /\ cleaner'.began = now
  BY <1>11, <1>1, <1>2, <1>3, <1>4, Times
<1> QED BY <1>6, <1>7, <1>8, <1>9, <1>10, <1>11, CleanMoves DEF P, Q

(***************************************************************************)
(* The theorems                                                            *)
(***************************************************************************)

\* The invariant holds of empty tables and an empty memory.
LEMMA InitParts == Init => Parts
<1> SUFFICES ASSUME Init PROVE Parts
  OBVIOUS
<1>1. Clocks
  BY Times DEF Init, Clocks, Nowhere, Free
<1>2. MemoryInv /\ LagInv
  BY DEF Init, MemoryInv, LagInv, Nowhere
<1>3. HandlerInv /\ FilterInv
  BY DEF Init, HandlerInv, FilterInv, Free
<1>4. CleanInv
  BY DEF Init, CleanInv, Nowhere
<1> QED BY <1>1, <1>2, <1>3, <1>4 DEF Parts

\* Every step keeps it.
LEMMA NextParts == TypeOK /\ TypeOK' /\ Parts /\ [Next]_vars => Parts'
BY NextClocks, NextMemory, NextLag, NextHandler, NextFilter, NextClean DEF Parts

\* Types and the invariant hold in every state.
LEMMA Invariant == Spec => [](TypeOK /\ Parts)
BY InitTypeOK, NextTypeOK, InitParts, NextParts, PTL DEF Spec

\* An observation never lacks its packet's row, if the retention covers what
\* the coalescer can hold back.
THEOREM NoOrphans == Spec => []NoOrphan
<1>1. TypeOK /\ Parts => NoOrphan
  BY DEF Parts, HandlerInv, NoOrphan
<1> QED BY <1>1, Invariant, PTL

\* The filters of an IATA hold what was heard there within the retention.
THEOREM FiltersInStep == Spec => []FilterInStep
<1>1. TypeOK /\ Parts => FilterInStep
  BY DEF Parts, FilterInv, FilterInStep
<1> QED BY <1>1, Invariant, PTL

\* Rows are deleted in time, whatever fails.
THEOREM AllGoneInTime == Spec => []GoneInTime
<1>1. TypeOK /\ Parts => GoneInTime
  <2> SUFFICES ASSUME TypeOK, Parts, NEW h \in Hashes, row[h] # 0
               PROVE  now <= row[h] + Retention + Debt(failures) + CleanGap + CleanGap
    BY DEF GoneInTime
  <2>1. row[h] + Retention + Debt(failures) + Pending(cleaner.pass) >= cleaner.began
    BY CleanInvOf DEF Parts
  <2>2. now <= cleaner.began + CleanGap
    BY DEF Parts, Clocks
  <2>3. /\ row[h] \in Nat /\ now \in Nat /\ cleaner.began \in Nat
        /\ Pending(cleaner.pass) \in Nat /\ Pending(cleaner.pass) <= CleanGap
        /\ Debt(failures) \in Nat
    BY Times, DebtFacts DEF TypeOK, Pending
  <2> QED BY ONLY <2>1, <2>2, <2>3, Times
<1> QED BY <1>1, Invariant, PTL
=============================================================================
