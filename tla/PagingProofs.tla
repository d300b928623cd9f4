---------------------------- MODULE PagingProofs ----------------------------
(***************************************************************************)
(* Proofs about paging, for any table, any sites, page size, depth of the  *)
(* scan and width of a millisecond: what each client can count on.         *)
(***************************************************************************)
EXTENDS Paging, TLAPS, FiniteSetTheorems, WellFoundedInduction

(***************************************************************************)
(* Largest and least elements                                              *)
(***************************************************************************)

\* A set of naturals has a least element.
LEMMA LeastElement ==
  ASSUME NEW S, S \subseteq Nat, S # {}
  PROVE  \E x \in S : \A y \in S : x <= y
<1>1. PICK x \in S : \A y \in S : ~ (<<y, x>> \in OpToRel(<, Nat))
  BY NatLessThanWellFounded, WFMin
<1>2. \A y \in S : ~ (y < x)
  BY <1>1 DEF OpToRel
<1> QED BY <1>2

\* Min returns it.
LEMMA MinFact ==
  ASSUME NEW S, S \subseteq Nat, S # {}
  PROVE  Min(S) \in S /\ \A y \in S : Min(S) <= y
<1>1. \E x \in S : \A y \in S : x <= y
  BY LeastElement
<1> QED BY <1>1 DEF Min

\* A finite set of naturals has a largest element: the smallest set without
\* one would have one after all.
LEMMA LargestElement ==
  ASSUME NEW S, S \subseteq Nat, IsFiniteSet(S), S # {}
  PROVE  \E x \in S : \A y \in S : x >= y
<1> DEFINE Topped(T) == \E x \in T : \A y \in T : x >= y
           Bad == {n \in Nat : \E T \in SUBSET Nat :
                     IsFiniteSet(T) /\ T # {} /\ Cardinality(T) = n /\ ~Topped(T)}
<1>1. Bad = {}
  <2> SUFFICES ASSUME Bad # {} PROVE FALSE
    OBVIOUS
  <2>1. Bad \subseteq Nat
    OBVIOUS
  <2>2. PICK n \in Bad : \A m \in Bad : n <= m
    <3> HIDE DEF Bad
    <3> QED BY <2>1, LeastElement
  <2>3. PICK T \in SUBSET Nat : IsFiniteSet(T) /\ T # {} /\ Cardinality(T) = n /\ ~Topped(T)
    OBVIOUS
  <2>4. PICK x \in T : TRUE
    BY <2>3
  <2>5. T \ {x} # {}
    BY <2>3, <2>4
  <2>6. IsFiniteSet(T \ {x}) /\ Cardinality(T \ {x}) = n - 1 /\ n \in Nat
    BY <2>1, <2>3, <2>4, FS_RemoveElement
  <2>7. n # 0
    BY <2>3, FS_EmptySet
  <2>8. n - 1 \in Nat /\ ~(n <= n - 1)
    BY <2>6, <2>7
  <2>9. n - 1 \notin Bad
    BY <2>2, <2>8
  <2>10. Topped(T \ {x})
    BY <2>3, <2>5, <2>6, <2>8, <2>9
  <2>11. PICK z \in T \ {x} : \A y \in T \ {x} : z >= y
    BY <2>10
  <2>12. x \in Nat /\ z \in Nat /\ T \subseteq Nat
    BY <2>3, <2>4, <2>11
  <2>13. CASE x >= z
    <3>1. \A y \in T : x >= y
      BY <2>11, <2>12, <2>13
    <3> QED BY <2>3, <2>4, <3>1
  <2>14. CASE z >= x
    <3>1. \A y \in T : z >= y
      BY <2>11, <2>12, <2>14
    <3> QED BY <2>3, <2>11, <3>1
  <2> QED BY <2>12, <2>13, <2>14
<1>2. ~Topped(S) => Cardinality(S) \in Bad
  BY FS_CardinalityType
<1> QED BY <1>1, <1>2

\* Max returns it.
LEMMA MaxFact ==
  ASSUME NEW S, S \subseteq Nat, IsFiniteSet(S), S # {}
  PROVE  Max(S) \in S /\ \A y \in S : Max(S) >= y
<1>1. \E x \in S : \A y \in S : x >= y
  BY LargestElement
<1> QED BY <1>1 DEF Max

(***************************************************************************)
(* Milliseconds                                                            *)
(***************************************************************************)

\* Rounding down to a millisecond.
LEMMA MillisFact ==
  ASSUME NEW t \in Nat
  PROVE  Millis(t) \in Nat /\ Millis(t) <= t /\ t < Millis(t) + Tick
BY PagingAssumption DEF Millis, PagingAssumption

\* A millisecond is its own.
LEMMA MillisTwice ==
  ASSUME NEW t \in Nat
  PROVE  Millis(Millis(t)) = Millis(t)
<1> DEFINE q == t \div Tick
           d == (q * Tick) \div Tick
<1>1. Tick \in Nat \ {0} /\ q \in Nat
  BY PagingAssumption DEF PagingAssumption
<1>2. q * Tick \in Nat
  BY <1>1
<1>3. d \in Nat /\ d * Tick <= q * Tick /\ q * Tick < d * Tick + Tick
  BY <1>1, <1>2
<1>4. ~(d + 1 <= q)
  <2> SUFFICES ASSUME d + 1 <= q PROVE FALSE
    OBVIOUS
  <2>1. (d + 1) * Tick <= q * Tick /\ (d + 1) * Tick = d * Tick + Tick
    BY <1>1, <1>3
  <2> QED BY <1>1, <1>3, <2>1
<1>5. ~(q + 1 <= d)
  <2> SUFFICES ASSUME q + 1 <= d PROVE FALSE
    OBVIOUS
  <2>1. (q + 1) * Tick <= d * Tick /\ (q + 1) * Tick = q * Tick + Tick
    BY <1>1, <1>3
  <2> QED BY <1>1, <1>3, <2>1
<1>6. d = q
  BY <1>1, <1>3, <1>4, <1>5
<1> QED BY <1>6 DEF Millis

\* What is not before a millisecond is not in an earlier one.
LEMMA MillisMonotone ==
  ASSUME NEW t \in Nat, NEW u \in Nat, t <= u
  PROVE  Millis(t) <= Millis(u)
<1> DEFINE a == t \div Tick
           b == u \div Tick
<1>1. Tick \in Nat \ {0} /\ a \in Nat /\ b \in Nat
  BY PagingAssumption DEF PagingAssumption
<1>2. a * Tick <= t /\ u < b * Tick + Tick
  BY <1>1
<1>3. ~(b + 1 <= a)
  <2> SUFFICES ASSUME b + 1 <= a PROVE FALSE
    OBVIOUS
  <2>1. (b + 1) * Tick <= a * Tick /\ (b + 1) * Tick = b * Tick + Tick
    BY <1>1
  <2> QED BY <1>1, <1>2, <2>1
<1>4. a <= b
  BY <1>1, <1>3
<1>5. a * Tick <= b * Tick
  BY <1>1, <1>4
<1> QED BY <1>5 DEF Millis

(***************************************************************************)
(* The table                                                               *)
(***************************************************************************)

\* The table is finite, and what it holds are rows.
Tabled ==
  /\ obs \subseteq Rows /\ open \subseteq Rows
  /\ IsFiniteSet(obs) /\ IsFiniteSet(open)

\* An id and a time are naturals.
LEMMA RowFact ==
  ASSUME NEW o \in Rows
  PROVE  o.id \in Nat \ {0} /\ o.heard \in Nat /\ o.heard >= Tick /\ o.packet \in Packets
BY PagingAssumption DEF Rows, PagingAssumption

\* The values of a function on a finite set.
LEMMA ImageFinite ==
  ASSUME NEW S, IsFiniteSet(S), NEW f, f = [x \in S |-> f[x]]
  PROVE  IsFiniteSet({f[x] : x \in S})
<1>1. f \in Surjection(S, {f[x] : x \in S})
  BY DEF Surjection
<1> QED BY <1>1, FS_Surjection

\* The ids, times and packets of finitely many rows.
LEMMA ColumnFinite ==
  ASSUME NEW S, IsFiniteSet(S)
  PROVE  /\ IsFiniteSet({o.id : o \in S})
         /\ IsFiniteSet({o.heard : o \in S})
         /\ IsFiniteSet({o.packet : o \in S})
<1>1. IsFiniteSet({o.id : o \in S})
  <2> DEFINE f == [o \in S |-> o.id]
  <2>1. IsFiniteSet({f[x] : x \in S})
    BY ImageFinite
  <2>2. {f[x] : x \in S} = {o.id : o \in S}
    OBVIOUS
  <2> QED BY <2>1, <2>2
<1>2. IsFiniteSet({o.heard : o \in S})
  <2> DEFINE f == [o \in S |-> o.heard]
  <2>1. IsFiniteSet({f[x] : x \in S})
    BY ImageFinite
  <2>2. {f[x] : x \in S} = {o.heard : o \in S}
    OBVIOUS
  <2> QED BY <2>1, <2>2
<1>3. IsFiniteSet({o.packet : o \in S})
  <2> DEFINE f == [o \in S |-> o.packet]
  <2>1. IsFiniteSet({f[x] : x \in S})
    BY ImageFinite
  <2>2. {f[x] : x \in S} = {o.packet : o \in S}
    OBVIOUS
  <2> QED BY <2>1, <2>2
<1> QED BY <1>1, <1>2, <1>3

\* A new row gets an id above all others.
LEMMA NewId ==
  ASSUME Tabled
  PROVE  /\ Max(Ids \cup {0}) \in Nat
         /\ \A o \in obs \cup open : o.id <= Max(Ids \cup {0})
<1>1. IsFiniteSet(obs \cup open)
  BY FS_Union DEF Tabled
<1>2. IsFiniteSet(Ids)
  BY <1>1, ColumnFinite DEF Ids
<1>3. IsFiniteSet(Ids \cup {0})
  BY <1>2, FS_AddElement
<1>4. Ids \cup {0} \subseteq Nat
  BY RowFact DEF Ids, Tabled
<1>5. /\ Max(Ids \cup {0}) \in Ids \cup {0}
      /\ \A i \in Ids \cup {0} : Max(Ids \cup {0}) >= i
  BY <1>3, <1>4, MaxFact
<1>6. \A o \in obs \cup open : o.id \in Ids /\ o.id \in Nat
  BY RowFact DEF Ids, Tabled
<1> QED BY <1>4, <1>5, <1>6

\* A begun INSERT adds one row, with a new id.
LEMMA InsertRow ==
  ASSUME TypeOK, Tabled, NEW p \in Packets, NEW ob \in Observers, NEW s \in Sites,
         NEW t \in Arrivals, Insert(p, ob, s, t)
  PROVE  \E r \in Rows : /\ open' = open \cup {r}
                         /\ r.packet = p /\ r.observer = ob
                         /\ \A o \in obs \cup open : o.id < r.id
<1> DEFINE r == [id |-> Max(Ids \cup {0}) + 1, packet |-> p, observer |-> ob,
                 site |-> s, heard |-> t]
<1>1. r \in Rows
  BY NewId, PagingAssumption DEF Rows, PagingAssumption
<1>2. \A o \in obs \cup open : o.id \in Nat
  BY RowFact DEF Tabled
<1>3. ASSUME NEW o \in obs \cup open PROVE o.id < r.id
  <2>1. r.id = Max(Ids \cup {0}) + 1
    OBVIOUS
  <2>2. o.id \in Nat /\ Max(Ids \cup {0}) \in Nat /\ o.id <= Max(Ids \cup {0})
    BY <1>2, NewId
  <2> HIDE DEF r
  <2> QED BY <2>1, <2>2
<1>4. open' = open \cup {r}
  BY DEF Insert
<1> QED BY <1>1, <1>3, <1>4

(***************************************************************************)
(* A page                                                                  *)
(***************************************************************************)

Before(s) == {o \in obs : o.site = s /\ (cursor = 0 \/ o.heard < cursor)}

\* A scan has the latest rows of its site before the cursor, and all of them
\* unless it came out full.
LEMMA ScanFact ==
  ASSUME Tabled, NEW s, NEW T \in Scans(s)
  PROVE  /\ T \subseteq Before(s)
         /\ \A t \in T, o \in Before(s) \ T : o.heard <= t.heard
         /\ T = Before(s) \/ Cardinality(T) >= Depth
         /\ IsFiniteSet(T)
<1> DEFINE n == IF Cardinality(Before(s)) < Depth THEN Cardinality(Before(s)) ELSE Depth
<1>1. IsFiniteSet(Before(s))
  BY FS_Subset DEF Before, Tabled
<1>2. /\ T \in kSubset(n, Before(s))
      /\ \A t \in T, o \in Before(s) \ T : o.heard <= t.heard
  BY DEF Scans, Before
<1>3. T \in SUBSET Before(s) /\ Cardinality(T) = n
  BY <1>2 DEF kSubset
<1>4. IsFiniteSet(T) /\ (Cardinality(Before(s)) = Cardinality(T) => Before(s) = T)
  BY <1>1, <1>3, FS_Subset
<1>5. Depth \in Nat
  BY PagingAssumption DEF Depth, PagingAssumption
<1> QED BY <1>2, <1>3, <1>4, <1>5

\* The scans of a page.
Scanning(scan) == \A s \in Requested : scan[s] \in Scans(s)

\* What they return are finitely many rows of the table.
LEMMA ScannedFact ==
  ASSUME Tabled, NEW scan, Scanning(scan)
  PROVE  Scanned(scan) \subseteq obs /\ IsFiniteSet(Scanned(scan))
<1>1. \A s \in Requested : scan[s] \subseteq obs
  BY ScanFact DEF Scanning, Before
<1>2. Scanned(scan) \in SUBSET obs
  BY <1>1 DEF Scanned
<1> QED BY <1>2, FS_Subset DEF Tabled

\* The latest time of a packet in finitely many rows.
LEMMA SiteHeardFact ==
  ASSUME NEW R, R \subseteq Rows, IsFiniteSet(R), NEW p \in {o.packet : o \in R}
  PROVE  /\ SiteHeard(R, p) \in Nat
         /\ \A o \in R : o.packet = p => o.heard <= SiteHeard(R, p)
         /\ SiteHeard(R, p) >= Tick
<1> DEFINE S == {o \in R : o.packet = p}
           H == {o.heard : o \in S}
<1>1. S # {} /\ IsFiniteSet(S) /\ S \subseteq Rows
  BY FS_Subset
<1>2. IsFiniteSet(H)
  BY <1>1, ColumnFinite
<1>3. H \subseteq Nat /\ H # {} /\ \A h \in H : h >= Tick
  BY <1>1, RowFact
<1>4. Max(H) \in H /\ \A h \in H : Max(H) >= h
  <2> HIDE DEF H
  <2> QED BY <1>2, <1>3, MaxFact
<1>5. \A o \in S : o.heard \in H /\ o.heard \in Nat
  BY <1>3
<1> QED BY <1>3, <1>4, <1>5 DEF SiteHeard

\* The candidates of a page are packets of the scanned rows.
LEMMA CandidatesFact ==
  ASSUME Tabled, NEW scan, Scanning(scan)
  PROVE  /\ Candidates(scan) \subseteq {o.packet : o \in Scanned(scan)}
         /\ IsFiniteSet(Candidates(scan))
         /\ \A p \in Candidates(scan) :
              SiteHeard(Scanned(scan), p) \in Nat /\ SiteHeard(Scanned(scan), p) >= Tick
<1>1. Candidates(scan) \subseteq {o.packet : o \in Scanned(scan)}
  BY DEF Candidates
<1>2. IsFiniteSet({o.packet : o \in Scanned(scan)})
  BY ScannedFact, ColumnFinite
<1>3. Scanned(scan) \subseteq Rows
  BY ScannedFact DEF Tabled
<1> QED BY <1>1, <1>2, <1>3, ScannedFact, SiteHeardFact, FS_Subset

\* The floor is not below the oldest row of any scan that came out full.
LEMMA FloorFact ==
  ASSUME Tabled, NEW scan, Scanning(scan), Full(scan) # {}
  PROVE  /\ Floor(scan) \in Nat
         /\ \A s \in Full(scan) : \E o \in scan[s] :
              o.heard <= Floor(scan) /\ \A u \in scan[s] : o.heard <= u.heard
<1> DEFINE Oldest(s) == Min({o.heard : o \in scan[s]})
           F == {Oldest(s) : s \in Full(scan)}
<1>1. Full(scan) \in SUBSET Requested /\ IsFiniteSet(Full(scan))
  <2>1. Full(scan) \in SUBSET Requested
    BY DEF Full
  <2> QED BY <2>1, PagingAssumption, FS_Subset DEF PagingAssumption
<1>2. IsFiniteSet(F)
  <2> DEFINE f == [s \in Full(scan) |-> Oldest(s)]
  <2>1. IsFiniteSet({f[x] : x \in Full(scan)})
    BY <1>1, ImageFinite
  <2>2. {f[x] : x \in Full(scan)} = F
    OBVIOUS
  <2> QED BY <2>1, <2>2
<1>3. ASSUME NEW s \in Full(scan)
      PROVE  /\ Oldest(s) \in Nat
             /\ \E o \in scan[s] : o.heard = Oldest(s) /\ \A u \in scan[s] : o.heard <= u.heard
  <2>1. scan[s] \in Scans(s) /\ Cardinality(scan[s]) >= Depth
    BY <1>1 DEF Full, Scanning
  <2>2. scan[s] \subseteq Rows
    BY <2>1, ScanFact DEF Before, Tabled
  <2>3. Depth \in Nat \ {0}
    BY PagingAssumption DEF Depth, PagingAssumption
  <2>4. scan[s] # {}
    BY <2>1, <2>3, FS_EmptySet
  <2>5. {o.heard : o \in scan[s]} \subseteq Nat /\ {o.heard : o \in scan[s]} # {}
    BY <2>2, <2>4, RowFact
  <2>6. /\ Oldest(s) \in {o.heard : o \in scan[s]}
        /\ \A h \in {o.heard : o \in scan[s]} : Oldest(s) <= h
    BY <2>5, MinFact
  <2> QED BY <2>5, <2>6
<1>4. F \subseteq Nat /\ F # {}
  BY <1>3
<1>5. Max(F) \in F /\ \A x \in F : Max(F) >= x
  <2> HIDE DEF F
  <2> QED BY <1>2, <1>4, MaxFact
<1>6. Floor(scan) = Max(F)
  BY DEF Floor
<1>7. ASSUME NEW s \in Full(scan)
      PROVE  \E o \in scan[s] : o.heard <= Floor(scan) /\ \A u \in scan[s] : o.heard <= u.heard
  <2>1. Oldest(s) \in F /\ Oldest(s) <= Floor(scan)
    BY <1>3, <1>4, <1>5, <1>6
  <2> HIDE DEF F, Oldest
  <2> QED BY <1>3, <2>1
<1> QED BY <1>4, <1>5, <1>6, <1>7

\* Where a page ends: not above every packet on it, nor below the floor.
LEMMA LastFact ==
  ASSUME Tabled, NEW scan, Scanning(scan), NEW top \in SUBSET Candidates(scan), top # {}
  PROVE  /\ Last(scan, top) \in Nat /\ Last(scan, top) >= Tick
         /\ \E p \in top : SiteHeard(Scanned(scan), p) <= Last(scan, top)
         /\ Full(scan) # {} => Floor(scan) <= Last(scan, top)
<1> DEFINE H == {SiteHeard(Scanned(scan), p) : p \in top}
           m == Min(H)
<1>1. H \subseteq Nat /\ H # {} /\ \A h \in H : h >= Tick
  BY CandidatesFact
<1>2. m \in H
  <2> HIDE DEF H
  <2> QED BY <1>1, MinFact
<1>3. PICK p \in top : m = SiteHeard(Scanned(scan), p)
  BY <1>2
<1>4. m \in Nat /\ m >= Tick /\ Tick \in Nat
  BY <1>1, <1>2, PagingAssumption DEF PagingAssumption
<1> HIDE DEF H
<1>5. CASE Full(scan) = {}
  <2>1. Last(scan, top) = m
    BY <1>5 DEF Last, H
  <2> QED BY <1>3, <1>4, <1>5, <2>1
<1>6. CASE Full(scan) # {}
  <2>1. Last(scan, top) = Max({m, Floor(scan)})
    BY <1>6 DEF Last, H
  <2>2. Floor(scan) \in Nat
    BY <1>6, FloorFact
  <2>3. IsFiniteSet({m, Floor(scan)})
    <3>1. IsFiniteSet({m} \cup {Floor(scan)})
      BY FS_Singleton, FS_AddElement
    <3>2. {m} \cup {Floor(scan)} = {m, Floor(scan)}
      OBVIOUS
    <3> QED BY <3>1, <3>2
  <2>4. /\ Last(scan, top) \in {m, Floor(scan)}
        /\ Last(scan, top) >= m /\ Last(scan, top) >= Floor(scan)
    <3>1. {m, Floor(scan)} \subseteq Nat /\ {m, Floor(scan)} # {}
      BY <1>4, <2>2
    <3> QED BY <2>1, <2>3, <3>1, MaxFact
  <2> QED BY <1>3, <1>4, <2>2, <2>4
<1> QED BY <1>5, <1>6

\* A page in the middle is not empty.
LEMMA TopsFact ==
  ASSUME Tabled, NEW scan, Scanning(scan), NEW top \in Tops(scan)
  PROVE  /\ top \in SUBSET Candidates(scan)
         /\ \A p \in top, q \in Candidates(scan) \ top :
              SiteHeard(Scanned(scan), q) <= SiteHeard(Scanned(scan), p)
         /\ Cardinality(Candidates(scan)) > Limit => top # {}
<1> DEFINE ps == Candidates(scan)
           n  == IF Cardinality(ps) < Limit THEN Cardinality(ps) ELSE Limit
<1>1. /\ top \in kSubset(n, ps)
      /\ \A p \in top, q \in ps \ top :
           SiteHeard(Scanned(scan), q) <= SiteHeard(Scanned(scan), p)
  BY DEF Tops
<1>2. top \in SUBSET ps /\ Cardinality(top) = n
  BY <1>1 DEF kSubset
<1>3. Cardinality(ps) \in Nat /\ Limit \in Nat \ {0}
  BY CandidatesFact, FS_CardinalityType, PagingAssumption DEF PagingAssumption
<1>4. Cardinality(ps) > Limit => n # 0
  BY <1>3
<1> QED BY <1>1, <1>2, <1>4, FS_EmptySet

\* A call of the first client, spelt out.
LEMMA ListedPage ==
  ASSUME Tabled, ListByIATAs
  PROVE  /\ UNCHANGED <<obs, open, inserts, stirred, catchUp>>
         /\ page # "end"
         /\ \E scan, top :
              /\ Scanning(scan) /\ top \in Tops(scan)
              /\ shown' = shown \cup top
              /\ \/ /\ top # {} /\ page' = "next"
                    /\ cursor' = Millis(Last(scan, top))
                    /\ edges' = edges \cup {cursor'}
                 \/ page' = "end" /\ UNCHANGED <<cursor, edges>>
<1>1. PICK scan \in [Requested -> UNION {Scans(s) : s \in Requested}] :
        /\ Scanning(scan)
        /\ \E top \in Tops(scan) :
             /\ shown' = shown \cup top
             /\ IF Cardinality(Candidates(scan)) > Limit \/ (top # {} /\ Full(scan) # {})
                THEN /\ page' = "next"
                     /\ cursor' = Millis(Last(scan, top))
                     /\ edges' = edges \cup {cursor'}
                ELSE page' = "end" /\ UNCHANGED <<cursor, edges>>
  BY DEF ListByIATAs, Scanning
<1>2. PICK top \in Tops(scan) :
        /\ shown' = shown \cup top
        /\ IF Cardinality(Candidates(scan)) > Limit \/ (top # {} /\ Full(scan) # {})
           THEN /\ page' = "next"
                /\ cursor' = Millis(Last(scan, top))
                /\ edges' = edges \cup {cursor'}
           ELSE page' = "end" /\ UNCHANGED <<cursor, edges>>
  BY <1>1
<1>3. Cardinality(Candidates(scan)) > Limit => top # {}
  BY <1>1, <1>2, TopsFact
<1> QED BY <1>1, <1>2, <1>3 DEF ListByIATAs

\* What has to do with the second client.
MessageStep ==
  \/ BeginMessage
  \/ \E m \in storing : CommitMessage(m)
  \/ \E m \in owed : Tell(m) \/ Lose(m)
  \/ ListMessagesAfterID

\* It leaves the table of observations and the first client alone.
LEMMA MessagesApart ==
  ASSUME MessageStep
  PROVE  UNCHANGED <<obs, open, cursor, page, shown, edges, stirred>>
BY DEF MessageStep, BeginMessage, CommitMessage, Tell, Lose, ListMessagesAfterID, history

(***************************************************************************)
(* Type correctness                                                        *)
(***************************************************************************)

\* The table stays a finite set of rows.
LEMMA StaysTabled == TypeOK /\ Tabled /\ [Next]_vars => Tabled'
<1> SUFFICES ASSUME TypeOK, Tabled, [Next]_vars PROVE Tabled'
  OBVIOUS
<1>1. ASSUME NEW p \in Packets, NEW ob \in Observers, NEW s \in Sites, NEW t \in Arrivals,
             Insert(p, ob, s, t)
      PROVE  Tabled'
  <2>1. PICK r \in Rows : open' = open \cup {r}
    BY <1>1, InsertRow
  <2>2. obs' = obs
    BY <1>1 DEF Insert
  <2> QED BY <2>1, <2>2, FS_AddElement DEF Tabled
<1>2. ASSUME NEW o \in open, Commit(o) PROVE Tabled'
  <2>1. IsFiniteSet(obs \cup {o}) /\ IsFiniteSet(open \ {o})
    BY FS_AddElement, FS_RemoveElement DEF Tabled
  <2> QED BY <1>2, <2>1 DEF Commit, Tabled
<1>3. CASE ListByIATAs
  BY <1>3 DEF ListByIATAs, Tabled
<1>4. CASE MessageStep
  BY <1>4, MessagesApart DEF Tabled
<1>5. CASE UNCHANGED vars
  BY <1>5 DEF vars, Tabled
<1> QED BY <1>1, <1>2, <1>3, <1>4, <1>5 DEF Next, MessageStep

\* The messages after the last one that precede one.
Lower(i) == {j \in Beyond : j < i}

\* What the second client is given: the lowest of the ids it has not had.
LEMMA NextIdsFact ==
  ASSUME messages \subseteq Nat, IsFiniteSet(messages), NextIds # {}
  PROVE  /\ NextIds \subseteq messages
         /\ Max(NextIds) \in NextIds /\ Max(NextIds) \in Nat
         /\ \A i \in Beyond : i <= Max(NextIds) => i \in NextIds
<1>1. Beyond \subseteq messages /\ Beyond \subseteq Nat /\ IsFiniteSet(Beyond)
  <2>1. Beyond \in SUBSET messages
    BY DEF Beyond
  <2> QED BY <2>1, FS_Subset
<1>2. NextIds \in SUBSET Beyond
  BY DEF NextIds
<1>3. IsFiniteSet(NextIds) /\ NextIds \subseteq Nat
  BY <1>1, <1>2, FS_Subset
<1>4. Max(NextIds) \in NextIds
  BY <1>3, MaxFact
<1>5. ASSUME NEW i \in Beyond, i <= Max(NextIds) PROVE i \in NextIds
  <2> DEFINE m == Max(NextIds)
  <2>1. m \in Beyond /\ i \in Nat /\ m \in Nat
    BY <1>1, <1>2, <1>4
  <2>2. Lower(m) \in SUBSET Beyond
    BY DEF Lower
  <2>3. IsFiniteSet(Lower(m)) /\ Cardinality(Lower(m)) \in Nat
    BY <1>1, <2>2, FS_Subset, FS_CardinalityType
  <2>4. Lower(i) \in SUBSET Lower(m)
    <3>1. i <= m
      BY <1>5
    <3> HIDE DEF m
    <3>2. ASSUME NEW j \in Beyond, j < i PROVE j < m
      BY <1>1, <2>1, <3>1, <3>2
    <3> QED BY <3>2 DEF Lower
  <2>5. Cardinality(Lower(i)) <= Cardinality(Lower(m)) /\ Cardinality(Lower(i)) \in Nat
    BY <2>3, <2>4, FS_Subset, FS_CardinalityType
  <2>6. Cardinality(Lower(m)) < Limit
    BY <1>4 DEF NextIds, Lower
  <2>7. Cardinality(Lower(i)) < Limit
    BY <2>3, <2>5, <2>6, PagingAssumption DEF PagingAssumption
  <2> QED BY <2>7 DEF NextIds, Lower
<1> QED BY <1>1, <1>2, <1>3, <1>4, <1>5

\* A message's id is above those of the messages there are.
LEMMA NewMessageId ==
  ASSUME TypeOK, BeginMessage
  PROVE  \E m \in Nat \ {0} : /\ storing' = storing \cup {m}
                              /\ \A n \in messages \cup storing : n < m
<1> DEFINE S == messages \cup storing \cup {0}
<1>1. S \subseteq Nat
  BY DEF TypeOK
<1>2. IsFiniteSet(S)
  <2>1. IsFiniteSet(messages \cup storing)
    BY FS_Union DEF TypeOK
  <2> QED BY <2>1, FS_AddElement
<1>3. Max(S) \in Nat /\ \A n \in S : Max(S) >= n
  <2> HIDE DEF S
  <2>1. S # {}
    BY DEF S
  <2> QED BY <1>1, <1>2, <2>1, MaxFact
<1>4. storing' = storing \cup {Max(S) + 1}
  BY DEF BeginMessage
<1>5. Max(S) + 1 \in Nat \ {0} /\ \A n \in S : n < Max(S) + 1
  <2> HIDE DEF S
  <2> QED BY <1>1, <1>3
<1> QED BY <1>4, <1>5

\* Rows keep different ids, the cursor is a millisecond, and every other
\* variable keeps its type.
THEOREM TypeCorrect == Spec => [](TypeOK /\ Tabled)
<1>1. Init => TypeOK /\ Tabled
  <2> SUFFICES ASSUME Init PROVE TypeOK /\ Tabled
    OBVIOUS
  <2>1. Stored \subseteq Rows /\ IsFiniteSet(Stored) /\ MaxInserts \in Nat
    BY PagingAssumption DEF PagingAssumption
  <2>2. Millis(0) = 0
    BY MillisFact
  <2>3. IsFiniteSet({})
    BY FS_EmptySet
  <2>4. \A o, u \in obs \cup open :
          o.id = u.id \/ (o.packet = u.packet /\ o.observer = u.observer) => o = u
    BY PagingAssumption DEF Init, PagingAssumption
  <2>5. Known \subseteq Nat \ {0} /\ IsFiniteSet(Known)
    BY PagingAssumption DEF PagingAssumption
  <2> QED BY <2>1, <2>2, <2>3, <2>4, <2>5 DEF Init, TypeOK, Tabled
<1>2. TypeOK /\ Tabled /\ [Next]_vars => TypeOK'
  <2> SUFFICES ASSUME TypeOK, Tabled, [Next]_vars PROVE TypeOK'
    OBVIOUS
  <2>1. ASSUME NEW p \in Packets, NEW ob \in Observers, NEW s \in Sites, NEW t \in Arrivals,
               Insert(p, ob, s, t)
        PROVE  TypeOK'
    <3>1. PICK r \in Rows : /\ open' = open \cup {r}
                            /\ r.packet = p /\ r.observer = ob
                            /\ \A o \in obs \cup open : o.id < r.id
      BY <2>1, InsertRow
    <3>2. \A o \in obs \cup open : o.id \in Nat /\ r.id \in Nat
      BY RowFact DEF Tabled
    <3>3. \A o \in obs \cup open : o.id # r.id
      BY <3>1, <3>2
    <3>4. \A o \in obs \cup open : o.packet # p \/ o.observer # ob
      BY <2>1 DEF Insert
    <3>5. \A o, u \in (obs \cup open)' :
            o.id = u.id \/ (o.packet = u.packet /\ o.observer = u.observer) => o = u
      BY <2>1, <3>1, <3>3, <3>4 DEF TypeOK, Insert
    <3>6. inserts' \in 0..MaxInserts
      BY <2>1, PagingAssumption DEF TypeOK, Insert, PagingAssumption
    <3>7. obs' \subseteq Rows /\ open' \subseteq Rows
      BY <2>1, <3>1 DEF TypeOK, Insert
    <3>8. UNCHANGED <<cursor, page, shown, stirred, edges, messages, storing, owed, after, got, lost>>
      BY <2>1 DEF Insert, history, catchUp
    <3>9. cursor' = Millis(cursor)'
      BY <3>8 DEF TypeOK, Millis
    <3> QED BY <3>5, <3>6, <3>7, <3>8, <3>9 DEF TypeOK
  <2>2. ASSUME NEW o \in open, Commit(o) PROVE TypeOK'
    <3>1. UNCHANGED <<inserts, cursor, page, shown, edges, messages, storing, owed, after, got, lost>>
      BY <2>2 DEF Commit, history, catchUp
    <3>2. stirred' \subseteq Packets
      BY <2>2, RowFact DEF Commit, TypeOK, Tabled
    <3>3. (obs \cup open)' = obs \cup open
      BY <2>2 DEF Commit
    <3>4. obs' \subseteq Rows /\ open' \subseteq Rows
      BY <2>2 DEF Commit, TypeOK
    <3> QED BY <3>1, <3>2, <3>3, <3>4 DEF TypeOK, Millis
  <2>3. CASE ListByIATAs
    <3>1. PICK scan, top :
            /\ Scanning(scan) /\ top \in Tops(scan)
            /\ shown' = shown \cup top
            /\ \/ /\ top # {} /\ page' = "next"
                  /\ cursor' = Millis(Last(scan, top))
                  /\ edges' = edges \cup {cursor'}
               \/ page' = "end" /\ UNCHANGED <<cursor, edges>>
      BY <2>3, ListedPage
    <3>2. UNCHANGED <<obs, open, inserts, stirred, messages, storing, owed, after, got, lost>>
      BY <2>3, ListedPage DEF catchUp
    <3>3. shown' \subseteq Packets
      <4>1. top \subseteq {o.packet : o \in Scanned(scan)}
        BY <3>1, TopsFact, CandidatesFact
      <4>2. top \subseteq Packets
        BY <3>1, <4>1, ScannedFact, RowFact DEF Tabled
      <4> QED BY <3>1, <4>2 DEF TypeOK
    <3>4. CASE /\ top # {} /\ page' = "next"
               /\ cursor' = Millis(Last(scan, top))
               /\ edges' = edges \cup {cursor'}
      <4>1. Last(scan, top) \in Nat
        BY <3>1, <3>4, TopsFact, LastFact
      <4>2. cursor' \in Nat /\ Millis(cursor') = cursor'
        BY <3>4, <4>1, MillisFact, MillisTwice
      <4>3. cursor' = Millis(cursor)'
        BY <4>2 DEF Millis
      <4> QED BY <3>2, <3>3, <3>4, <4>2, <4>3 DEF TypeOK
    <3>5. CASE page' = "end" /\ UNCHANGED <<cursor, edges>>
      BY <3>2, <3>3, <3>5 DEF TypeOK, Millis
    <3> QED BY <3>1, <3>4, <3>5
  <2>4. CASE MessageStep
    <3> DEFINE Sound ==
          /\ inserts \in 0..MaxInserts
          /\ messages \subseteq Nat \ {0} /\ storing \subseteq Nat \ {0}
          /\ IsFiniteSet(messages) /\ IsFiniteSet(storing)
          /\ owed \subseteq messages /\ got \subseteq messages /\ lost \subseteq messages
          /\ after \in Nat
    <3>1. UNCHANGED <<obs, open, cursor, page, shown, stirred, edges>>
      BY <2>4, MessagesApart
    <3>2. Sound
      BY DEF TypeOK
    <3>3. CASE BeginMessage
      <4>1. PICK m \in Nat \ {0} : storing' = storing \cup {m}
        BY <3>3, NewMessageId
      <4>2. IsFiniteSet(storing') /\ storing' \subseteq Nat \ {0}
        BY <3>2, <4>1, FS_AddElement
      <4>3. inserts' \in 0..MaxInserts
        BY <3>2, <3>3, PagingAssumption DEF BeginMessage, PagingAssumption
      <4>4. Sound'
        BY <3>2, <3>3, <4>2, <4>3 DEF BeginMessage
      <4> QED BY <3>1, <4>4 DEF TypeOK, Millis
    <3>4. ASSUME NEW m \in storing, CommitMessage(m) PROVE TypeOK'
      <4>1. IsFiniteSet(messages \cup {m}) /\ IsFiniteSet(storing \ {m})
        BY <3>2, FS_AddElement, FS_RemoveElement
      <4>2. Sound'
        BY <3>2, <3>4, <4>1 DEF CommitMessage
      <4> QED BY <3>1, <4>2 DEF TypeOK, Millis
    <3>5. ASSUME NEW m \in owed, Tell(m) \/ Lose(m) PROVE TypeOK'
      <4>1. /\ UNCHANGED <<inserts, messages, storing, after>>
            /\ owed' \subseteq owed
            /\ got' \subseteq got \cup {m} /\ lost' \subseteq lost \cup {m}
        BY <3>5 DEF Tell, Lose
      <4>2. Sound'
        BY <3>2, <4>1
      <4> QED BY <3>1, <4>2 DEF TypeOK, Millis
    <3>6. CASE ListMessagesAfterID
      <4>1. NextIds \subseteq messages /\ Max(NextIds) \in Nat
        BY <3>2, <3>6, NextIdsFact DEF ListMessagesAfterID
      <4>2. Sound'
        BY <3>2, <3>6, <4>1 DEF ListMessagesAfterID
      <4> QED BY <3>1, <4>2 DEF TypeOK, Millis
    <3> QED BY <2>4, <3>3, <3>4, <3>5, <3>6 DEF MessageStep
  <2>5. CASE UNCHANGED vars
    BY <2>5 DEF vars, TypeOK, Millis
  <2> QED BY <2>1, <2>2, <2>3, <2>4, <2>5 DEF Next, MessageStep
<1> QED BY <1>1, <1>2, StaysTabled, PTL DEF Spec

(***************************************************************************)
(* The second client                                                       *)
(***************************************************************************)

\* A step of either client or of a handler keeps it: what a page passes is on
\* the page unless it was passed before, and what commits behind the client is
\* owed to it.
LEMMA StaysCovered == TypeOK /\ Covered /\ [Next]_vars => Covered'
<1> SUFFICES ASSUME TypeOK, Covered, [Next]_vars PROVE Covered'
  OBVIOUS
<1>1. CASE UNCHANGED catchUp
  BY <1>1 DEF catchUp, Covered
<1>2. CASE BeginMessage
  BY <1>2 DEF BeginMessage, Covered
<1>3. ASSUME NEW m \in storing, CommitMessage(m) PROVE Covered'
  BY <1>3 DEF CommitMessage, Covered
<1>4. ASSUME NEW m \in owed, Tell(m) PROVE Covered'
  BY <1>4 DEF Tell, Covered
<1>5. ASSUME NEW m \in owed, Lose(m) PROVE Covered'
  <2>1. UNCHANGED <<messages, after, got>> /\ owed' = owed \ {m}
    BY <1>5 DEF Lose
  <2>2. m <= after => lost' = lost \cup {m}
    BY <1>5 DEF Lose
  <2>3. lost \subseteq lost'
    BY <1>5 DEF Lose
  <2> QED BY <2>1, <2>2, <2>3 DEF Covered
<1>6. CASE ListMessagesAfterID
  <2> DEFINE last == Max(NextIds)
  <2>1. /\ UNCHANGED <<messages, owed, lost>> /\ NextIds # {}
        /\ got' = got \cup NextIds /\ after' = last
    BY <1>6 DEF ListMessagesAfterID
  <2>2. \A i \in Beyond : i <= last => i \in NextIds
    BY <2>1, NextIdsFact DEF TypeOK
  <2> HIDE DEF last
  <2>3. ASSUME NEW m \in messages, m <= last PROVE m \in got' \cup owed \cup lost
    <3>1. CASE m <= after
      BY <2>1, <3>1 DEF Covered
    <3>2. CASE m > after
      BY <2>1, <2>2, <2>3, <3>2 DEF Beyond
    <3> QED BY <3>1, <3>2 DEF TypeOK
  <2> QED BY <2>1, <2>3 DEF Covered
<1> QED BY <1>1, <1>2, <1>3, <1>4, <1>5, <1>6 DEF Next, Insert, Commit, ListByIATAs, vars, catchUp

\* A client that hears events and reads on by id misses nothing of what its
\* pages have passed, rows that committed late included, but for what was both
\* overtaken by a page and lost as an event.
THEOREM EventsCoverPages == Spec => []Covered
<1>1. Init => Covered
  BY PagingAssumption DEF Init, Covered, PagingAssumption
<1> QED BY <1>1, StaysCovered, TypeCorrect, PTL DEF Spec

(***************************************************************************)
(* The first client                                                        *)
(***************************************************************************)

\* The latest time a requested site heard a packet is that of a row.
LEMMA HeardFact ==
  ASSUME Tabled, NEW p, Heard(p) # {}
  PROVE  /\ Max(Heard(p)) \in Nat
         /\ \A h \in Heard(p) : h <= Max(Heard(p))
         /\ \E o \in obs : o.packet = p /\ o.site \in Requested /\ o.heard = Max(Heard(p))
<1> DEFINE S == {o \in obs : o.packet = p /\ o.site \in Requested}
<1>1. IsFiniteSet(S) /\ S \subseteq Rows
  BY FS_Subset DEF Tabled
<1>2. IsFiniteSet(Heard(p))
  BY <1>1, ColumnFinite DEF Heard
<1>3. Heard(p) \subseteq Nat
  BY <1>1, RowFact DEF Heard
<1>4. Max(Heard(p)) \in Heard(p) /\ \A h \in Heard(p) : Max(Heard(p)) >= h
  BY <1>2, <1>3, MaxFact
<1> QED BY <1>3, <1>4 DEF Heard

\* The row that makes a packet later than the end of a page is in a scan: one
\* that stopped short of it would have its floor, and the page its end, above.
LEMMA InScan ==
  ASSUME Tabled, NEW scan, Scanning(scan), NEW top \in SUBSET Candidates(scan), top # {},
         NEW s \in Requested, NEW o \in Before(s), Last(scan, top) < o.heard
  PROVE  o \in Scanned(scan)
<1>1. scan[s] \in Scans(s)
  BY DEF Scanning
<1>2. SUFFICES ASSUME o \notin scan[s] PROVE FALSE
  BY DEF Scanned
<1>3. s \in Full(scan)
  BY <1>1, <1>2, ScanFact DEF Full
<1>4. PICK u \in scan[s] : u.heard <= Floor(scan)
  BY <1>3, FloorFact
<1>5. o.heard <= u.heard
  BY <1>1, <1>2, ScanFact
<1>6. Floor(scan) <= Last(scan, top)
  BY <1>3, LastFact
<1>7. u.heard \in Nat /\ o.heard \in Nat
  BY <1>1, ScanFact, RowFact DEF Before, Tabled
<1>8. Floor(scan) \in Nat /\ Last(scan, top) \in Nat
  BY <1>3, FloorFact, LastFact
<1> QED BY <1>4, <1>5, <1>6, <1>7, <1>8

\* A packet later than the end of a page, and not on one before, is on it.
LEMMA OnPage ==
  ASSUME Tabled, cursor \in Nat, NEW scan, Scanning(scan), NEW top \in Tops(scan), top # {},
         NEW p, Heard(p) # {}, cursor = 0 \/ Max(Heard(p)) < cursor,
         Last(scan, top) < Max(Heard(p))
  PROVE  p \in top
<1> DEFINE h == Max(Heard(p))
<1>1. h \in Nat /\ \A t \in Heard(p) : t <= h
  BY HeardFact
<1>2. PICK o \in obs : o.packet = p /\ o.site \in Requested /\ o.heard = h
  BY HeardFact
<1>3. top \in SUBSET Candidates(scan)
  BY TopsFact
<1>4. o \in Before(o.site)
  BY <1>2 DEF Before
<1>5. o \in Scanned(scan)
  BY <1>2, <1>3, <1>4, InScan
<1>6. cursor = 0 \/ ~\E u \in obs : u.packet = p /\ u.site \in Requested /\ u.heard >= cursor
  <2> SUFFICES ASSUME cursor # 0, NEW u \in obs, u.packet = p, u.site \in Requested,
                      u.heard >= cursor
               PROVE  FALSE
    OBVIOUS
  <2>1. u.heard \in Heard(p) /\ u.heard \in Nat
    BY RowFact DEF Heard, Tabled
  <2>2. u.heard <= h /\ h < cursor
    BY <1>1, <2>1
  <2> HIDE DEF h
  <2> QED BY <1>1, <2>1, <2>2
<1>7. p \in Candidates(scan)
  BY <1>2, <1>5, <1>6 DEF Candidates
<1>8. SUFFICES ASSUME p \notin top PROVE FALSE
  OBVIOUS
<1>9. PICK q \in top : SiteHeard(Scanned(scan), q) <= Last(scan, top)
  BY <1>3, LastFact
<1>10. SiteHeard(Scanned(scan), p) <= SiteHeard(Scanned(scan), q)
  BY <1>7, <1>8, TopsFact
<1>11. h <= SiteHeard(Scanned(scan), p)
  <2>1. Scanned(scan) \subseteq Rows /\ IsFiniteSet(Scanned(scan))
    BY ScannedFact DEF Tabled
  <2>2. p \in {u.packet : u \in Scanned(scan)}
    BY <1>2, <1>5
  <2> QED BY <1>2, <1>5, <2>1, <2>2, SiteHeardFact
<1>12. /\ SiteHeard(Scanned(scan), p) \in Nat /\ SiteHeard(Scanned(scan), q) \in Nat
       /\ Last(scan, top) \in Nat
  BY <1>3, <1>7, CandidatesFact, LastFact
<1>13. Last(scan, top) < h
  OBVIOUS
<1> HIDE DEF h
<1> QED BY <1>1, <1>9, <1>10, <1>11, <1>12, <1>13

\* Before its first page the client has no cursor.
Started == page = "first" => cursor = 0

\* A step keeps the pages read so far complete.
LEMMA StaysComplete ==
  TypeOK /\ Tabled /\ Started /\ NothingSkipped /\ [Next]_vars => Started' /\ NothingSkipped'
<1> SUFFICES ASSUME TypeOK, Tabled, Started, NothingSkipped, [Next]_vars
             PROVE  Started' /\ NothingSkipped'
  OBVIOUS
<1>1. ASSUME UNCHANGED <<obs, cursor, page, shown, edges, stirred>>
      PROVE  Started' /\ NothingSkipped'
  BY <1>1 DEF Started, NothingSkipped, Heard, Hidden, Millis
<1>2. ASSUME NEW o \in open, Commit(o) PROVE Started' /\ NothingSkipped'
  <2>1. UNCHANGED <<cursor, page, shown, edges>> /\ obs' = obs \cup {o}
    BY <1>2 DEF Commit, history
  <2>2. stirred' = IF page # "first" /\ o.site \in Requested
                   THEN stirred \cup {o.packet} ELSE stirred
    BY <1>2 DEF Commit
  <2>3. Started'
    BY <2>1 DEF Started
  <2>4. ASSUME cursor' # 0, NEW p \in Packets, Heard(p)' # {}, Max(Heard(p)') >= cursor'
        PROVE  p \in shown' \/ Hidden(p)'
    <3>1. page # "first"
      BY <2>1, <2>4 DEF Started
    <3>2. CASE o.packet = p /\ o.site \in Requested
      BY <2>2, <3>1, <3>2 DEF Hidden
    <3>3. CASE ~(o.packet = p /\ o.site \in Requested)
      <4>1. Heard(p)' = Heard(p)
        BY <2>1, <3>3 DEF Heard
      <4>2. p \in shown \/ Hidden(p)
        BY <2>1, <2>4, <4>1 DEF NothingSkipped
      <4> QED BY <2>1, <2>2, <4>1, <4>2 DEF Hidden, Millis
    <3> QED BY <3>2, <3>3
  <2> QED BY <2>3, <2>4 DEF NothingSkipped
<1>3. CASE ListByIATAs
  <2>1. UNCHANGED <<obs, stirred>> /\ page # "end"
    BY <1>3, ListedPage
  <2>2. PICK scan, top :
          /\ Scanning(scan) /\ top \in Tops(scan)
          /\ shown' = shown \cup top
          /\ \/ /\ top # {} /\ page' = "next"
                /\ cursor' = Millis(Last(scan, top))
                /\ edges' = edges \cup {cursor'}
             \/ page' = "end" /\ UNCHANGED <<cursor, edges>>
    BY <1>3, ListedPage
  <2>3. Started'
    BY <2>2 DEF Started
  <2>4. \A p : Heard(p)' = Heard(p)
    BY <2>1 DEF Heard
  <2>5. ASSUME NEW p \in Packets, p \in shown \/ Hidden(p)
        PROVE  p \in shown' \/ Hidden(p)'
    BY <2>1, <2>2, <2>4, <2>5 DEF Hidden, Millis
  <2>6. CASE page' = "end" /\ UNCHANGED <<cursor, edges>>
    <3>1. ASSUME cursor' # 0, NEW p \in Packets, Heard(p)' # {}, Max(Heard(p)') >= cursor'
          PROVE  p \in shown' \/ Hidden(p)'
      <4>1. p \in shown \/ Hidden(p)
        BY <2>4, <2>6, <3>1 DEF NothingSkipped
      <4> QED BY <2>5, <4>1
    <3> QED BY <2>3, <3>1 DEF NothingSkipped
  <2>7. CASE /\ top # {} /\ page' = "next"
             /\ cursor' = Millis(Last(scan, top))
             /\ edges' = edges \cup {cursor'}
    <3>1. ASSUME cursor' # 0, NEW p \in Packets, Heard(p)' # {}, Max(Heard(p)') >= cursor'
          PROVE  p \in shown' \/ Hidden(p)'
      <4> DEFINE h == Max(Heard(p))
                 l == Last(scan, top)
      <4>1. Heard(p) # {} /\ h >= cursor' /\ h \in Nat
        BY <2>4, <3>1, HeardFact
      <4>2. l \in Nat
        BY <2>2, <2>7, TopsFact, LastFact
      <4>3. CASE cursor # 0 /\ h >= cursor
        BY <2>5, <4>1, <4>3 DEF NothingSkipped
      <4>4. CASE cursor = 0 \/ h < cursor
        <5>1. CASE l < h
          <6>1. p \in top
            BY <2>2, <2>7, <4>1, <4>4, <5>1, OnPage DEF TypeOK
          <6> QED BY <2>2, <6>1
        <5>2. CASE h <= l
          <6> HIDE DEF h, l
          <6>1. Millis(l) \in Nat /\ Millis(h) \in Nat /\ Millis(Millis(l)) = Millis(l)
            BY <4>1, <4>2, MillisFact, MillisTwice
          <6>2. Millis(Millis(l)) <= Millis(h) /\ Millis(h) <= Millis(l)
            BY <2>7, <4>1, <4>2, <5>2, <6>1, MillisMonotone DEF l
          <6>3. Millis(h) = cursor'
            BY <2>7, <6>1, <6>2 DEF l
          <6>4. Millis(Max(Heard(p)')) = cursor'
            BY <2>4, <6>3 DEF h
          <6> QED BY <2>7, <6>4 DEF Hidden, Millis
        <5> QED BY <4>1, <4>2, <5>1, <5>2
      <4> QED BY <4>1, <4>3, <4>4 DEF TypeOK
    <3> QED BY <2>3, <3>1 DEF NothingSkipped
  <2> QED BY <2>2, <2>6, <2>7
<1>4. ASSUME NEW p \in Packets, NEW ob \in Observers, NEW s \in Sites, NEW t \in Arrivals,
             Insert(p, ob, s, t)
      PROVE  Started' /\ NothingSkipped'
  BY <1>1, <1>4 DEF Insert, history
<1>5. CASE MessageStep
  BY <1>1, <1>5, MessagesApart
<1>6. CASE UNCHANGED vars
  BY <1>1, <1>6 DEF vars
<1> QED BY <1>2, <1>3, <1>4, <1>5, <1>6 DEF Next, MessageStep

\* Down to its cursor the client that pages back has been shown every packet
\* it can be shown, wherever the scans of the sites ended.
THEOREM PagesComplete == Spec => []NothingSkipped
<1>1. Init => Started /\ NothingSkipped
  BY DEF Init, Started, NothingSkipped
<1> QED BY <1>1, StaysComplete, TypeCorrect, PTL DEF Spec
=============================================================================
