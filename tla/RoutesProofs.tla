---------------------------- MODULE RoutesProofs ----------------------------
(***************************************************************************)
(* Proofs about known routes and neighbours, for any nodes, prefixes,      *)
(* paths and workers, any size of a batch and any number of failures.      *)
(***************************************************************************)
EXTENDS Routes, SequenceTheorems, FiniteSetTheorems, WellFoundedInduction, TLAPS

(***************************************************************************)
(* Sequences                                                               *)
(***************************************************************************)

\* A set of naturals has a least element: what an induction over the length of
\* a sequence takes its counterexample from.
LEMMA LeastNumber ==
  ASSUME NEW T, T \subseteq Nat, T # {}
  PROVE  \E n \in T : \A m \in T : n <= m
<1>1. PICK n \in T : \A m \in T : ~ (<<m, n>> \in OpToRel(<, Nat))
  BY NatLessThanWellFounded, WFMin
<1>2. \A m \in T : ~ (m < n)
  BY <1>1 DEF OpToRel
<1> QED BY <1>2

\* F is the function that FlattenSeq defines, up to n.
Chain(F, seqs, n) ==
  F = [i \in 1..n |-> IF i = 1 THEN seqs[i] ELSE F[i-1] \o seqs[i]]

\* Its equation has a solution.
LEMMA ChainExists ==
  ASSUME NEW seqs, NEW N \in Nat \ {0}
  PROVE  \E F : Chain(F, seqs, N)
<1> DEFINE Wrong == {n \in Nat \ {0} : ~ \E F : Chain(F, seqs, n)}
<1> SUFFICES ASSUME Wrong # {} PROVE FALSE
  OBVIOUS
<1>1. PICK n \in Wrong : \A m \in Wrong : n <= m
  <2>1. Wrong \subseteq Nat
    OBVIOUS
  <2> HIDE DEF Wrong
  <2> QED BY <2>1, LeastNumber
<1>2. n \in Nat \ {0} /\ ~ \E F : Chain(F, seqs, n)
  OBVIOUS
<1>3. n # 1
  <2>1. Chain([i \in 1..1 |-> seqs[1]], seqs, 1)
    BY DEF Chain
  <2> QED BY <1>2, <2>1
<1>4. PICK F : Chain(F, seqs, n - 1)
  <2>1. n - 1 \in Nat \ {0} /\ ~(n <= n - 1)
    BY <1>2, <1>3
  <2>2. n - 1 \notin Wrong
    <3> HIDE DEF Wrong
    <3> QED BY <1>1, <2>1
  <2> QED BY <2>1, <2>2
<1> DEFINE G == [i \in 1..n |-> IF i = n THEN F[n - 1] \o seqs[n] ELSE F[i]]
<1>5. ASSUME NEW i \in 1..n
      PROVE  G[i] = IF i = 1 THEN seqs[i] ELSE G[i-1] \o seqs[i]
  <2>1. CASE i = n
    <3>1. n \in 1..n /\ n - 1 \in 1..n /\ n - 1 # n
      BY <1>2, <1>3
    <3>2. G[n - 1] = F[n - 1] /\ G[n] = F[n - 1] \o seqs[n]
      BY <3>1
    <3> HIDE DEF G
    <3> QED BY <1>3, <2>1, <3>2
  <2>2. CASE i # n
    <3>1. i \in 1..(n - 1) /\ G[i] = F[i]
      BY <1>2, <2>2
    <3>2. F[i] = IF i = 1 THEN seqs[i] ELSE F[i-1] \o seqs[i]
      BY <1>4, <3>1 DEF Chain
    <3>3. i # 1 => i - 1 \in 1..n /\ i - 1 # n
      BY <1>2, <3>1
    <3>4. i # 1 => G[i - 1] = F[i - 1]
      BY <3>3
    <3> HIDE DEF G
    <3> QED BY <3>1, <3>2, <3>4
  <2> QED BY <2>1, <2>2
<1>6. Chain(G, seqs, n)
  <2>1. G = [i \in 1..n |-> G[i]]
    OBVIOUS
  <2> HIDE DEF G
  <2> QED BY <1>5, <2>1 DEF Chain
<1> HIDE DEF G
<1> QED BY <1>2, <1>6

\* FlattenSeq joins the sequences one after the other.
LEMMA FlattenChain ==
  ASSUME NEW S, NEW seqs \in Seq(Seq(S)), Len(seqs) # 0
  PROVE  \E F \in [1..Len(seqs) -> Seq(S)] :
           /\ F[1] = seqs[1]
           /\ \A i \in 2..Len(seqs) : F[i] = F[i-1] \o seqs[i]
           /\ FlattenSeq(seqs) = F[Len(seqs)]
<1> DEFINE N == Len(seqs)
           F == CHOOSE f : f = [i \in 1..N |-> IF i = 1 THEN seqs[i] ELSE f[i-1] \o seqs[i]]
           Wrong == {i \in 1..N : F[i] \notin Seq(S)}
<1>1. N \in Nat \ {0} /\ \A i \in 1..N : seqs[i] \in Seq(S)
  OBVIOUS
<1>2. Chain(F, seqs, N)
  <2> HIDE DEF N
  <2>1. \E f : f = [i \in 1..N |-> IF i = 1 THEN seqs[i] ELSE f[i-1] \o seqs[i]]
    BY <1>1, ChainExists DEF Chain
  <2>2. F = [i \in 1..N |-> IF i = 1 THEN seqs[i] ELSE F[i-1] \o seqs[i]]
    BY <2>1, Zenon
  <2> HIDE DEF F
  <2> QED BY <2>2 DEF Chain
<1>3. FlattenSeq(seqs) = F[N]
  BY DEF FlattenSeq
<1> HIDE DEF F, N
<1>4. /\ F = [i \in 1..N |-> F[i]]
      /\ F[1] = seqs[1]
      /\ \A i \in 2..N : F[i] = F[i-1] \o seqs[i]
  <2>1. F = [i \in 1..N |-> F[i]]
    BY <1>2 DEF Chain
  <2>2. \A i \in 1..N : F[i] = IF i = 1 THEN seqs[i] ELSE F[i-1] \o seqs[i]
    BY <1>2 DEF Chain
  <2>3. 1 \in 1..N /\ \A i \in 2..N : i \in 1..N /\ i # 1
    BY <1>1
  <2> QED BY <2>1, <2>2, <2>3
<1>5. Wrong = {}
  <2> SUFFICES ASSUME Wrong # {} PROVE FALSE
    OBVIOUS
  <2>1. PICK i \in Wrong : \A m \in Wrong : i <= m
    <3>1. Wrong \subseteq Nat
      OBVIOUS
    <3> HIDE DEF Wrong
    <3> QED BY <3>1, LeastNumber
  <2>2. i \in 1..N /\ F[i] \notin Seq(S)
    OBVIOUS
  <2>3. i \in 2..N /\ i - 1 \in 1..N /\ ~(i <= i - 1)
    BY <1>1, <1>4, <2>2
  <2>4. i - 1 \notin Wrong
    <3> HIDE DEF Wrong
    <3> QED BY <2>1, <2>3
  <2>5. F[i - 1] \in Seq(S) /\ seqs[i] \in Seq(S)
    BY <1>1, <2>2, <2>3, <2>4
  <2>6. F[i - 1] \o seqs[i] \in Seq(S)
    BY <2>5
  <2> QED BY <1>4, <2>2, <2>3, <2>6
<1>6. F \in [1..N -> Seq(S)]
  BY <1>4, <1>5
<1> QED BY <1>3, <1>4, <1>6 DEF N

\* A sequence after another adds its elements, and no route twice if they have
\* none in common.
LEMMA JoinFacts ==
  ASSUME NEW S, NEW s \in Seq(S), NEW t \in Seq(S)
  PROVE  /\ s \o t \in Seq(S) /\ Range(s \o t) = Range(s) \cup Range(t)
         /\ Distinct(s) /\ Distinct(t)
              /\ (\A x \in Range(s), y \in Range(t) : x.hops # y.hops) => Distinct(s \o t)
<1>1. s \o t \in Seq(S) /\ Range(s \o t) = Range(s) \cup Range(t)
  BY RangeConcatenation
<1>2. ASSUME Distinct(s), Distinct(t), \A x \in Range(s), y \in Range(t) : x.hops # y.hops
      PROVE  Distinct(s \o t)
  <2> SUFFICES ASSUME NEW i \in DOMAIN (s \o t), NEW j \in DOMAIN (s \o t),
                      (s \o t)[i].hops = (s \o t)[j].hops
               PROVE  i = j
    BY DEF Distinct
  <2>1. \A k \in DOMAIN (s \o t) :
          \/ k \in DOMAIN s /\ (s \o t)[k] = s[k]
          \/ k - Len(s) \in DOMAIN t /\ (s \o t)[k] = t[k - Len(s)] /\ k \in Nat
    BY ConcatProperties
  <2>2. CASE i \in DOMAIN s /\ (s \o t)[i] = s[i] /\ j \in DOMAIN s /\ (s \o t)[j] = s[j]
    BY <1>2, <2>2 DEF Distinct
  <2>3. CASE /\ i - Len(s) \in DOMAIN t /\ (s \o t)[i] = t[i - Len(s)] /\ i \in Nat
             /\ j - Len(s) \in DOMAIN t /\ (s \o t)[j] = t[j - Len(s)] /\ j \in Nat
    <3>1. i - Len(s) = j - Len(s)
      BY <1>2, <2>3 DEF Distinct
    <3>2. Len(s) \in Nat
      OBVIOUS
    <3> QED BY <2>3, <3>1, <3>2
  <2>4. ASSUME NEW k \in DOMAIN s, NEW l \in DOMAIN t PROVE s[k].hops # t[l].hops
    <3>1. s[k] \in Range(s) /\ t[l] \in Range(t)
      BY DEF Range
    <3> QED BY <1>2, <3>1
  <2> QED BY <2>1, <2>2, <2>3, <2>4
<1> QED BY <1>1, <1>2

\* One element more, that no route has the hops of.
LEMMA OneMore ==
  ASSUME NEW S, NEW s \in Seq(S), NEW x \in S
  PROVE  /\ s \o <<x>> \in Seq(S) /\ Range(s \o <<x>>) = Range(s) \cup {x}
         /\ Distinct(s) /\ (\A y \in Range(s) : y.hops # x.hops) => Distinct(s \o <<x>>)
<1>1. <<x>> \in Seq(S) /\ Range(<<x>>) = {x} /\ Distinct(<<x>>)
  BY DEF Range, Distinct
<1> QED BY <1>1, JoinFacts

\* Without takes out what is gone and nothing else, and no route gets a twin.
LEMMA WithoutFacts ==
  ASSUME NEW S, NEW s \in Seq(S), NEW gone
  PROVE  /\ Without(s, gone) \in Seq(S)
         /\ Range(Without(s, gone)) = Range(s) \ gone
         /\ Distinct(s) => Distinct(Without(s, gone))
<1> DEFINE n == Len(s)
           parts == [i \in DOMAIN s |-> IF s[i] \in gone THEN <<>> ELSE <<s[i]>>]
           Done(F, i) == /\ Range(F[i]) = {s[j] : j \in 1..i} \ gone
                         /\ Distinct(s) => Distinct(F[i])
<1>1. /\ n \in Nat /\ DOMAIN s = 1..n /\ \A i \in 1..n : s[i] \in S
      /\ parts \in Seq(Seq(S)) /\ Len(parts) = n /\ Without(s, gone) = FlattenSeq(parts)
  <2>1. n \in Nat /\ DOMAIN s = 1..n /\ \A i \in 1..n : s[i] \in S
    OBVIOUS
  <2>2. parts \in [1..n -> Seq(S)]
    BY <2>1
  <2>3. Without(s, gone) = FlattenSeq(parts)
    BY DEF Without
  <2> HIDE DEF parts
  <2>4. parts \in Seq(Seq(S)) /\ Len(parts) = n
    BY <2>1, <2>2
  <2> QED BY <2>1, <2>3, <2>4
<1>2. CASE n = 0
  <2>1. parts = <<>> /\ s = <<>>
    BY <1>1, <1>2
  <2>2. Without(s, gone) = <<>>
    BY <1>1, <2>1 DEF FlattenSeq
  <2>3. Range(<<>>) = {} /\ Distinct(<<>>)
    BY DEF Range, Distinct
  <2> QED BY <2>1, <2>2, <2>3
<1>3. CASE n # 0
  <2>1. PICK F \in [1..n -> Seq(S)] :
          /\ F[1] = parts[1]
          /\ \A i \in 2..n : F[i] = F[i-1] \o parts[i]
          /\ Without(s, gone) = F[n]
    <3> HIDE DEF parts, n
    <3>1. \E F \in [1..Len(parts) -> Seq(S)] :
            /\ F[1] = parts[1]
            /\ \A i \in 2..Len(parts) : F[i] = F[i-1] \o parts[i]
            /\ FlattenSeq(parts) = F[Len(parts)]
      BY <1>1, <1>3, FlattenChain
    <3> QED BY <1>1, <3>1
  <2>2. \A i \in 1..n : parts[i] = IF s[i] \in gone THEN <<>> ELSE <<s[i]>>
    BY <1>1
  <2> HIDE DEF parts, n, Done
  <2> DEFINE Wrong == {i \in 1..n : ~Done(F, i)}
  <2>3. Wrong = {}
    <3> SUFFICES ASSUME Wrong # {} PROVE FALSE
      OBVIOUS
    <3>1. PICK i \in Wrong : \A m \in Wrong : i <= m
      <4>1. Wrong \subseteq Nat
        OBVIOUS
      <4> HIDE DEF Wrong
      <4> QED BY <4>1, LeastNumber
    <3>2. i \in 1..n /\ ~Done(F, i)
      OBVIOUS
    <3>3. CASE i = 1
      <4>1. {s[j] : j \in 1..1} = {s[1]}
        OBVIOUS
      <4>2. Range(F[1]) = {s[1]} \ gone /\ Distinct(F[1])
        <5>1. F[1] = parts[1] /\ 1 \in 1..n
          BY <2>1, <3>2, <3>3
        <5>2. CASE s[1] \in gone
          <6>1. F[1] = <<>>
            BY <2>2, <5>1, <5>2, Zenon
          <6>2. Range(<<>>) = {} /\ Distinct(<<>>)
            BY DEF Range, Distinct
          <6> QED BY <5>2, <6>1, <6>2
        <5>3. CASE s[1] \notin gone
          <6>1. F[1] = <<s[1]>>
            BY <2>2, <5>1, <5>3, Zenon
          <6>2. Range(<<s[1]>>) = {s[1]} /\ Distinct(<<s[1]>>)
            BY DEF Range, Distinct
          <6> QED BY <5>3, <6>1, <6>2
        <5> QED BY <5>2, <5>3
      <4> QED BY <3>2, <3>3, <4>1, <4>2 DEF Done
    <3>4. CASE i # 1
      <4>1. i \in 2..n /\ i - 1 \in 1..n /\ ~(i <= i - 1) /\ 1..i = 1..(i - 1) \cup {i}
        BY <1>1, <3>2, <3>4
      <4>2. i - 1 \notin Wrong
        <5> HIDE DEF Wrong
        <5> QED BY <3>1, <4>1
      <4>3. Done(F, i - 1) /\ F[i - 1] \in Seq(S)
        BY <2>1, <4>1, <4>2
      <4>4. {s[j] : j \in 1..i} = {s[j] : j \in 1..(i - 1)} \cup {s[i]}
        BY <4>1
      <4>5. CASE s[i] \in gone
        <5>1. F[i] = F[i - 1]
          BY <2>1, <2>2, <4>1, <4>3, <4>5, ConcatEmptySeq
        <5> QED BY <3>2, <4>3, <4>4, <4>5, <5>1 DEF Done
      <4>6. CASE s[i] \notin gone
        <5>1. F[i] = F[i - 1] \o <<s[i]>> /\ s[i] \in S
          BY <1>1, <2>1, <2>2, <3>2, <4>1, <4>6
        <5>2. Range(F[i]) = Range(F[i - 1]) \cup {s[i]}
          BY <4>3, <5>1, OneMore
        <5>3. ASSUME Distinct(s) PROVE Distinct(F[i])
          <6>1. \A y \in Range(F[i - 1]) : y.hops # s[i].hops
            <7>1. \A j \in 1..(i - 1) : j \in DOMAIN s /\ i \in DOMAIN s /\ j # i
              BY <1>1, <3>2
            <7>2. \A j \in 1..(i - 1) : s[j].hops # s[i].hops
              BY <5>3, <7>1 DEF Distinct
            <7> QED BY <4>3, <7>2 DEF Done
          <6>2. Distinct(F[i - 1])
            BY <4>3, <5>3 DEF Done
          <6>3. F[i - 1] \in Seq(S) /\ s[i] \in S
            BY <4>3, <5>1
          <6>4. Distinct(F[i - 1] \o <<s[i]>>)
            BY <6>1, <6>2, <6>3, OneMore
          <6> QED BY <5>1, <6>4
        <5> QED BY <3>2, <4>3, <4>4, <4>6, <5>2, <5>3 DEF Done
      <4> QED BY <4>5, <4>6
    <3> QED BY <3>3, <3>4
  <2>4. Done(F, n)
    <3>1. n \in 1..n
      BY <1>1, <1>3
    <3> QED BY <2>3, <3>1
  <2>5. Range(s) = {s[j] : j \in 1..n}
    BY <1>1 DEF Range
  <2>6. F[n] \in Seq(S)
    BY <1>1, <1>3, <2>1
  <2> QED BY <2>1, <2>4, <2>5, <2>6 DEF Done
<1> QED BY <1>2, <1>3

\* A part of a sequence has some of its elements, and none of them twice.
LEMMA PartFacts ==
  ASSUME NEW S, NEW s \in Seq(S), NEW m \in Nat \ {0}, NEW n \in Nat, n <= Len(s)
  PROVE  /\ SubSeq(s, m, n) \in Seq(S)
         /\ \A x \in Range(SubSeq(s, m, n)) : \E i \in DOMAIN s : i \in m..n /\ x = s[i]
         /\ Distinct(s) => Distinct(SubSeq(s, m, n))
<1> DEFINE t == SubSeq(s, m, n)
<1>1. Len(s) \in Nat /\ DOMAIN s = 1..Len(s) /\ \A i \in m..n : s[i] \in S /\ i \in DOMAIN s
  OBVIOUS
<1>2. /\ t \in Seq(S)
      /\ Len(t) = IF m <= n THEN n - m + 1 ELSE 0
      /\ \A i \in 1..(n - m + 1) : t[i] = s[m + i - 1]
  BY <1>1, SubSeqProperties
<1> HIDE DEF t
<1>3. \A i \in DOMAIN t : m + i - 1 \in m..n /\ t[i] = s[m + i - 1] /\ i \in Nat
  <2>1. DOMAIN t = 1..Len(t)
    BY <1>2
  <2> QED BY <1>2, <2>1
<1>4. \A x \in Range(t) : \E i \in DOMAIN s : i \in m..n /\ x = s[i]
  BY <1>1, <1>3 DEF Range
<1>5. ASSUME Distinct(s) PROVE Distinct(t)
  <2> SUFFICES ASSUME NEW i \in DOMAIN t, NEW j \in DOMAIN t, t[i].hops = t[j].hops
               PROVE  i = j
    BY DEF Distinct
  <2>1. m + i - 1 = m + j - 1
    BY <1>1, <1>3, <1>5 DEF Distinct
  <2> QED BY <1>3, <2>1
<1> QED BY <1>2, <1>4, <1>5 DEF t

(***************************************************************************)
(* Type correctness                                                        *)
(***************************************************************************)

RouteSet == [hops : Seq(Ids), hashes : Paths]

\* A pass of ReconfirmRoutes takes routes away and puts others last, and makes
\* no route of them.
LEMMA ReconfirmedFacts ==
  ASSUME routes \in Seq(RouteSet), Distinct(routes)
  PROVE  /\ Reconfirmed \in Seq(RouteSet) /\ Distinct(Reconfirmed)
         /\ Range(Reconfirmed) \subseteq Range(routes)
<1> DEFINE B == BatchSize
           front == SubSeq(routes, 1, B)
           rest  == SubSeq(routes, B + 1, Len(routes))
           dead  == {r \in Range(routes) : Dead(r)}
           kept  == Without(front, dead)
<1>1. B \in Nat /\ B <= Len(routes) /\ B + 1 \in Nat \ {0} /\ 1 \in Nat \ {0} /\ Len(routes) \in Nat
  BY RoutesAssumption DEF BatchSize
<1> HIDE DEF B
<1>2. /\ front \in Seq(RouteSet) /\ Distinct(front)
      /\ \A x \in Range(front) : \E i \in DOMAIN routes : i \in 1..B /\ x = routes[i]
  BY <1>1, PartFacts
<1>3. /\ rest \in Seq(RouteSet) /\ Distinct(rest)
      /\ \A x \in Range(rest) : \E i \in DOMAIN routes : i \in (B + 1)..Len(routes) /\ x = routes[i]
  BY <1>1, PartFacts
<1> HIDE DEF front, rest, dead
<1>4. kept \in Seq(RouteSet) /\ Distinct(kept) /\ Range(kept) \subseteq Range(front)
  BY <1>2, WithoutFacts
<1> HIDE DEF kept
<1>5. ASSUME NEW x \in Range(rest), NEW y \in Range(kept) PROVE x.hops # y.hops
  <2>1. PICK i \in DOMAIN routes : i \in (B + 1)..Len(routes) /\ x = routes[i]
    BY <1>3
  <2>2. PICK j \in DOMAIN routes : j \in 1..B /\ y = routes[j]
    BY <1>2, <1>4
  <2>3. i # j
    BY <1>1, <2>1, <2>2
  <2> QED BY <2>1, <2>2, <2>3 DEF Distinct
<1>6. Reconfirmed = rest \o kept
  BY DEF Reconfirmed, Survivors, rest, kept, front, dead, B
<1>7. /\ rest \o kept \in Seq(RouteSet) /\ Distinct(rest \o kept)
      /\ Range(rest \o kept) = Range(rest) \cup Range(kept)
  BY <1>3, <1>4, <1>5, JoinFacts
<1>8. Range(rest) \cup Range(kept) \subseteq Range(routes)
  BY <1>2, <1>3, <1>4 DEF Range
<1> QED BY <1>6, <1>7, <1>8

\* UpsertKnownRoute adds at most the one route, and only if it is new.
LEMMA UpsertedFacts ==
  ASSUME routes \in Seq(RouteSet), Distinct(routes),
         NEW hops \in Seq(Ids), NEW hashes \in Paths
  PROVE  /\ Upserted(hops, hashes) \in Seq(RouteSet) /\ Distinct(Upserted(hops, hashes))
         /\ Range(Upserted(hops, hashes)) \subseteq
               Range(routes) \cup {[hops |-> hops, hashes |-> hashes]}
<1>1. CASE \E r \in Range(routes) : r.hops = hops
  BY <1>1 DEF Upserted
<1>2. CASE ~ \E r \in Range(routes) : r.hops = hops
  <2> DEFINE new == [hops |-> hops, hashes |-> hashes]
  <2>1. new \in RouteSet /\ new.hops = hops
    BY DEF RouteSet
  <2>2. Upserted(hops, hashes) = Append(routes, new)
    BY <1>2 DEF Upserted
  <2> HIDE DEF new
  <2>3. Append(routes, new) = routes \o <<new>>
    BY <2>1, AppendIsConcat
  <2>4. /\ routes \o <<new>> \in Seq(RouteSet) /\ Distinct(routes \o <<new>>)
        /\ Range(routes \o <<new>>) = Range(routes) \cup {new}
    BY <1>2, <2>1, OneMore
  <2> QED BY <2>2, <2>3, <2>4 DEF new
<1> QED BY <1>1, <1>2

\* What a worker goes on to is its own.
LEMMA GoesFacts ==
  ASSUME NEW w \in Workers, NEW to, DOMAIN worker = Workers, Goes(w, to)
  PROVE  /\ DOMAIN worker' = Workers /\ worker'[w] = to
         /\ \A v \in Workers : v # w => worker'[v] = worker[v]
BY DEF Goes

\* What a step makes of the routes: they keep their type, and each was stored
\* before or is the one a worker had in hand.
LEMMA RoutesStep ==
  ASSUME IInv, [Next]_vars
  PROVE  /\ routes' \in Seq(RouteSet) /\ Distinct(routes')
         /\ \A r \in Range(routes') :
              \/ r \in Range(routes)
              \/ \E w \in Workers : worker[w].step = "store" /\ r.hops = worker[w].hops
<1>1. routes \in Seq(RouteSet) /\ Distinct(routes)
  BY DEF IInv, TypeOK, RouteSet
<1>2. CASE UNCHANGED routes
  BY <1>1, <1>2
<1>3. ASSUME NEW w \in Workers, StoreRoute(w), routes' # routes
      PROVE  /\ routes' \in Seq(RouteSet) /\ Distinct(routes')
             /\ \A r \in Range(routes') :
                  r \in Range(routes) \/ (worker[w].step = "store" /\ r.hops = worker[w].hops)
  <2>1. worker[w].step = "store" /\ routes' = Upserted(worker[w].hops, worker[w].hashes)
    BY <1>3 DEF StoreRoute
  <2>2. worker[w].hops \in Seq(Ids) /\ worker[w].hashes \in Paths
    BY <2>1 DEF IInv, InHand
  <2> DEFINE new == [hops |-> worker[w].hops, hashes |-> worker[w].hashes]
  <2>3. /\ routes' \in Seq(RouteSet) /\ Distinct(routes')
        /\ Range(routes') \subseteq Range(routes) \cup {new}
    BY <1>1, <2>1, <2>2, UpsertedFacts
  <2>4. new.hops = worker[w].hops
    OBVIOUS
  <2> HIDE DEF new
  <2> QED BY <2>1, <2>3, <2>4
<1>4. CASE Expire
  <2>1. CASE \E old \in SUBSET Range(routes) : routes' = Without(routes, old)
    BY <1>1, <2>1, WithoutFacts
  <2> QED BY <1>2, <1>4, <2>1 DEF Expire
<1>5. CASE ReconfirmRoutes
  <2>1. CASE routes' = Reconfirmed
    BY <1>1, <2>1, ReconfirmedFacts
  <2> QED BY <1>2, <1>5, <2>1 DEF ReconfirmRoutes
<1>6. CASE PassBegins \/ ReconfirmNeighbors \/ DeleteOldNodes \/ Restart
  BY <1>2, <1>6 DEF PassBegins, ReconfirmNeighbors, DeleteOldNodes, Restart
<1>7. ASSUME NEW w \in Workers,
             \/ Neighbor(w) \/ Link(w) \/ List(w)
             \/ \E path \in Paths : Packet(w, path)
             \/ \E report \in Reports : Report(w, report[1], report[2])
             \/ \E k \in Keys, via \in Vias, isInfra \in BOOLEAN : Advert(w, k, isInfra, via)
      PROVE  UNCHANGED routes
  BY <1>7 DEF Neighbor, Link, List, Packet, Report, Advert
<1>8. CASE UNCHANGED vars
  BY <1>2, <1>8 DEF vars
<1> QED BY <1>2, <1>3, <1>4, <1>5, <1>6, <1>7, <1>8 DEF Next, Task, Handle

\* What a step makes of the nodes: one gets a row, with an id it never had, one
\* its short id, or some are deleted that no advert in hand is of.
LEMMA NodeStep ==
  ASSUME IInv, [Next]_vars
  PROVE  \/ UNCHANGED <<nodes, row, listed>>
         \/ \E k \in Keys \ nodes :
              /\ row[k] < MaxRows /\ nodes' = nodes \cup {k}
              /\ row' = [row EXCEPT ![k] = @ + 1] /\ listed' = listed
         \/ \E k \in nodes : UNCHANGED <<nodes, row>> /\ listed' = listed \cup {k}
         \/ \E gone \in SUBSET nodes :
              /\ nodes' = nodes \ gone /\ listed' = listed \ gone
              /\ UNCHANGED <<row, worker>>
              /\ edges' = {e \in edges : e[1] \notin gone /\ e[2] \notin gone}
              /\ \A w \in Workers : Introduces(w) => worker[w].self.key \notin gone
<1>1. CASE Task \/ Restart
  BY <1>1 DEF Task, PassBegins, Expire, ReconfirmRoutes, ReconfirmNeighbors, Restart, node
<1>2. CASE DeleteOldNodes
  BY <1>2 DEF DeleteOldNodes
<1>3. ASSUME NEW w \in Workers, List(w)
      PROVE  \/ UNCHANGED <<nodes, row, listed>>
             \/ \E k \in nodes : UNCHANGED <<nodes, row>> /\ listed' = listed \cup {k}
  <2>1. CASE listed' = listed \cup {worker[w].self.key}
    <3>1. Introduces(w)
      BY <1>3 DEF List, Introduces
    <3>2. worker[w].self.key \in nodes
      BY <3>1 DEF IInv, InHand
    <3> QED BY <1>3, <2>1, <3>2 DEF List
  <2> QED BY <1>3, <2>1 DEF List
<1>4. ASSUME NEW w \in Workers, NEW k \in Keys, NEW isInfra, NEW via, Advert(w, k, isInfra, via)
      PROVE  \/ UNCHANGED <<nodes, row, listed>>
             \/ /\ k \notin nodes /\ row[k] < MaxRows /\ nodes' = nodes \cup {k}
                /\ row' = [row EXCEPT ![k] = @ + 1] /\ listed' = listed
  BY <1>4 DEF Advert
<1>5. ASSUME NEW w \in Workers,
             \/ Neighbor(w) \/ Link(w) \/ StoreRoute(w)
             \/ \E path \in Paths : Packet(w, path)
             \/ \E report \in Reports : Report(w, report[1], report[2])
      PROVE  UNCHANGED <<nodes, row, listed>>
  BY <1>5 DEF Neighbor, Link, StoreRoute, Packet, Report, node
<1>6. CASE UNCHANGED vars
  BY <1>6 DEF vars
<1> QED BY <1>1, <1>2, <1>3, <1>4, <1>5, <1>6 DEF Next, Handle

\* A prefix that is of one node has that node.
LEMMA UniqueHasNode ==
  ASSUME NEW h, Unique(h)
  PROVE  (CHOOSE k \in Resolve(h) : TRUE) \in Resolve(h)
<1>1. Resolve(h) # {}
  BY FS_EmptySet DEF Unique
<1> QED BY <1>1

\* A node that has its short id has an id.
LEMMA ListedId ==
  ASSUME IInv, NEW k \in listed
  PROVE  Id(k) \in Ids /\ Listed(Id(k)) /\ Id(k).row = row[Id(k).key]
<1>1. k \in Keys /\ row[k] \in 1..MaxRows
  BY RoutesAssumption DEF IInv, TypeOK, Given
<1> QED BY <1>1 DEF Id, Ids, Listed

\* The path of a packet is resolved to nodes with a short id.
LEMMA PacketFacts ==
  ASSUME IInv, NEW w \in Workers, NEW path \in Paths, Packet(w, path)
  PROVE  /\ worker'[w].step = "store" /\ worker'[w].hashes \in Paths
         /\ worker'[w].hops \in Seq(Ids)
         /\ \A id \in Hops(worker'[w]) : Listed(id) /\ id.row = row[id.key]
<1> DEFINE hops == [i \in 1..Len(path) |-> Id(CHOOSE k \in Resolve(path[i]) : TRUE)]
<1>1. Len(path) \in Nat
  BY RoutesAssumption
<1>2. ASSUME NEW i \in 1..Len(path)
      PROVE  hops[i] \in Ids /\ Listed(hops[i]) /\ hops[i].row = row[hops[i].key]
  <2>1. (CHOOSE k \in Resolve(path[i]) : TRUE) \in listed
    BY UniqueHasNode DEF Packet, Resolve
  <2> QED BY <2>1, ListedId
<1>3. worker'[w] = [step |-> "store", hashes |-> path, hops |-> hops]
  BY GoesFacts DEF Packet, IInv, TypeOK
<1>4. hops = [i \in 1..Len(path) |-> hops[i]]
  OBVIOUS
<1> HIDE DEF hops
<1>5. hops \in Seq(Ids) /\ DOMAIN hops = 1..Len(path)
  BY <1>1, <1>2, <1>4
<1>6. \A id \in Range(hops) : Listed(id) /\ id.row = row[id.key]
  BY <1>2, <1>5 DEF Range
<1> QED BY <1>3, <1>5, <1>6 DEF Hops

\* What a step makes of the workers: one that is about to store a route was so
\* before or has just resolved it, and one with an advert in hand had it before
\* or has just stored its node.
LEMMA WorkerStep ==
  ASSUME IInv, [Next]_vars
  PROVE  /\ DOMAIN worker' = Workers
         /\ \A w \in Workers :
              /\ worker'[w].step \in {"idle", "neighbor", "link", "list", "store"}
              /\ worker'[w].step = "store" =>
                   worker'[w] = worker[w] \/ \E path \in Paths : Packet(w, path)
              /\ Introduces(w)' =>
                   \/ Introduces(w) /\ worker'[w].self = worker[w].self
                   \/ worker'[w].self.key \in nodes'
<1> DEFINE P(w) == /\ worker'[w].step \in {"idle", "neighbor", "link", "list", "store"}
                   /\ worker'[w].step = "store" =>
                        worker'[w] = worker[w] \/ \E path \in Paths : Packet(w, path)
                   /\ Introduces(w)' =>
                        \/ Introduces(w) /\ worker'[w].self = worker[w].self
                        \/ worker'[w].self.key \in nodes'
           Q == DOMAIN worker' = Workers /\ \A w \in Workers : P(w)
<1> SUFFICES Q
  OBVIOUS
<1>1. DOMAIN worker = Workers
  BY DEF IInv, TypeOK
<1>2. ASSUME NEW w \in Workers, worker'[w] = worker[w] PROVE P(w)
  BY <1>2 DEF IInv, TypeOK, Introduces
<1>3. ASSUME NEW w \in Workers, NEW to, Goes(w, to), P(w)
      PROVE  Q
  <2>1. \A v \in Workers : v # w => worker'[v] = worker[v]
    BY <1>1, <1>3, GoesFacts
  <2> HIDE DEF P
  <2> QED BY <1>1, <1>2, <1>3, <2>1, GoesFacts
<1>4. ASSUME UNCHANGED worker
      PROVE  Q
  <2> HIDE DEF P
  <2> QED BY <1>1, <1>2, <1>4
<1> HIDE DEF P
<1>5. CASE Task \/ DeleteOldNodes
  <2>1. UNCHANGED worker
    BY <1>5 DEF Task, PassBegins, Expire, ReconfirmRoutes, ReconfirmNeighbors, DeleteOldNodes
  <2> QED BY <1>4, <2>1
<1>6. CASE Restart
  <2>1. DOMAIN worker' = Workers /\ \A v \in Workers : worker'[v] = Free
    BY <1>6 DEF Restart
  <2>2. ASSUME NEW v \in Workers PROVE P(v)
    <3>1. worker'[v].step = "idle"
      BY <2>1 DEF Free
    <3> QED BY <3>1 DEF P, Introduces
  <2> QED BY <2>1, <2>2
<1>7. ASSUME NEW w \in Workers, NEW path \in Paths, Packet(w, path)
      PROVE  Q
  <2>1. worker'[w].step = "store"
    BY <1>7, PacketFacts
  <2>2. P(w)
    BY <1>7, <2>1 DEF P, Introduces
  <2> QED BY <1>3, <1>7, <2>2 DEF Packet
<1>8. ASSUME NEW w \in Workers, StoreRoute(w)
      PROVE  Q
  <2>1. worker'[w] = Free
    BY <1>1, <1>8, GoesFacts DEF StoreRoute
  <2>2. P(w)
    BY <2>1 DEF P, Free, Introduces
  <2> QED BY <1>3, <1>8, <2>2 DEF StoreRoute
<1>9. ASSUME NEW w \in Workers, List(w)
      PROVE  Q
  <2>1. worker'[w] = Free
    BY <1>1, <1>9, GoesFacts DEF List
  <2>2. P(w)
    BY <2>1 DEF P, Free, Introduces
  <2> QED BY <1>3, <1>9, <2>2 DEF List
<1>10. ASSUME NEW w \in Workers, NEW k \in Keys, NEW isInfra, NEW via, Advert(w, k, isInfra, via)
       PROVE  Q
  <2> DEFINE to == IF isInfra THEN [step |-> "neighbor", self |-> Id(k)', via |-> via]
                              ELSE [step |-> "list", self |-> Id(k)']
  <2>1. Goes(w, to) /\ k \in nodes'
    BY <1>10 DEF Advert
  <2>2. to.step \in {"neighbor", "list"} /\ to.self.key = k
    BY DEF Id
  <2> HIDE DEF to
  <2>3. worker'[w] = to
    BY <1>1, <2>1, GoesFacts
  <2>4. P(w)
    BY <2>1, <2>2, <2>3 DEF P
  <2> QED BY <1>3, <2>1, <2>4
<1>11. ASSUME NEW w \in Workers, Neighbor(w)
       PROVE  Q
  <2>1. PICK to : Goes(w, to) /\ to.step \in {"link", "list"} /\ to.self = worker[w].self
    BY <1>11 DEF Neighbor
  <2>2. worker'[w] = to /\ Introduces(w)
    BY <1>1, <1>11, <2>1, GoesFacts DEF Neighbor, Introduces
  <2>3. P(w)
    BY <2>1, <2>2 DEF P
  <2> QED BY <1>3, <2>1, <2>3
<1>12. ASSUME NEW w \in Workers, NEW a, NEW b, Report(w, a, b)
       PROVE  Q
  <2> DEFINE to == [step |-> "link", self |-> Id(a), pair |-> <<Id(a), Id(b)>>, last |-> TRUE]
  <2>1. Goes(w, to)
    BY <1>12 DEF Report
  <2>2. to.step = "link" /\ to.self.key = a /\ a \in nodes'
    BY <1>12 DEF Id, Report, node
  <2> HIDE DEF to
  <2>3. worker'[w] = to
    BY <1>1, <2>1, GoesFacts
  <2>4. P(w)
    BY <2>2, <2>3 DEF P
  <2> QED BY <1>3, <2>1, <2>4
<1>13. ASSUME NEW w \in Workers, Link(w)
       PROVE  Q
  <2>1. CASE "last" \in DOMAIN worker[w]
    <3>1. Goes(w, Free)
      BY <1>13, <2>1 DEF Link
    <3>2. worker'[w] = Free
      BY <1>1, <3>1, GoesFacts
    <3>3. P(w)
      BY <3>2 DEF P, Free, Introduces
    <3> QED BY <1>3, <3>1, <3>3
  <2>2. CASE "last" \notin DOMAIN worker[w]
    <3>1. Goes(w, [step |-> "list", self |-> worker[w].self]) /\ Introduces(w)
      BY <1>13, <2>2 DEF Link, Introduces
    <3>2. worker'[w] = [step |-> "list", self |-> worker[w].self]
      BY <1>1, <3>1, GoesFacts
    <3>3. P(w)
      BY <3>1, <3>2 DEF P
    <3> QED BY <1>3, <3>1, <3>3
  <2> QED BY <2>1, <2>2
<1>14. CASE UNCHANGED vars
  BY <1>4, <1>14 DEF vars
<1>15. Q
  <2> HIDE DEF P
  <2>1. ASSUME NEW w \in Workers,
               \/ Handle(w)
               \/ \E path \in Paths : Packet(w, path)
               \/ \E report \in Reports : Report(w, report[1], report[2])
               \/ \E k \in Keys, via \in Vias, isInfra \in BOOLEAN :
                    isInfra \in Types[k] /\ Advert(w, k, isInfra, via)
        PROVE  Q
    <3>1. CASE Handle(w)
      BY <1>8, <1>9, <1>11, <1>13, <3>1 DEF Handle
    <3>2. CASE \E path \in Paths : Packet(w, path)
      BY <1>7, <3>2
    <3>3. CASE \E report \in Reports : Report(w, report[1], report[2])
      BY <1>12, <3>3
    <3>4. CASE \E k \in Keys, via \in Vias, isInfra \in BOOLEAN :
                 isInfra \in Types[k] /\ Advert(w, k, isInfra, via)
      BY <1>10, <3>4
    <3> QED BY <2>1, <3>1, <3>2, <3>3, <3>4
  <2> HIDE DEF Q
  <2> QED BY <1>5, <1>6, <1>14, <2>1 DEF Next
<1> QED BY <1>15

\* Edges are of nodes there are: a new one by its foreign keys, an old one by
\* the cascade.
LEMMA NextEdges ==
  ASSUME IInv, [Next]_vars
  PROVE  edges' \subseteq nodes' \X nodes'
<1>1. edges \subseteq nodes \X nodes
  BY DEF IInv, TypeOK
<1>2. CASE DeleteOldNodes
  BY <1>1, <1>2 DEF DeleteOldNodes
<1>3. CASE nodes \subseteq nodes' /\ edges' \subseteq edges
  BY <1>1, <1>3
<1>4. ASSUME NEW w \in Workers, Link(w) PROVE edges' \subseteq nodes' \X nodes'
  <2>1. nodes' = nodes
    BY <1>4 DEF Link, node
  <2>2. CASE /\ Alive(worker[w].pair[1]) /\ Alive(worker[w].pair[2])
             /\ edges' = edges \cup {<<worker[w].pair[1].key, worker[w].pair[2].key>>}
    BY <1>1, <2>1, <2>2 DEF Alive
  <2> QED BY <1>1, <1>4, <2>1, <2>2 DEF Link
<1>5. ASSUME NEW w \in Workers, Neighbor(w) \/ List(w) \/ StoreRoute(w)
      PROVE  nodes \subseteq nodes' /\ edges' \subseteq edges
  BY <1>5 DEF Neighbor, List, StoreRoute, node
<1>6. ASSUME NEW w \in Workers,
             \/ \E path \in Paths : Packet(w, path)
             \/ \E report \in Reports : Report(w, report[1], report[2])
             \/ \E k \in Keys, via \in Vias, isInfra \in BOOLEAN : Advert(w, k, isInfra, via)
      PROVE  nodes \subseteq nodes' /\ edges' \subseteq edges
  BY <1>6 DEF Packet, Report, Advert, node
<1>7. ASSUME Task \/ Restart PROVE nodes \subseteq nodes' /\ edges' \subseteq edges
  BY <1>7 DEF Task, PassBegins, Expire, ReconfirmRoutes, ReconfirmNeighbors, Restart, node
<1>8. ASSUME UNCHANGED vars PROVE nodes \subseteq nodes' /\ edges' \subseteq edges
  BY <1>8 DEF vars
<1> QED BY <1>2, <1>3, <1>4, <1>5, <1>6, <1>7, <1>8 DEF Next, Handle

\* The node types, the place of the task and the bound keep their types.
LEMMA NextRest ==
  ASSUME IInv, [Next]_vars
  PROVE  infra' \in [Keys -> BOOLEAN] /\ pass' \in 0..3 /\ failures' \in 0..MaxFailures
<1> USE RoutesAssumption DEF IInv, TypeOK
<1>1. CASE Task
  BY <1>1
  DEF Task, PassBegins, Expire, ReconfirmRoutes, ReconfirmNeighbors, Then, Ok, Failure, node
<1>2. CASE DeleteOldNodes \/ Restart
  BY <1>2 DEF DeleteOldNodes, Restart, Failure, node
<1>3. ASSUME NEW w \in Workers, Handle(w)
      PROVE  infra' = infra /\ pass' = pass /\ failures' \in 0..MaxFailures
  BY <1>3 DEF Handle, Neighbor, Link, List, StoreRoute, Ok, Failure, node
<1>4. ASSUME NEW w \in Workers,
             \/ \E path \in Paths : Packet(w, path)
             \/ \E report \in Reports : Report(w, report[1], report[2])
      PROVE  UNCHANGED <<infra, pass, failures>>
  BY <1>4 DEF Packet, Report, node
<1>5. ASSUME NEW w \in Workers, NEW k \in Keys, NEW via, NEW isInfra \in BOOLEAN,
             Advert(w, k, isInfra, via)
      PROVE  infra' \in [Keys -> BOOLEAN] /\ UNCHANGED <<pass, failures>>
  BY <1>5 DEF Advert
<1>6. CASE UNCHANGED vars
  BY <1>6 DEF vars
<1> QED BY <1>1, <1>2, <1>3, <1>4, <1>5, <1>6 DEF Next

LEMMA InitTypeOK == ASSUME Init PROVE TypeOK
<1> USE RoutesAssumption DEF Init
<1>1. routes \in Seq([hops : Seq(Ids), hashes : Paths]) /\ Distinct(routes)
  BY DEF Distinct
<1>2. DOMAIN worker = Workers /\ \A w \in Workers : worker[w].step = "idle"
  BY DEF Free
<1> QED BY <1>1, <1>2 DEF TypeOK

LEMMA NextTypeOK == ASSUME IInv, [Next]_vars PROVE TypeOK'
<1>1. nodes' \subseteq Keys /\ row' \in [Keys -> 0..MaxRows] /\ listed' \subseteq nodes'
  <2>1. nodes \subseteq Keys /\ row \in [Keys -> 0..MaxRows] /\ listed \subseteq nodes
    BY DEF IInv, TypeOK
  <2>2. ASSUME NEW k \in Keys, row[k] < MaxRows PROVE row[k] + 1 \in 0..MaxRows
    BY <2>1, <2>2, RoutesAssumption
  <2> QED BY <2>1, <2>2, NodeStep
<1>2. routes' \in Seq(RouteSet) /\ Distinct(routes)'
  BY RoutesStep DEF Distinct
<1> QED BY <1>1, <1>2, NextEdges, NextRest, WorkerStep DEF TypeOK, RouteSet, Ids

(***************************************************************************)
(* What is remembered of nodes                                             *)
(***************************************************************************)

\* An id that was given out, and is of a node with its short id or of none,
\* stays so: a node gets its short id and its row together with none but the
\* first, and another row has another id.
LEMMA IdKept ==
  ASSUME IInv, [Next]_vars, NEW id \in Ids,
         id.row <= row[id.key], Alive(id) => Listed(id)
  PROVE  id.row <= row'[id.key] /\ (Alive(id)' => Listed(id)')
<1> USE DEF Alive, Listed
<1>1. id.key \in Keys /\ id.row \in Nat /\ row \in [Keys -> 0..MaxRows]
  BY DEF Ids, IInv, TypeOK
<1>2. CASE UNCHANGED <<nodes, row, listed>>
  BY <1>2
<1>3. ASSUME NEW k \in Keys \ nodes, nodes' = nodes \cup {k}, listed' = listed,
             row' = [row EXCEPT ![k] = @ + 1]
      PROVE  id.row <= row'[id.key] /\ (Alive(id)' => Listed(id)')
  <2>1. CASE id.key = k
    <3>1. row'[id.key] = row[id.key] + 1
      BY <1>1, <1>3, <2>1
    <3> QED BY <1>1, <3>1, RoutesAssumption
  <2>2. CASE id.key # k
    BY <1>1, <1>3, <2>2
  <2> QED BY <2>1, <2>2
<1>4. ASSUME NEW k \in nodes, UNCHANGED <<nodes, row>>, listed' = listed \cup {k}
      PROVE  id.row <= row'[id.key] /\ (Alive(id)' => Listed(id)')
  BY <1>4
<1>5. ASSUME NEW gone, nodes' = nodes \ gone, listed' = listed \ gone, row' = row
      PROVE  id.row <= row'[id.key] /\ (Alive(id)' => Listed(id)')
  BY <1>5
<1> QED BY <1>2, <1>3, <1>4, <1>5, NodeStep

\* What a route to store is known to be of.
Sound(id) == id.row <= row[id.key] /\ (Alive(id) => Listed(id))

LEMMA NextInHand == ASSUME IInv, [Next]_vars PROVE InHand'
<1>1. ASSUME NEW w \in Workers, worker'[w].step = "store"
      PROVE  worker'[w].hops \in Seq(Ids) /\ worker'[w].hashes \in Paths
  <2>1. CASE worker'[w] = worker[w]
    BY <1>1, <2>1 DEF IInv, InHand
  <2>2. ASSUME NEW path \in Paths, Packet(w, path)
        PROVE  worker'[w].hops \in Seq(Ids) /\ worker'[w].hashes \in Paths
    BY <2>2, PacketFacts
  <2> QED BY <1>1, <2>1, <2>2, WorkerStep
<1>2. ASSUME NEW w \in Workers, Introduces(w)' PROVE worker'[w].self.key \in nodes'
  <2>1. CASE Introduces(w) /\ worker'[w].self = worker[w].self
    <3>1. worker[w].self.key \in nodes
      BY <2>1 DEF IInv, InHand
    <3> QED BY <2>1, <3>1, NodeStep
  <2> QED BY <1>2, <2>1, WorkerStep
<1> QED BY <1>1, <1>2 DEF InHand

\* The ids in the routes and in hand are sound, and a node of which there is one
\* has a row.
LEMMA SoundAll ==
  ASSUME IInv
  PROVE  /\ \A r \in Range(routes) : \A id \in Hops(r) : id \in Ids /\ Sound(id)
         /\ \A w \in Workers : worker[w].step = "store" =>
              \A id \in Hops(worker[w]) : id \in Ids /\ Sound(id)
<1>1. ASSUME NEW r \in Range(routes), NEW id \in Hops(r) PROVE id \in Ids
  <2>1. r \in RouteSet
    BY RangeOfSeq DEF IInv, TypeOK, RouteSet
  <2>2. r.hops \in Seq(Ids)
    BY <2>1 DEF RouteSet
  <2> QED BY <2>2, RangeOfSeq DEF Hops
<1>2. ASSUME NEW w \in Workers, worker[w].step = "store", NEW id \in Hops(worker[w])
      PROVE  id \in Ids
  <2>1. worker[w].hops \in Seq(Ids)
    BY <1>2 DEF IInv, InHand
  <2> QED BY <2>1, RangeOfSeq DEF Hops
<1> QED BY <1>1, <1>2 DEF IInv, Given, HopsKnown, Sound

LEMMA NextSound ==
  ASSUME IInv, [Next]_vars
  PROVE  /\ \A r \in Range(routes') : \A id \in Hops(r) : Sound(id)'
         /\ \A w \in Workers : worker'[w].step = "store" =>
              \A id \in Hops(worker'[w]) : Sound(id)'
<1>1. ASSUME NEW id \in Ids, Sound(id) PROVE Sound(id)'
  BY <1>1, IdKept DEF Sound
<1>2. ASSUME NEW r \in Range(routes'), NEW id \in Hops(r) PROVE Sound(id)'
  <2>1. CASE r \in Range(routes)
    BY <1>1, <1>2, <2>1, SoundAll
  <2>2. ASSUME NEW w \in Workers, worker[w].step = "store", r.hops = worker[w].hops
        PROVE  Sound(id)'
    <3>1. id \in Hops(worker[w])
      BY <1>2, <2>2 DEF Hops
    <3> QED BY <1>1, <2>2, <3>1, SoundAll
  <2> QED BY <1>2, <2>1, <2>2, RoutesStep
<1>3. ASSUME NEW w \in Workers, worker'[w].step = "store", NEW id \in Hops(worker'[w])
      PROVE  Sound(id)'
  <2>1. CASE worker'[w] = worker[w]
    BY <1>1, <1>3, <2>1, SoundAll
  <2>2. ASSUME NEW path \in Paths, Packet(w, path) PROVE Sound(id)'
    <3>1. Listed(id) /\ id.row = row[id.key] /\ id \in Ids
      BY <1>3, <2>2, PacketFacts, RangeOfSeq DEF Hops
    <3>2. id.row \in Nat
      BY <3>1 DEF Ids
    <3>3. Sound(id)
      BY <3>1, <3>2 DEF Sound
    <3> QED BY <1>1, <3>1, <3>3
  <2> QED BY <1>3, <2>1, <2>2, WorkerStep
<1> QED BY <1>2, <1>3

LEMMA NextRows == ASSUME IInv, [Next]_vars PROVE (\A k \in nodes : row[k] > 0)'
<1>1. nodes \subseteq Keys /\ row \in [Keys -> 0..MaxRows] /\ \A k \in nodes : row[k] > 0
  BY DEF IInv, TypeOK, Given
<1>2. CASE nodes' \subseteq nodes /\ row' = row
  BY <1>1, <1>2
<1>3. ASSUME NEW k \in Keys \ nodes, nodes' = nodes \cup {k}, row' = [row EXCEPT ![k] = @ + 1]
      PROVE  \A n \in nodes' : row'[n] > 0
  BY <1>1, <1>3, RoutesAssumption
<1> QED BY <1>2, <1>3, NodeStep

LEMMA InitIInv == ASSUME Init PROVE IInv
<1>1. TypeOK
  BY InitTypeOK
<1>2. Range(routes) = {} /\ \A w \in Workers : worker[w].step = "idle"
  BY DEF Init, Free, Range
<1>3. \A k \in nodes : row[k] > 0
  BY RoutesAssumption DEF Init
<1> QED BY <1>1, <1>2, <1>3 DEF IInv, InHand, Introduces, Given, HopsKnown

LEMMA NextIInv == ASSUME IInv, [Next]_vars PROVE IInv'
<1>1. Given' /\ HopsKnown'
  BY NextSound, NextRows DEF Given, HopsKnown, Sound, Hops
<1> QED BY <1>1, NextTypeOK, NextInHand DEF IInv

LEMMA Invariance == Spec => []IInv
BY InitIInv, NextIInv, PTL DEF Spec

\* Short ids and edges are only ever of nodes there are, no path has two routes,
\* and the ids of a route are ids that were given out.
THEOREM TypeCorrect == Spec => []TypeOK
<1>1. IInv => TypeOK
  BY DEF IInv
<1> QED BY <1>1, Invariance, PTL

\* Whatever is deleted, stored again and resolved meanwhile, a route leads over
\* nodes that have their short ids or are gone.
THEOREM LeadsOverKnownNodes == Spec => []HopsKnown
<1>1. IInv => HopsKnown
  BY DEF IInv
<1> QED BY <1>1, Invariance, PTL
=============================================================================
