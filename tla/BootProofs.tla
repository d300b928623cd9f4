----------------------------- MODULE BootProofs -----------------------------
(***************************************************************************)
(* The invariants of the migrations and of Seed in Boot, for any number of *)
(* files, any choice of the repeatable ones, any config files and any      *)
(* number of crashes and redeployments.                                    *)
(***************************************************************************)
EXTENDS Boot, SequenceTheorems, FiniteSetTheorems, WellFoundedInduction, TLAPS

(***************************************************************************)
(* Sequences                                                               *)
(***************************************************************************)

\* A set of naturals has a least element: what an induction over the length of
\* a sequence takes its counterexample from.
LEMMA LeastNumber ==
  ASSUME NEW T, T \subseteq Nat, T # {}
  PROVE  \E n \in T : \A m \in T : n <= m
<1>1. PICK n \in T : \A m \in T : ~ (<<m, n>> \in OpToRel(<, Nat))
  BY NatLessThanWellFounded, WFMin
<1>2. \A m \in T : ~ (m < n)
  BY <1>1 DEF OpToRel
<1> QED BY <1>2

\* F is the function that FlattenSeq defines, up to n.
Chain(F, seqs, n) ==
  F = [i \in 1..n |-> IF i = 1 THEN seqs[i] ELSE F[i-1] \o seqs[i]]

\* Its equation has a solution.
LEMMA ChainExists ==
  ASSUME NEW seqs, NEW N \in Nat \ {0}
  PROVE  \E F : Chain(F, seqs, N)
<1> DEFINE Wrong == {n \in Nat \ {0} : ~ \E F : Chain(F, seqs, n)}
<1> SUFFICES ASSUME Wrong # {} PROVE FALSE
  OBVIOUS
<1>1. PICK n \in Wrong : \A m \in Wrong : n <= m
  <2>1. Wrong \subseteq Nat
    OBVIOUS
  <2> HIDE DEF Wrong
  <2> QED BY <2>1, LeastNumber
<1>2. n \in Nat \ {0} /\ ~ \E F : Chain(F, seqs, n)
  OBVIOUS
<1>3. n # 1
  <2>1. Chain([i \in 1..1 |-> seqs[1]], seqs, 1)
    BY DEF Chain
  <2> QED BY <1>2, <2>1
<1>4. PICK F : Chain(F, seqs, n - 1)
  <2>1. n - 1 \in Nat \ {0} /\ ~(n <= n - 1)
    BY <1>2, <1>3
  <2>2. n - 1 \notin Wrong
    <3> HIDE DEF Wrong
    <3> QED BY <1>1, <2>1
  <2> QED BY <2>1, <2>2
<1> DEFINE G == [i \in 1..n |-> IF i = n THEN F[n - 1] \o seqs[n] ELSE F[i]]
<1>5. ASSUME NEW i \in 1..n
      PROVE  G[i] = IF i = 1 THEN seqs[i] ELSE G[i-1] \o seqs[i]
  <2>1. CASE i = n
    <3>1. n \in 1..n /\ n - 1 \in 1..n /\ n - 1 # n
      BY <1>2, <1>3
    <3>2. G[n - 1] = F[n - 1] /\ G[n] = F[n - 1] \o seqs[n]
      BY <3>1
    <3> HIDE DEF G
    <3> QED BY <1>3, <2>1, <3>2
  <2>2. CASE i # n
    <3>1. i \in 1..(n - 1) /\ G[i] = F[i]
      BY <1>2, <2>2
    <3>2. F[i] = IF i = 1 THEN seqs[i] ELSE F[i-1] \o seqs[i]
      BY <1>4, <3>1 DEF Chain
    <3>3. i # 1 => i - 1 \in 1..n /\ i - 1 # n
      BY <1>2, <3>1
    <3>4. i # 1 => G[i - 1] = F[i - 1]
      BY <3>3
    <3> HIDE DEF G
    <3> QED BY <3>1, <3>2, <3>4
  <2> QED BY <2>1, <2>2
<1>6. Chain(G, seqs, n)
  <2>1. G = [i \in 1..n |-> G[i]]
    OBVIOUS
  <2> HIDE DEF G
  <2> QED BY <1>5, <2>1 DEF Chain
<1> HIDE DEF G
<1> QED BY <1>2, <1>6

\* FlattenSeq joins the sequences one after the other.
LEMMA FlattenChain ==
  ASSUME NEW S, NEW seqs \in Seq(Seq(S)), Len(seqs) # 0
  PROVE  \E F \in [1..Len(seqs) -> Seq(S)] :
           /\ F[1] = seqs[1]
           /\ \A i \in 2..Len(seqs) : F[i] = F[i-1] \o seqs[i]
           /\ FlattenSeq(seqs) = F[Len(seqs)]
<1> DEFINE N == Len(seqs)
           F == CHOOSE f : f = [i \in 1..N |-> IF i = 1 THEN seqs[i] ELSE f[i-1] \o seqs[i]]
           Wrong == {i \in 1..N : F[i] \notin Seq(S)}
<1>1. N \in Nat \ {0} /\ \A i \in 1..N : seqs[i] \in Seq(S)
  OBVIOUS
<1>2. Chain(F, seqs, N)
  <2> HIDE DEF N
  <2>1. \E f : f = [i \in 1..N |-> IF i = 1 THEN seqs[i] ELSE f[i-1] \o seqs[i]]
    BY <1>1, ChainExists DEF Chain
  <2>2. F = [i \in 1..N |-> IF i = 1 THEN seqs[i] ELSE F[i-1] \o seqs[i]]
    BY <2>1, Zenon
  <2> HIDE DEF F
  <2> QED BY <2>2 DEF Chain
<1>3. FlattenSeq(seqs) = F[N]
  BY DEF FlattenSeq
<1> HIDE DEF F, N
<1>4. /\ F = [i \in 1..N |-> F[i]]
      /\ F[1] = seqs[1]
      /\ \A i \in 2..N : F[i] = F[i-1] \o seqs[i]
  <2>1. F = [i \in 1..N |-> F[i]]
    BY <1>2 DEF Chain
  <2>2. \A i \in 1..N : F[i] = IF i = 1 THEN seqs[i] ELSE F[i-1] \o seqs[i]
    BY <1>2 DEF Chain
  <2>3. 1 \in 1..N /\ \A i \in 2..N : i \in 1..N /\ i # 1
    BY <1>1
  <2> QED BY <2>1, <2>2, <2>3
<1>5. Wrong = {}
  <2> SUFFICES ASSUME Wrong # {} PROVE FALSE
    OBVIOUS
  <2>1. PICK i \in Wrong : \A m \in Wrong : i <= m
    <3>1. Wrong \subseteq Nat
      OBVIOUS
    <3> HIDE DEF Wrong
    <3> QED BY <3>1, LeastNumber
  <2>2. i \in 1..N /\ F[i] \notin Seq(S)
    OBVIOUS
  <2>3. i \in 2..N /\ i - 1 \in 1..N /\ ~(i <= i - 1)
    BY <1>1, <1>4, <2>2
  <2>4. i - 1 \notin Wrong
    <3> HIDE DEF Wrong
    <3> QED BY <2>1, <2>3
  <2>5. F[i - 1] \in Seq(S) /\ seqs[i] \in Seq(S)
    BY <1>1, <2>2, <2>3, <2>4
  <2>6. F[i - 1] \o seqs[i] \in Seq(S)
    BY <2>5
  <2> QED BY <1>4, <2>2, <2>3, <2>6
<1>6. F \in [1..N -> Seq(S)]
  BY <1>4, <1>5
<1> QED BY <1>3, <1>4, <1>6 DEF N

\* It has the elements of all of them.
LEMMA FlattenRange ==
  ASSUME NEW S, NEW seqs \in Seq(Seq(S))
  PROVE  /\ FlattenSeq(seqs) \in Seq(S)
         /\ Range(FlattenSeq(seqs)) = UNION {Range(seqs[i]) : i \in DOMAIN seqs}
<1> DEFINE n == Len(seqs)
<1>1. n \in Nat /\ DOMAIN seqs = 1..n /\ \A i \in 1..n : seqs[i] \in Seq(S)
  OBVIOUS
<1>2. CASE n = 0
  <2>1. seqs = <<>>
    BY <1>2
  <2>2. FlattenSeq(seqs) = <<>>
    BY <2>1 DEF FlattenSeq
  <2>3. Range(<<>>) = {} /\ <<>> \in Seq(S)
    BY DEF Range
  <2>4. UNION {Range(seqs[i]) : i \in DOMAIN seqs} = {}
    BY <1>1, <1>2
  <2> QED BY <2>2, <2>3, <2>4
<1>3. CASE n # 0
  <2>1. PICK F \in [1..n -> Seq(S)] :
          /\ F[1] = seqs[1]
          /\ \A i \in 2..n : F[i] = F[i-1] \o seqs[i]
          /\ FlattenSeq(seqs) = F[n]
    BY <1>1, <1>3, FlattenChain
  <2> HIDE DEF n
  <2> DEFINE Done(i) == Range(F[i]) = UNION {Range(seqs[j]) : j \in 1..i}
             Wrong == {i \in 1..n : ~Done(i)}
  <2>2. Wrong = {}
    <3> SUFFICES ASSUME Wrong # {} PROVE FALSE
      OBVIOUS
    <3>1. PICK i \in Wrong : \A m \in Wrong : i <= m
      <4>1. Wrong \subseteq Nat
        OBVIOUS
      <4> HIDE DEF Wrong
      <4> QED BY <4>1, LeastNumber
    <3>2. i \in 1..n /\ ~Done(i)
      OBVIOUS
    <3> HIDE DEF Done
    <3>3. i # 1
      <4>1. UNION {Range(seqs[j]) : j \in 1..1} = Range(seqs[1])
        OBVIOUS
      <4> QED BY <2>1, <3>2, <4>1 DEF Done
    <3>4. i \in 2..n /\ i - 1 \in 1..n /\ ~(i <= i - 1) /\ 1..i = 1..(i - 1) \cup {i}
      BY <1>1, <3>2, <3>3
    <3>5. Done(i - 1)
      <4>1. i - 1 \notin Wrong
        <5> HIDE DEF Wrong
        <5> QED BY <3>1, <3>4
      <4> QED BY <3>4, <4>1
    <3>6. Range(F[i]) = Range(F[i - 1]) \cup Range(seqs[i])
      <4>1. F[i - 1] \in Seq(S) /\ seqs[i] \in Seq(S) /\ F[i] = F[i - 1] \o seqs[i]
        BY <1>1, <2>1, <3>2, <3>4
      <4> QED BY <4>1, RangeConcatenation
    <3> DEFINE Some(k) == UNION {Range(seqs[j]) : j \in 1..k}
    <3>7. Some(i) = Some(i - 1) \cup Range(seqs[i])
      <4>1. ASSUME NEW x PROVE x \in Some(i) <=> x \in Some(i - 1) \/ x \in Range(seqs[i])
        BY <3>4
      <4> HIDE DEF Some
      <4> QED BY <4>1
    <3> QED BY <3>2, <3>5, <3>6, <3>7 DEF Done
  <2>3. n \in 1..n
    BY <1>1, <1>3
  <2>4. Done(n) /\ F[n] \in Seq(S)
    BY <2>1, <2>2, <2>3
  <2> QED BY <1>1, <2>1, <2>4
<1> QED BY <1>2, <1>3

LEMMA RangeOne == ASSUME NEW x PROVE <<x>> \in Seq({x}) /\ Range(<<x>>) = {x}
BY DEF Range

LEMMA RangeTwo ==
  ASSUME NEW x, NEW y
  PROVE  <<x>> \o <<y>> \in Seq({x, y}) /\ Range(<<x>> \o <<y>>) = {x, y}
<1>1. <<x>> \in Seq({x, y}) /\ <<y>> \in Seq({x, y})
  OBVIOUS
<1>2. <<x>> \o <<y>> \in Seq({x, y}) /\ Range(<<x>> \o <<y>>) = Range(<<x>>) \cup Range(<<y>>)
  BY <1>1, RangeConcatenation, ConcatProperties
<1>3. Range(<<x>>) = {x} /\ Range(<<y>>) = {y}
  BY RangeOne
<1> QED BY <1>2, <1>3

\* An order of a finite set has all its elements.
LEMMA OrderFacts ==
  ASSUME NEW D, IsFiniteSet(D), NEW order \in SetToSeqs(D)
  PROVE  order \in Seq(D) /\ Range(order) = D
<1> DEFINE n == Cardinality(D)
<1>1. n \in Nat
  BY FS_CardinalityType
<1> HIDE DEF n
<1>2. order \in [1..n -> D] /\ \A i, j \in 1..n : i # j => order[i] # order[j]
  BY DEF SetToSeqs, n
<1>3. order \in Injection(1..n, D)
  BY <1>2 DEF Injection, IsInjective
<1>4. IsFiniteSet(1..n) /\ Cardinality(1..n) = n
  BY <1>1, FS_Interval
<1>5. order \in Surjection(1..n, D)
  BY <1>3, <1>4, FS_Injection DEF n
<1>6. Range(order) = D
  BY <1>2, <1>5 DEF Surjection, Range
<1> QED BY <1>1, <1>2, <1>6

(***************************************************************************)
(* The script of Seed                                                      *)
(***************************************************************************)

\* A site has its details, and a border if there is one.
SiteSet(site, details) ==
  {Statement(<<"details", site>>, details.name)}
  \cup {s \in {Statement(<<"border", site>>, details.border)} : details.border # NoValue}

LEMMA SiteFacts ==
  ASSUME NEW site, NEW details
  PROVE  /\ SiteStatements(site, details) \in Seq(SiteSet(site, details))
         /\ Range(SiteStatements(site, details)) = SiteSet(site, details)
<1> DEFINE d == Statement(<<"details", site>>, details.name)
           b == Statement(<<"border", site>>, details.border)
<1> HIDE DEF d, b
<1>1. SiteStatements(site, details) = <<d>> \o IF details.border = NoValue THEN <<>> ELSE <<b>>
  BY DEF SiteStatements, d, b
<1>2. SiteSet(site, details) = {d} \cup {s \in {b} : details.border # NoValue}
  BY DEF SiteSet, d, b
<1>3. CASE details.border = NoValue
  <2>1. SiteStatements(site, details) = <<d>> /\ SiteSet(site, details) = {d}
    BY <1>1, <1>2, <1>3
  <2> QED BY <2>1 DEF Range
<1>4. CASE details.border # NoValue
  <2>1. SiteStatements(site, details) = <<d>> \o <<b>> /\ SiteSet(site, details) = {d, b}
    BY <1>1, <1>2, <1>4
  <2> QED BY <2>1, RangeTwo
<1> QED BY <1>3, <1>4

\* A region has its row, and for each of its sites the site and the link.
MemberSet(region, site) ==
  {Statement(<<"iata", site>>, TRUE), Statement(<<"link", region.slug, site>>, TRUE)}

RegionSet(region) ==
  {Statement(<<"region", region.slug>>, TRUE)}
  \cup UNION {MemberSet(region, site) : site \in Range(region.sites)}

LEMMA RegionFacts ==
  ASSUME NEW region, IsList(region.sites)
  PROVE  /\ RegionStatements(region) \in Seq(RegionSet(region))
         /\ Range(RegionStatements(region)) = RegionSet(region)
<1> DEFINE S == RegionSet(region)
           n == Len(region.sites)
           first == Statement(<<"region", region.slug>>, TRUE)
           members == [i \in DOMAIN region.sites |->
                         <<Statement(<<"iata", region.sites[i]>>, TRUE),
                           Statement(<<"link", region.slug, region.sites[i]>>, TRUE)>>]
<1>1. n \in Nat /\ DOMAIN region.sites = 1..n
  BY DEF IsList
<1>2. ASSUME NEW i \in 1..n
      PROVE  /\ members[i] \in Seq(S)
             /\ Range(members[i]) = MemberSet(region, region.sites[i])
  <2> DEFINE x == Statement(<<"iata", region.sites[i]>>, TRUE)
             y == Statement(<<"link", region.slug, region.sites[i]>>, TRUE)
  <2> HIDE DEF x, y
  <2>1. members[i] = <<x, y>>
    BY <1>1 DEF x, y
  <2>2. MemberSet(region, region.sites[i]) = {x, y}
    BY DEF MemberSet, x, y
  <2>3. {x, y} \subseteq S
    BY <1>1, <2>2 DEF RegionSet, Range
  <2> HIDE DEF S, members
  <2>4. <<x, y>> \in Seq(S) /\ Range(<<x, y>>) = {x, y}
    BY <2>3 DEF Range
  <2> QED BY <2>1, <2>2, <2>4
<1>3. RegionStatements(region) = <<first>> \o FlattenSeq(members)
  BY DEF RegionStatements
<1>4. members = [i \in 1..n |-> members[i]]
  BY <1>1
<1>5. S = {first} \cup UNION {MemberSet(region, site) : site \in Range(region.sites)}
  BY DEF RegionSet
<1>6. Range(region.sites) = {region.sites[i] : i \in 1..n}
  BY <1>1 DEF Range
<1> HIDE DEF members, first, S, n
<1>7. members \in Seq(Seq(S)) /\ DOMAIN members = 1..n
  BY <1>1, <1>2, <1>4
<1>8. /\ FlattenSeq(members) \in Seq(S)
      /\ Range(FlattenSeq(members)) = UNION {Range(members[i]) : i \in 1..n}
  BY <1>7, FlattenRange
<1>9. <<first>> \in Seq(S) /\ Range(<<first>>) = {first}
  BY <1>5 DEF Range
<1>10. UNION {Range(members[i]) : i \in 1..n}
         = UNION {MemberSet(region, site) : site \in Range(region.sites)}
  BY <1>2, <1>6
<1>11. /\ <<first>> \o FlattenSeq(members) \in Seq(S)
       /\ Range(<<first>> \o FlattenSeq(members)) = {first} \cup Range(FlattenSeq(members))
  <2> DEFINE rest == FlattenSeq(members)
             head == <<first>>
  <2>1. rest \in Seq(S) /\ head \in Seq(S) /\ Range(head) = {first}
    BY <1>8, <1>9
  <2> HIDE DEF rest, head
  <2>2. head \o rest \in Seq(S)
    BY <2>1, ConcatProperties
  <2>3. Range(head \o rest) = {first} \cup Range(rest)
    BY <2>1, RangeConcatenation
  <2> QED BY <2>2, <2>3 DEF rest, head
<1> QED BY <1>3, <1>5, <1>8, <1>10, <1>11 DEF S

\* What the config asks for, part by part.
SitesAsked(cfg)   == UNION {SiteSet(s, cfg.sites[s]) : s \in DOMAIN cfg.sites}
RegionsAsked(cfg) == UNION {RegionSet(r) : r \in Range(cfg.regions)}
ScopesAsked(cfg)  == {Statement(<<"scope", NormalName[n]>>, TRUE) : n \in Range(cfg.scopes)}

LEMMA AskedParts ==
  ASSUME NEW cfg
  PROVE  Asked(cfg) = SitesAsked(cfg) \cup RegionsAsked(cfg) \cup ScopesAsked(cfg)
<1> DEFINE Details(s) == Statement(<<"details", s>>, cfg.sites[s].name)
           Border(s)  == Statement(<<"border", s>>, cfg.sites[s].border)
           First(r)   == Statement(<<"region", r.slug>>, TRUE)
           D == {Details(s) : s \in DOMAIN cfg.sites}
           B == {Border(s) : s \in {s \in DOMAIN cfg.sites : cfg.sites[s].border # NoValue}}
           F == {First(r) : r \in Range(cfg.regions)}
           M == UNION {UNION {MemberSet(r, s) : s \in Range(r.sites)} : r \in Range(cfg.regions)}
<1>1. Asked(cfg) = D \cup B \cup F \cup ScopesAsked(cfg) \cup M
  BY DEF Asked, MemberSet, ScopesAsked
<1>2. SitesAsked(cfg) = D \cup B
  <2>1. \A s : SiteSet(s, cfg.sites[s])
                 = {Details(s)} \cup {b \in {Border(s)} : cfg.sites[s].border # NoValue}
    BY DEF SiteSet
  <2> HIDE DEF Details, Border
  <2> QED BY <2>1 DEF SitesAsked
<1>3. RegionsAsked(cfg) = F \cup M
  <2>1. \A r : RegionSet(r) = {First(r)} \cup UNION {MemberSet(r, s) : s \in Range(r.sites)}
    BY DEF RegionSet
  <2> HIDE DEF First
  <2> QED BY <2>1 DEF RegionsAsked
<1> HIDE DEF D, B, F, M
<1> QED BY <1>1, <1>2, <1>3

\* In whatever order the map of sites is ranged over, the statements of Seed are
\* what the config asks for.
LEMMA ScriptFacts ==
  ASSUME NEW cfg \in Configs, NEW order \in Orders(cfg)
  PROVE  IsList(SeedScript(cfg, order)) /\ Range(SeedScript(cfg, order)) = Asked(cfg)
<1> DEFINE S == Asked(cfg)
           sites   == [i \in DOMAIN order |-> SiteStatements(order[i], cfg.sites[order[i]])]
           regions == [i \in DOMAIN cfg.regions |-> RegionStatements(cfg.regions[i])]
           Scope(n) == Statement(<<"scope", NormalName[n]>>, TRUE)
           names   == [i \in DOMAIN cfg.scopes |-> Scope(cfg.scopes[i])]
<1>1. S = SitesAsked(cfg) \cup RegionsAsked(cfg) \cup ScopesAsked(cfg)
  BY AskedParts
<1>2. SeedScript(cfg, order) = FlattenSeq(sites) \o FlattenSeq(regions) \o names
  BY DEF SeedScript
<1>3. FlattenSeq(sites) \in Seq(S) /\ Range(FlattenSeq(sites)) = SitesAsked(cfg)
  <2>1. order \in Seq(DOMAIN cfg.sites) /\ Range(order) = DOMAIN cfg.sites
    BY BootAssumption, OrderFacts DEF Orders
  <2>2. PICK n \in Nat : DOMAIN order = 1..n /\ \A i \in 1..n : order[i] \in DOMAIN cfg.sites
    BY <2>1
  <2>3. ASSUME NEW i \in 1..n
        PROVE  /\ sites[i] \in Seq(S)
               /\ Range(sites[i]) = SiteSet(order[i], cfg.sites[order[i]])
    <3>1. SiteSet(order[i], cfg.sites[order[i]]) \subseteq S
      BY <1>1, <2>2 DEF SitesAsked
    <3>2. sites[i] = SiteStatements(order[i], cfg.sites[order[i]])
      BY <2>2
    <3> HIDE DEF sites, S
    <3> QED BY <3>1, <3>2, SiteFacts, SeqMonotonic
  <2>4. sites = [i \in 1..n |-> sites[i]]
    BY <2>2
  <2> HIDE DEF sites, S
  <2>5. sites \in Seq(Seq(S)) /\ DOMAIN sites = 1..n
    BY <2>3, <2>4
  <2>6. /\ FlattenSeq(sites) \in Seq(S)
        /\ Range(FlattenSeq(sites)) = UNION {Range(sites[i]) : i \in 1..n}
    BY <2>5, FlattenRange
  <2>7. DOMAIN cfg.sites = {order[i] : i \in 1..n}
    BY <2>1, <2>2 DEF Range
  <2>8. UNION {Range(sites[i]) : i \in 1..n} = SitesAsked(cfg)
    BY <2>3, <2>7 DEF SitesAsked
  <2> QED BY <2>6, <2>8
<1>4. FlattenSeq(regions) \in Seq(S) /\ Range(FlattenSeq(regions)) = RegionsAsked(cfg)
  <2>1. PICK n \in Nat : DOMAIN cfg.regions = 1..n
    BY BootAssumption DEF IsList
  <2>2. Range(cfg.regions) = {cfg.regions[i] : i \in 1..n}
    BY <2>1 DEF Range
  <2>3. ASSUME NEW i \in 1..n
        PROVE  /\ regions[i] \in Seq(S)
               /\ Range(regions[i]) = RegionSet(cfg.regions[i])
    <3>1. RegionSet(cfg.regions[i]) \subseteq S /\ IsList(cfg.regions[i].sites)
      BY <1>1, <2>2, BootAssumption DEF RegionsAsked
    <3>2. regions[i] = RegionStatements(cfg.regions[i])
      BY <2>1
    <3> HIDE DEF regions, S
    <3> QED BY <3>1, <3>2, RegionFacts, SeqMonotonic
  <2>4. regions = [i \in 1..n |-> regions[i]]
    BY <2>1
  <2> HIDE DEF regions, S
  <2>5. regions \in Seq(Seq(S)) /\ DOMAIN regions = 1..n
    BY <2>3, <2>4
  <2>6. /\ FlattenSeq(regions) \in Seq(S)
        /\ Range(FlattenSeq(regions)) = UNION {Range(regions[i]) : i \in 1..n}
    BY <2>5, FlattenRange
  <2>7. UNION {Range(regions[i]) : i \in 1..n} = RegionsAsked(cfg)
    BY <2>2, <2>3 DEF RegionsAsked
  <2> QED BY <2>6, <2>7
<1>5. names \in Seq(S) /\ Range(names) = ScopesAsked(cfg)
  <2>1. PICK n \in Nat : DOMAIN cfg.scopes = 1..n
    BY BootAssumption DEF IsList
  <2>2. Range(cfg.scopes) = {cfg.scopes[i] : i \in 1..n}
    BY <2>1 DEF Range
  <2>3. ScopesAsked(cfg) = {Scope(s) : s \in Range(cfg.scopes)}
    BY DEF ScopesAsked
  <2> HIDE DEF Scope
  <2>4. Range(names) = ScopesAsked(cfg) /\ names = [i \in 1..n |-> names[i]]
    BY <2>1, <2>2, <2>3 DEF Range
  <2>5. \A i \in 1..n : names[i] \in S
    BY <1>1, <2>1, <2>2, <2>3
  <2> HIDE DEF names, S
  <2> QED BY <2>4, <2>5
<1> HIDE DEF S, sites, regions, names
<1>6. /\ FlattenSeq(sites) \o FlattenSeq(regions) \in Seq(S)
      /\ Range(FlattenSeq(sites) \o FlattenSeq(regions)) = SitesAsked(cfg) \cup RegionsAsked(cfg)
  BY <1>3, <1>4, RangeConcatenation, ConcatProperties
<1>7. /\ SeedScript(cfg, order) \in Seq(S)
      /\ Range(SeedScript(cfg, order)) = SitesAsked(cfg) \cup RegionsAsked(cfg) \cup ScopesAsked(cfg)
  <2> DEFINE t == FlattenSeq(sites) \o FlattenSeq(regions)
  <2>1. SeedScript(cfg, order) = t \o names /\ t \in Seq(S) /\ names \in Seq(S)
    BY <1>2, <1>5, <1>6
  <2>2. Range(t) = SitesAsked(cfg) \cup RegionsAsked(cfg)
    BY <1>6
  <2> HIDE DEF t
  <2>3. t \o names \in Seq(S) /\ Range(t \o names) = Range(t) \cup Range(names)
    BY <2>1, RangeConcatenation, ConcatProperties
  <2> QED BY <1>5, <2>1, <2>2, <2>3
<1> QED BY <1>1, <1>7 DEF IsList, S

(***************************************************************************)
(* The ledger of the migrations                                            *)
(***************************************************************************)

\* The ledger of the files is untouched by what is not RunMigrations.
LEMMA ElsewhereKeeps ==
  ASSUME IInv,
         BeginSeed \/ Upsert \/ Refused \/ Load \/ Die \/ Redeploy
  PROVE  UNCHANGED <<schema, recorded, file>>
BY DEF BeginSeed, Upsert, Refused, Load, Die, Redeploy, database, stores, setup, progress

LEMMA InitIInv == ASSUME Init PROVE IInv
<1> USE BootAssumption DEF Init, Files
<1>1. TypeOK
  BY DEF TypeOK
<1>2. InOrder
  <2>1. CASE schema = {}
    <3>1. schema = 1..0 /\ recorded = 1..0 /\ 0 \in 0..Latest
      BY <2>1
    <3> QED BY <3>1 DEF InOrder
  <2>2. CASE schema = {1}
    <3>1. schema = 1..1 /\ recorded = 1..0 /\ 0 \in 0..Latest /\ 1 \in 0..Latest
      BY <2>2
    <3> QED BY <3>1 DEF InOrder
  <2> QED BY <2>1, <2>2
<1>3. Reached
  BY DEF Reached
<1>4. Seeded
  <2>1. DOMAIN rows = Rows
    OBVIOUS
  <2>2. phase # "seed"
    OBVIOUS
  <2> QED BY <2>1, <2>2 DEF Seeded
<1>5. ServesConfig
  BY DEF ServesConfig
<1> QED BY <1>1, <1>2, <1>3, <1>4, <1>5 DEF IInv

LEMMA NextTypeOK == ASSUME IInv, [Next]_vars PROVE TypeOK'
<1> USE BootAssumption DEF IInv, TypeOK, Files
<1>1. CASE Start \/ Ledger \/ RecordFirst \/ Skip \/ Apply \/ Rejected \/ Record
  <2>1. CASE Start \/ Ledger \/ Rejected
    <3>1. phase' \in {"down", "ledger", "first", "check"} /\ file' \in {1, file}
      BY <2>1 DEF Start, Ledger, Rejected
    <3>2. UNCHANGED <<schema, recorded, release, config, failures, changes>>
      BY <2>1 DEF Start, Ledger, Rejected, database, setup
    <3> QED BY <3>1, <3>2
  <2>2. CASE RecordFirst
    BY <2>2 DEF RecordFirst, stores, setup
  <2>3. CASE Skip
    <3>1. file + 1 \in 1..(Latest + 1)
      BY <2>3 DEF Skip
    <3> QED BY <2>3, <3>1 DEF Skip, database, stores, setup
  <2>4. CASE Apply
    BY <2>4 DEF Apply, stores, setup
  <2>5. CASE Record
    <3>1. file + 1 \in 1..(Latest + 1)
      BY <2>5 DEF Record, Reached
    <3> QED BY <2>5, <3>1 DEF Record, stores, setup
  <2> QED BY <1>1, <2>1, <2>2, <2>3, <2>4, <2>5
<1>2. CASE BeginSeed \/ Upsert \/ Refused \/ Load
  BY <1>2 DEF BeginSeed, Upsert, Refused, Load, database, stores, setup
<1>3. CASE Die
  BY <1>3 DEF Die, database, stores, setup
<1>4. CASE Redeploy
  BY <1>4 DEF Redeploy, database, stores, setup
<1>5. CASE UNCHANGED vars
  BY <1>5 DEF vars, database, progress, setup
<1> QED BY <1>1, <1>2, <1>3, <1>4, <1>5 DEF Next, Main

\* A file that is executed or recorded is the next one.
LEMMA NextInOrder == ASSUME IInv, [Next]_vars PROVE InOrder'
<1> USE BootAssumption DEF IInv, TypeOK, Files
<1>1. PICK n, m \in 0..Latest : schema = 1..n /\ recorded = 1..m /\ n \in {m, m + 1}
  BY DEF InOrder
<1>2. CASE UNCHANGED <<schema, recorded>>
  BY <1>1, <1>2 DEF InOrder
<1>3. CASE RecordFirst
  <2>1. m = 0 /\ n = 1
    BY <1>1, <1>3 DEF RecordFirst, Reached
  <2>2. schema' = 1..1 /\ recorded' = 1..1
    BY <1>1, <1>3, <2>1 DEF RecordFirst
  <2> QED BY <2>2 DEF InOrder
<1>4. CASE Apply
  <2>1. 1..(file - 1) \subseteq 1..m /\ file \notin 1..m /\ file \in 1..Latest
    BY <1>1, <1>4 DEF Apply, Reached
  <2>2. file = m + 1
    <3>1. file = 1 \/ file - 1 \in 1..(file - 1)
      OBVIOUS
    <3>2. file - 1 \in 0..m
      BY <2>1, <3>1
    <3>3. file \in Nat /\ file >= 1 /\ m \in Nat
      BY <2>1
    <3>4. file > m
      BY <2>1, <3>3
    <3> QED BY <3>2, <3>3, <3>4
  <2>3. schema' = 1..(m + 1) /\ recorded' = 1..m
    BY <1>1, <1>4, <2>2 DEF Apply
  <2>4. m + 1 \in 0..Latest /\ m + 1 \in {m, m + 1}
    BY <2>1, <2>2
  <2> QED BY <2>3, <2>4 DEF InOrder
<1>5. CASE Record
  <2>1. 1..(file - 1) \subseteq 1..m /\ file \notin 1..m /\ file \in 1..n
    <3>1. file \in schema \ recorded /\ 1..(file - 1) \subseteq recorded
      BY <1>5 DEF Record, Reached
    <3> QED BY <1>1, <3>1
  <2>2. file = m + 1 /\ n = m + 1
    <3>1. file = 1 \/ file - 1 \in 1..(file - 1)
      OBVIOUS
    <3>2. file - 1 \in 0..m
      BY <2>1, <3>1
    <3>3. file > m
      BY <1>1, <2>1
    <3> QED BY <1>1, <2>1, <3>2, <3>3
  <2>3. schema' = 1..(m + 1) /\ recorded' = 1..(m + 1)
    BY <1>1, <1>5, <2>2 DEF Record
  <2> QED BY <1>1, <2>2, <2>3 DEF InOrder
<1>6. CASE Start \/ Ledger \/ Skip \/ Rejected
  BY <1>2, <1>6 DEF Start, Ledger, Skip, Rejected, database
<1>7. CASE BeginSeed \/ Upsert \/ Refused \/ Load \/ Die \/ Redeploy
  BY <1>2, <1>7, ElsewhereKeeps
<1>8. CASE UNCHANGED vars
  BY <1>2, <1>8 DEF vars, database
<1> QED BY <1>3, <1>4, <1>5, <1>6, <1>7, <1>8 DEF Next, Main

LEMMA NextReached == ASSUME IInv, [Next]_vars PROVE Reached'
<1> USE BootAssumption DEF IInv, TypeOK, Files, Reached
<1>1. CASE Start
  BY <1>1 DEF Start
<1>2. CASE Ledger
  <2>1. recorded # {} => 1 \in recorded
    <3>1. PICK m \in 0..Latest : recorded = 1..m
      BY DEF InOrder
    <3> QED BY <3>1
  <2> QED BY <1>2, <2>1 DEF Ledger, database
<1>3. CASE RecordFirst
  BY <1>3 DEF RecordFirst
<1>4. CASE Skip
  BY <1>4 DEF Skip, database
<1>5. CASE Apply
  BY <1>5 DEF Apply
<1>6. CASE Rejected \/ Refused \/ Die \/ Redeploy
  BY <1>6 DEF Rejected, Refused, Die, Redeploy
<1>7. CASE Record
  <2>1. file = 1 \/ 1 \in 1..(file - 1)
    OBVIOUS
  <2> QED BY <1>7, <2>1 DEF Record
<1>8. CASE BeginSeed
  BY <1>8 DEF BeginSeed, database, setup
<1>9. CASE Upsert
  BY <1>9 DEF Upsert, setup
<1>10. CASE Load
  BY <1>10 DEF Load, database, setup
<1>11. CASE UNCHANGED vars
  BY <1>11 DEF vars, database, progress, setup
<1> QED BY <1>1, <1>2, <1>3, <1>4, <1>5, <1>6, <1>7, <1>8, <1>9, <1>10, <1>11
        DEF Next, Main

(***************************************************************************)
(* The rows of the config                                                  *)
(***************************************************************************)

\* What a statement says: the name or the border of a site, or that a row is.
Says(cfg, s) ==
  \/ \E x \in DOMAIN cfg.sites : s = Statement(<<"details", x>>, cfg.sites[x].name)
  \/ \E x \in DOMAIN cfg.sites : s = Statement(<<"border", x>>, cfg.sites[x].border)
  \/ s.row[1] \notin {"details", "border"} /\ s.value = TRUE

LEMMA AskedKinds == ASSUME NEW cfg, NEW s \in Asked(cfg) PROVE Says(cfg, s)
<1> USE DEF Says
<1>1. CASE s \in {Statement(<<"details", x>>, cfg.sites[x].name) : x \in DOMAIN cfg.sites}
  BY <1>1
<1>2. CASE s \in {Statement(<<"border", x>>, cfg.sites[x].border) :
                    x \in {x \in DOMAIN cfg.sites : cfg.sites[x].border # NoValue}}
  BY <1>2
<1>3. CASE s \in {Statement(<<"region", r.slug>>, TRUE) : r \in Range(cfg.regions)}
  BY <1>3 DEF Statement
<1>4. CASE s \in {Statement(<<"scope", NormalName[n]>>, TRUE) : n \in Range(cfg.scopes)}
  BY <1>4 DEF Statement
<1>5. CASE s \in UNION {UNION {MemberSet(r, x) : x \in Range(r.sites)} :
                          r \in Range(cfg.regions)}
  <2>1. \E r, x : s \in MemberSet(r, x)
    BY <1>5
  <2>2. PICK r, x : s \in MemberSet(r, x)
    BY <2>1
  <2>3. s.row[1] \in {"iata", "link"} /\ s.value = TRUE
    <3>1. CASE s = Statement(<<"iata", x>>, TRUE)
      BY <3>1 DEF Statement
    <3>2. CASE s = Statement(<<"link", r.slug, x>>, TRUE)
      BY <3>2 DEF Statement
    <3> QED BY <2>2, <3>1, <3>2 DEF MemberSet
  <2> QED BY <2>3
<1> QED BY <1>1, <1>2, <1>3, <1>4, <1>5 DEF Asked, MemberSet

\* No two statements of a config give a row different values: a site has one
\* name and one border, and all other rows are only there.
LEMMA OneValue ==
  ASSUME NEW cfg, NEW s1 \in Asked(cfg), NEW s2 \in Asked(cfg), s1.row = s2.row
  PROVE  s1.value = s2.value
<1>1. Says(cfg, s1) /\ Says(cfg, s2)
  BY AskedKinds
<1>2. CASE s1.row[1] = "details"
  <2>1. ASSUME NEW s, s.row[1] = "details", Says(cfg, s)
        PROVE  s.value = cfg.sites[s.row[2]].name
    BY <2>1 DEF Says, Statement
  <2> QED BY <1>1, <1>2, <2>1
<1>3. CASE s1.row[1] = "border"
  <2>1. ASSUME NEW s, s.row[1] = "border", Says(cfg, s)
        PROVE  s.value = cfg.sites[s.row[2]].border
    BY <2>1 DEF Says, Statement
  <2> QED BY <1>1, <1>3, <2>1
<1>4. CASE s1.row[1] \notin {"details", "border"}
  <2>1. ASSUME NEW s, s.row[1] \notin {"details", "border"}, Says(cfg, s)
        PROVE  s.value = TRUE
    BY <2>1 DEF Says, Statement
  <2> QED BY <1>1, <1>4, <2>1
<1> QED BY <1>2, <1>3, <1>4

LEMMA AskedRow ==
  ASSUME NEW cfg \in Configs, NEW s \in Asked(cfg)
  PROVE  s.row \in Rows
BY DEF Rows

\* A statement has its value, and keeps it when a later one repeats its row.
LEMMA UpsertSeeded == ASSUME IInv, Upsert PROVE Seeded'
<1> USE DEF IInv
<1>1. /\ DOMAIN rows = Rows
      /\ IsList(script) /\ Range(script) = Asked(config) /\ at \in Nat
      /\ \A i \in DOMAIN script : i < at => rows[script[i].row] = script[i].value
  BY DEF Seeded, Upsert
<1>2. /\ script' = script /\ config' = config /\ at' = at + 1
      /\ rows' = [rows EXCEPT ![script[at].row] = script[at].value]
  BY DEF Upsert, setup
<1>3. DOMAIN rows' = Rows
  BY <1>1, <1>2
<1>4. ASSUME NEW i \in DOMAIN script, i < at + 1
      PROVE  rows'[script[i].row] = script[i].value
  <2>0. DOMAIN script = 1..Len(script) /\ Len(script) \in Nat
    BY <1>1 DEF IsList
  <2>1. script[i] \in Asked(config) /\ script[i].row \in Rows
    <3>1. script[i] \in Asked(config)
      BY <1>1 DEF Range
    <3> QED BY <3>1, AskedRow DEF TypeOK
  <2>2. CASE script[i].row = script[at].row
    <3>1. CASE i = at
      BY <3>1, <1>1, <1>2, <2>1
    <3>2. CASE i # at
      <4>1. at \in DOMAIN script
        BY <1>1, <1>4, <2>0, <3>2 DEF Upsert
      <4>2. script[at] \in Asked(config)
        BY <1>1, <4>1 DEF Range
      <4>3. script[i].value = script[at].value
        BY <2>1, <2>2, <4>2, OneValue
      <4> QED BY <1>1, <1>2, <2>1, <2>2, <4>3
    <3> QED BY <3>1, <3>2
  <2>3. CASE script[i].row # script[at].row
    <3>1. i < at
      BY <1>1, <1>4, <2>0, <2>3
    <3> QED BY <1>1, <1>2, <2>1, <2>3, <3>1
  <2> QED BY <2>2, <2>3
<1>5. at + 1 \in Nat
  BY <1>1
<1> QED
  <2>1. Asked(config)' = Asked(config)
    BY <1>2 DEF Asked
  <2> QED BY <1>1, <1>2, <1>3, <1>4, <1>5, <2>1 DEF Seeded

LEMMA NextSeeded == ASSUME IInv, [Next]_vars PROVE Seeded'
<1> USE DEF IInv
<1>0. DOMAIN rows = Rows
  BY DEF Seeded
<1>1. ASSUME rows' = rows, phase' # "seed" PROVE Seeded'
  BY <1>0, <1>1 DEF Seeded
<1>2. CASE Start \/ Ledger \/ RecordFirst \/ Skip \/ Apply \/ Rejected \/ Record
  BY <1>1, <1>2 DEF Start, Ledger, RecordFirst, Skip, Apply, Rejected, Record, database
<1>3. CASE BeginSeed
  <2>1. PICK order \in Orders(config) : script' = SeedScript(config, order)
    BY <1>3 DEF BeginSeed
  <2>2. IsList(script') /\ Range(script') = Asked(config)
    BY <2>1, ScriptFacts DEF TypeOK
  <2>3. rows' = rows /\ config' = config /\ at' = 1
    BY <1>3 DEF BeginSeed, database, setup
  <2>4. \A i \in DOMAIN script' : ~(i < 1)
    <3>1. DOMAIN script' = 1..Len(script')
      BY <2>2 DEF IsList
    <3> QED BY <3>1
  <2>5. Asked(config)' = Asked(config)
    BY <2>3 DEF Asked
  <2> QED BY <1>0, <2>2, <2>3, <2>4, <2>5 DEF Seeded
<1>4. CASE Upsert
  BY <1>4, UpsertSeeded
<1>5. CASE Refused \/ Load \/ Die \/ Redeploy
  BY <1>1, <1>5 DEF Refused, Load, Die, Redeploy, database
<1>6. CASE UNCHANGED vars
  <2>1. UNCHANGED <<rows, phase, script, at, config>>
    BY <1>6 DEF vars, database, progress, setup
  <2>2. Asked(config)' = Asked(config)
    BY <2>1 DEF Asked
  <2> QED BY <2>1, <2>2 DEF Seeded
<1> QED BY <1>2, <1>3, <1>4, <1>5, <1>6 DEF Next, Main

\* What is recorded is in effect.
LEMMA RecordedInEffect == ASSUME IInv PROVE recorded \subseteq schema
<1>1. PICK n, m \in 0..Latest : schema = 1..n /\ recorded = 1..m /\ n \in {m, m + 1}
  BY DEF IInv, InOrder
<1> QED BY <1>1

\* Load runs when every statement of Seed has its value.
LEMMA LoadServes == ASSUME IInv, Load PROVE ServesConfig'
<1> USE DEF IInv
<1>1. /\ UNCHANGED <<schema, recorded, rows, release, config>>
      /\ scopes' = {r[2] : r \in ScopeRows} /\ keys' = Keyring(config)
  BY DEF Load, database, setup
<1>2. 1..release \subseteq schema \cap recorded
  BY RecordedInEffect DEF Reached, Load
<1>3. ASSUME NEW s \in Asked(config) PROVE rows[s.row] = s.value
  <2>1. /\ IsList(script) /\ Range(script) = Asked(config)
        /\ \A i \in DOMAIN script : i < at => rows[script[i].row] = script[i].value
        /\ at \in Nat /\ at > Len(script)
    BY DEF Seeded, Load
  <2>2. PICK i \in DOMAIN script : s = script[i]
    BY <2>1 DEF Range
  <2>3. i \in 1..Len(script) /\ Len(script) \in Nat
    BY <2>1 DEF IsList
  <2> QED BY <2>1, <2>2, <2>3
<1>4. ASSUME NEW n \in Range(config.scopes)
      PROVE  NormalName[n] \in {r[2] : r \in ScopeRows}
  <2> DEFINE row == <<"scope", NormalName[n]>>
  <2>1. Statement(row, TRUE) \in Asked(config)
    BY DEF Asked
  <2>2. Statement(row, TRUE).row = row /\ Statement(row, TRUE).value = TRUE
    BY DEF Statement
  <2>3. rows[row] = TRUE
    BY <1>3, <2>1, <2>2
  <2>4. row \in Rows /\ DOMAIN rows = Rows
    BY <2>1, <2>2, AskedRow DEF TypeOK, Seeded
  <2>5. row \in ScopeRows
    BY <2>3, <2>4, BootAssumption DEF ScopeRows
  <2> QED BY <2>5
<1>5. {Derived[t] : t \in config.hashtags} \subseteq Keyring(config)
  BY DEF Keyring
<1>6. Asked(config)' = Asked(config)
  BY <1>1 DEF Asked
<1> QED BY <1>1, <1>2, <1>3, <1>4, <1>5, <1>6 DEF ServesConfig

LEMMA NextServes == ASSUME IInv, [Next]_vars PROVE ServesConfig'
<1>1. CASE Load
  BY <1>1, LoadServes
<1>2. CASE Start \/ Ledger \/ RecordFirst \/ Skip \/ Apply \/ Rejected \/ Record
  BY <1>2 DEF ServesConfig, Start, Ledger, RecordFirst, Skip, Apply, Rejected, Record
<1>3. CASE BeginSeed \/ Upsert \/ Refused \/ Die \/ Redeploy
  BY <1>3 DEF ServesConfig, BeginSeed, Upsert, Refused, Die, Redeploy
<1>4. CASE UNCHANGED vars
  <2>1. UNCHANGED <<schema, recorded, rows, phase, scopes, keys, release, config>>
    BY <1>4 DEF vars, database, progress, stores, setup
  <2>2. Asked(config)' = Asked(config)
    BY <2>1 DEF Asked
  <2> QED BY <2>1, <2>2 DEF IInv, ServesConfig
<1> QED BY <1>1, <1>2, <1>3, <1>4 DEF Next, Main

LEMMA NextIInv == ASSUME IInv, [Next]_vars PROVE IInv'
BY NextTypeOK, NextInOrder, NextReached, NextSeeded, NextServes DEF IInv

LEMMA Invariance == Spec => []IInv
BY InitIInv, NextIInv, PTL DEF Spec

\* The types of what RunMigrations keeps and is told.
THEOREM TypeCorrect == Spec => []TypeOK
<1>1. IInv => TypeOK
  BY DEF IInv
<1> QED BY <1>1, Invariance, PTL

\* Migrations take effect in the order of their names, and a crash can cost
\* the record of the last one alone.
THEOREM AppliesInOrder == Spec => []InOrder
<1>1. IInv => InOrder
  BY DEF IInv
<1> QED BY <1>1, Invariance, PTL

\* Whenever the server runs, its schema has all that its release needs, every
\* row that its config names says what the config does, whatever boots that
\* were cut off and other configs have written there, and every configured
\* scope and hashtag has its key.
THEOREM ServesWhatIsConfigured == Spec => []ServesConfig
<1>1. IInv => ServesConfig
  BY DEF IInv
<1> QED BY <1>1, Invariance, PTL

\* A boot ends at an error of a file only if a crash has separated from its
\* record a file behind 001 that cannot be executed again, or if a border file
\* of the config is bad: what GetsUp excuses, and nothing else.
THEOREM OnlyExcusedErrors == Spec => [][Excused]_vars
<1>1. ASSUME IInv PROVE Excused
  <2> USE <1>1, BootAssumption DEF IInv, TypeOK
  <2>1. ASSUME Rejected PROVE Stranded
    <3>1. file \in schema \ (recorded \cup Repeatable) /\ file <= release /\ phase = "check"
      BY <2>1 DEF Rejected
    <3>2. file # 1
      BY <3>1 DEF Reached
    <3>3. file \in 2..release
      BY <3>1, <3>2 DEF Files
    <3> QED BY <3>1, <3>3 DEF Stranded
  <2>2. ASSUME Refused PROVE Misconfigured
    <3>1. /\ script[at].value = Bad /\ at \in 1..Len(script)
          /\ IsList(script) /\ Range(script) = Asked(config)
      BY <2>2 DEF Refused, Seeded, IsList
    <3>2. at \in DOMAIN script
      BY <3>1 DEF IsList
    <3>3. script[at] \in Asked(config)
      BY <3>1, <3>2 DEF Range
    <3>4. Says(config, script[at])
      BY <3>3, AskedKinds
    <3>5. \A x \in DOMAIN config.sites :
            script[at] # Statement(<<"details", x>>, config.sites[x].name)
      BY <3>1 DEF Statement
    <3>6. PICK x \in DOMAIN config.sites :
            script[at] = Statement(<<"border", x>>, config.sites[x].border)
      BY <3>1, <3>4, <3>5 DEF Says
    <3> QED BY <3>1, <3>6 DEF Misconfigured, Statement
  <2> QED BY <2>1, <2>2 DEF Excused
<1> QED BY <1>1, Invariance, PTL
=============================================================================
