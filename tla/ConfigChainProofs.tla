------------------------- MODULE ConfigChainProofs -------------------------
(***************************************************************************)
(* That the chains of a configuration are carried, proved for chains of any *)
(* length and any number of them. Lists come first, then what one call of   *)
(* Chain lays out and how a walk passes it, then the invariant ConfigInv    *)
(* and one lemma for each action that keeps it.                             *)
(***************************************************************************)
EXTENDS ConfigChain, ListsProofs, SequenceTheorems, FiniteSetTheorems

-----------------------------------------------------------------------------
(* Lists                                                                       *)

\* A set of numbers has a least one.
LEMMA Least ==
  ASSUME NEW S, S \subseteq Nat, S # {}
  PROVE  \E x \in S : \A y \in S : x <= y
<1> DEFINE R == {ss \in Nat \X Nat : ss[1] < ss[2]}
<1>1. IsWellFoundedOn(R, Nat)
  BY NatLessThanWellFounded DEF OpToRel
<1>2. PICK x \in S : \A y \in S : ~(<<y, x>> \in R)
  <2> HIDE DEF R
  <2> QED BY <1>1, WFMin
<1>3. ASSUME NEW y \in S PROVE x <= y
  <2>1. x \in Nat /\ y \in Nat /\ ~(<<y, x>> \in R)
    BY <1>2
  <2>2. QED
    BY <2>1
<1>4. QED
  BY <1>3

\* What is filtered of two lists in a row.
LEMMA FilterConcat ==
  ASSUME NEW X, NEW s \in Seq(X), NEW t \in Seq(X), NEW T
  PROVE  Filter(s \o t, T) = Filter(s, T) \o Filter(t, T)
<1> DEFINE p(n) == SubSeq(t, 1, n)
           S == {n \in 0..Len(t) : Filter(s \o p(n), T) = Filter(s, T) \o Filter(p(n), T)}
<1>1. 0 \in S
  <2> DEFINE e == p(0)
             F == Filter(s, T)
  <2>1. e \in Seq(X) /\ ToSet(e) = {} /\ s \o e = s /\ 0 \in 0..Len(t) /\ e = <<>>
    BY DEF ToSet
  <2>2. F \in Seq(X)
    BY FilterFacts
  <2> HIDE DEF e, F
  <2>3. Filter(e, T) = e
    BY <2>1, FilterAll
  <2>4. F \o e = F
    BY <2>1, <2>2
  <2>5. Filter(s \o e, T) = F \o Filter(e, T)
    BY <2>1, <2>3, <2>4 DEF F
  <2>6. QED
    BY <2>1, <2>5 DEF e, F
<1>2. ASSUME NEW n \in 0..Len(t)-1, n \in S PROVE n + 1 \in S
  <2> DEFINE a == p(n)
             y == t[n + 1]
             b == p(n + 1)
  <2>1. /\ a \in Seq(X) /\ y \in X /\ n + 1 \in 0..Len(t)
        /\ Filter(s \o a, T) = Filter(s, T) \o Filter(a, T)
    BY <1>2
  <2>2. b = Append(a, y)
    BY PrefixGrows
  <2> DEFINE u == s \o a
             G == Filter(s, T)
             H == Filter(a, T)
  <2> HIDE DEF a, y, b
  <2>3. s \o Append(a, y) = Append(u, y) /\ u \in Seq(X)
    BY <2>1
  <2> HIDE DEF u
  <2>4. Filter(Append(u, y), T) = IF y \in T THEN Append(Filter(u, T), y) ELSE Filter(u, T)
    BY <2>1, <2>3, FilterAppend
  <2>5. Filter(Append(a, y), T) = IF y \in T THEN Append(Filter(a, T), y) ELSE Filter(a, T)
    BY <2>1, FilterAppend
  <2>6. G \in Seq(X) /\ H \in Seq(X)
    BY <2>1, FilterFacts
  <2> HIDE DEF G, H
  <2>7. G \o Append(H, y) = Append(G \o H, y)
    BY <2>1, <2>6
  <2>8. Filter(s \o b, T) = G \o Filter(b, T)
    <3>1. Filter(u, T) = G \o H
      BY <2>1 DEF u, G, H
    <3>2. Filter(s \o b, T) = IF y \in T THEN Append(G \o H, y) ELSE G \o H
      BY <2>2, <2>3, <2>4, <3>1
    <3>3. Filter(b, T) = IF y \in T THEN Append(H, y) ELSE H
      BY <2>2, <2>5 DEF H
    <3>4. QED
      BY <2>7, <3>2, <3>3
  <2>9. QED
    BY <2>1, <2>8 DEF b, G
<1>3. Len(t) \in S
  <2>1. Len(t) \in Nat
    OBVIOUS
  <2> HIDE DEF S
  <2> QED BY <1>1, <1>2, <2>1, Induction
<1>4. p(Len(t)) = t
  BY SubSeqFull
<1>5. QED
  BY <1>3, <1>4

LEMMA FilterNone ==
  ASSUME NEW X, NEW s \in Seq(X), NEW T, Range(s) \cap T = {}
  PROVE  Filter(s, T) = <<>>
<1>1. Filter(s, T) \in Seq(X) /\ ToSet(Filter(s, T)) = {}
  BY FilterFacts DEF ToSet, Range
<1> DEFINE f == Filter(s, T)
<1> HIDE DEF f
<1>2. ASSUME f \in Seq(X), ToSet(f) = {} PROVE f = <<>>
  <2>1. 1 \notin DOMAIN f
    BY <1>2 DEF ToSet
  <2>2. QED
    BY <2>1, <1>2
<1>3. QED
  BY <1>1, <1>2 DEF f

LEMMA FilterShort ==
  ASSUME NEW X, NEW s \in Seq(X), NEW T
  PROVE  Len(Filter(s, T)) <= Len(s)
<1>1. PICK f : /\ f[0] = <<>>
               /\ \A i \in 1..Len(s) : f[i] = IF s[i] \in T THEN Append(f[i-1], s[i]) ELSE f[i-1]
               /\ Filter(s, T) = f[Len(s)]
  BY Filtered
<1> DEFINE S == {i \in 0..Len(s) : f[i] \in Seq(X) /\ Len(f[i]) <= i}
<1>2. 0 \in S
  <2>1. <<>> \in Seq(X) /\ Len(<<>>) <= 0 /\ 0 \in 0..Len(s)
    OBVIOUS
  <2>2. f[0] \in Seq(X) /\ Len(f[0]) <= 0
    BY <1>1, <2>1
  <2>3. QED
    BY <2>1, <2>2
<1>3. ASSUME NEW i \in 0..Len(s)-1, i \in S PROVE i + 1 \in S
  <2>1. /\ i + 1 \in 1..Len(s) /\ i + 1 \in 0..Len(s) /\ i + 1 - 1 = i /\ s[i + 1] \in X
        /\ f[i] \in Seq(X) /\ Len(f[i]) <= i
    BY <1>3
  <2>2. f[i + 1] = IF s[i + 1] \in T THEN Append(f[i], s[i + 1]) ELSE f[i]
    BY <1>1, <2>1
  <2>3. f[i + 1] \in Seq(X) /\ Len(f[i + 1]) <= i + 1
    BY <2>1, <2>2
  <2>4. QED
    BY <2>1, <2>3
<1>4. Len(s) \in S
  <2>1. Len(s) \in Nat
    OBVIOUS
  <2> HIDE DEF S
  <2> QED BY <1>2, <1>3, <2>1, Induction
<1>5. QED
  BY <1>1, <1>4

\* The sums Total goes through.
LEMMA Totalled ==
  ASSUME NEW X, NEW lists \in Seq(Seq(X)), NEW n \in 0..Len(lists)
  PROVE  \E f \in [0..n -> Nat] : /\ f[0] = 0
                                  /\ \A i \in 1..n : f[i] = f[i-1] + Len(lists[i])
                                  /\ Total(lists, n) = f[n]
<1> DEFINE step == [i \in 1..n |-> [a \in Nat |-> a + Len(lists[i])]]
           body(f) == [i \in 0..n |-> IF i = 0 THEN 0 ELSE f[i - 1] + Len(lists[i])]
           F == CHOOSE f : f = body(f)
<1>1. n \in Nat /\ 0 \in Nat /\ \A i \in 1..n : Len(lists[i]) \in Nat
  <2>1. \A i \in 1..Len(lists) : lists[i] \in Seq(X)
    OBVIOUS
  <2>2. \A i \in 1..n : i \in 1..Len(lists)
    OBVIOUS
  <2>3. QED
    BY <2>1, <2>2
<1>2. step \in [1..n -> [Nat -> Nat]]
  BY <1>1
<1>3. PICK g \in [0..n -> Nat] : g[0] = 0 /\ \A i \in 1..n : g[i] = step[i][g[i-1]]
  <2> HIDE DEF step, body, F
  <2>1. Computes(Nat, 0, n, step)
    BY <1>1, <1>2, Computed
  <2>2. QED
    BY <2>1 DEF Computes
<1>4. ASSUME NEW i \in 1..n PROVE g[i] = g[i-1] + Len(lists[i])
  <2>1. g[i-1] \in Nat
    BY <1>1
  <2>2. QED
    BY <1>3, <2>1
<1>5. g = body(g)
  <2>1. ASSUME NEW i \in 0..n PROVE g[i] = body(g)[i]
    <3>1. CASE i = 0
      BY <1>3, <3>1
    <3>2. CASE i # 0
      <4>1. i \in 1..n
        BY <1>1, <3>2
      <4>2. QED
        BY <1>4, <4>1, <3>2
    <3>3. QED
      BY <3>1, <3>2
  <2>2. QED
    BY <2>1
<1>6. F = body(F)
  <2> HIDE DEF body
  <2> QED BY <1>5
<1>7. Total(lists, n) = F[n]
  BY DEF Total
<1> HIDE DEF F
<1>8. /\ F[0] = 0
      /\ \A i \in 1..n : F[i] = F[i-1] + Len(lists[i])
  <2>1. \A i \in 0..n : F[i] = body(F)[i]
    BY <1>6
  <2>2. 0 \in 0..n /\ \A i \in 1..n : i \in 0..n /\ i # 0
    BY <1>1
  <2>3. QED
    BY <2>1, <2>2
<1>9. ASSUME NEW i \in 0..n PROVE F[i] = g[i]
  <2> DEFINE S == {m \in 0..n : F[m] = g[m]}
  <2>1. 0 \in S
    BY <1>3, <1>8, <1>1
  <2>2. ASSUME NEW m \in 0..n-1, m \in S PROVE m + 1 \in S
    <3>1. m + 1 \in 1..n /\ m + 1 - 1 = m /\ F[m] = g[m] /\ m + 1 \in 0..n
      BY <2>2, <1>1
    <3>2. F[m + 1] = g[m + 1]
      BY <1>4, <1>8, <3>1
    <3>3. QED
      BY <3>1, <3>2
  <2>3. i \in Nat /\ \A m \in 0..i-1 : m \in 0..n-1
    BY <1>1
  <2>4. i \in S
    <3> HIDE DEF S
    <3> QED BY <2>1, <2>2, <2>3, Induction
  <2>5. QED
    BY <2>4
<1>10. Total(lists, n) = g[n]
  BY <1>1, <1>7, <1>9
<1>11. QED
  BY <1>3, <1>4, <1>10

\* The elements of lists, counted list by list.
LEMMA TotalFacts ==
  ASSUME NEW X, NEW lists \in Seq(Seq(X))
  PROVE  /\ Total(lists, 0) = 0
         /\ \A n \in 0..Len(lists) : Total(lists, n) \in Nat
         /\ \A n \in 1..Len(lists) : Total(lists, n) = Total(lists, n - 1) + Len(lists[n])
         /\ \A m, n \in 0..Len(lists) : m <= n => Total(lists, m) <= Total(lists, n)
<1> DEFINE N == Len(lists)
<1>0. N \in Nat /\ \A i \in 1..N : Len(lists[i]) \in Nat
  <2>1. \A i \in 1..Len(lists) : lists[i] \in Seq(X)
    OBVIOUS
  <2>2. QED
    BY <2>1
<1>1. Total(lists, 0) = 0
  <2>1. 0 \in 0..Len(lists)
    OBVIOUS
  <2>2. QED
    BY <2>1, Totalled
<1>2. \A n \in 0..N : Total(lists, n) \in Nat
  <2> TAKE n \in 0..N
  <2>1. n \in 0..n
    BY <1>0
  <2>2. QED
    BY <2>1, Totalled
<1>3. ASSUME NEW n \in 1..N PROVE Total(lists, n) = Total(lists, n - 1) + Len(lists[n])
  <2>1. n \in 0..Len(lists) /\ n - 1 \in 0..Len(lists)
    BY <1>0
  <2>2. PICK f \in [0..n -> Nat] : /\ f[0] = 0
                                   /\ \A i \in 1..n : f[i] = f[i-1] + Len(lists[i])
                                   /\ Total(lists, n) = f[n]
    BY <2>1, Totalled
  <2>3. PICK g \in [0..n-1 -> Nat] : /\ g[0] = 0
                                     /\ \A i \in 1..n-1 : g[i] = g[i-1] + Len(lists[i])
                                     /\ Total(lists, n - 1) = g[n - 1]
    BY <2>1, Totalled
  <2> DEFINE S == {m \in 0..n-1 : f[m] = g[m]}
  <2>4. 0 \in S
    BY <2>1, <2>2, <2>3
  <2>5. ASSUME NEW m \in 0..(n-1)-1, m \in S PROVE m + 1 \in S
    <3>1. m + 1 \in 1..n /\ m + 1 \in 1..n-1 /\ m + 1 - 1 = m /\ f[m] = g[m] /\ m + 1 \in 0..n-1
      BY <2>5, <1>0
    <3>2. f[m + 1] = g[m + 1]
      BY <2>2, <2>3, <3>1
    <3>3. QED
      BY <3>1, <3>2
  <2>6. n - 1 \in S
    <3>1. n - 1 \in Nat
      BY <1>0
    <3> HIDE DEF S
    <3> QED BY <2>4, <2>5, <3>1, Induction
  <2>7. n \in 1..n
    BY <1>0
  <2>8. QED
    BY <2>2, <2>3, <2>6, <2>7
<1>4. ASSUME NEW m \in 0..N, NEW n \in 0..N, m <= n PROVE Total(lists, m) <= Total(lists, n)
  <2> DEFINE S == {i \in 0..n-m : Total(lists, m) <= Total(lists, m + i)}
  <2>1. 0 \in S
    <3>1. m + 0 = m /\ 0 \in 0..n-m
      BY <1>4, <1>0
    <3>2. Total(lists, m) \in Nat
      BY <1>2
    <3>3. QED
      BY <3>1, <3>2
  <2>2. ASSUME NEW i \in 0..(n-m)-1, i \in S PROVE i + 1 \in S
    <3>1. m + i + 1 \in 1..N /\ (m + i + 1) - 1 = m + i /\ m + i \in 0..N /\ i + 1 \in 0..n-m
          /\ m + i + 1 = m + (i + 1)
      BY <2>2, <1>4, <1>0
    <3>2. Total(lists, m + i + 1) = Total(lists, m + i) + Len(lists[m + i + 1])
      BY <1>3, <3>1
    <3>3. Total(lists, m) \in Nat /\ Total(lists, m + i) \in Nat /\ Len(lists[m + i + 1]) \in Nat
      BY <1>0, <1>2, <3>1
    <3>4. Total(lists, m) <= Total(lists, m + i)
      BY <2>2
    <3>5. Total(lists, m) <= Total(lists, m + (i + 1))
      BY <3>1, <3>2, <3>3, <3>4
    <3>6. QED
      BY <3>1, <3>5
  <2>3. n - m \in S
    <3>1. n - m \in Nat
      BY <1>4, <1>0
    <3> HIDE DEF S
    <3> QED BY <2>1, <2>2, <3>1, Induction
  <2>4. m + (n - m) = n
    BY <1>0
  <2>5. QED
    BY <2>3, <2>4
<1>5. QED
  BY <1>0, <1>1, <1>2, <1>3, <1>4

-----------------------------------------------------------------------------
(* How a chain is split                                                        *)

LEMMA CutFacts ==
  ASSUME NEW hops \in Seq(Hop)
  PROVE  /\ Cut(hops) \in 1..(Len(hops) + 1)
         /\ Cut(hops) \in 1..Len(hops) => hops[Cut(hops)] \in Xray
         /\ \A i \in 1..(Cut(hops) - 1) : i \in 1..Len(hops) /\ hops[i] \notin Xray
<1> DEFINE S == {n \in 1..(Len(hops) + 1) : n \in DOMAIN hops => hops[n] \in Xray}
           Good(n) == /\ n \in DOMAIN hops => hops[n] \in Xray
                      /\ \A i \in 1..(n - 1) : hops[i] \notin Xray
<1>1. Len(hops) \in Nat /\ DOMAIN hops = 1..Len(hops)
  OBVIOUS
<1>2. Len(hops) + 1 \in S /\ S \subseteq Nat
  BY <1>1
<1>3. PICK n \in S : \A m \in S : n <= m
  <2>1. S # {}
    BY <1>2
  <2> HIDE DEF S
  <2> QED BY <1>2, <2>1, Least
<1>4. n \in 1..(Len(hops) + 1) /\ Good(n)
  <2>1. ASSUME NEW i \in 1..(n - 1) PROVE hops[i] \notin Xray
    <3>1. i \notin S /\ i \in 1..(Len(hops) + 1) /\ i \in DOMAIN hops
      BY <1>1, <1>3
    <3>2. QED
      BY <3>1
  <2>2. QED
    BY <1>3, <2>1
<1>5. Cut(hops) = CHOOSE m \in 1..(Len(hops) + 1) : Good(m)
  BY DEF Cut
<1> HIDE DEF Good
<1>6. Cut(hops) \in 1..(Len(hops) + 1) /\ Good(Cut(hops))
  BY <1>4, <1>5
<1>7. QED
  BY <1>1, <1>6 DEF Good

LEMMA CrossingFacts ==
  ASSUME NEW hops \in Seq(Hop)
  PROVE  /\ IsFiniteSet(Crossings(hops))
         /\ Crossings(hops) \subseteq 1..Len(hops)
         /\ \A i \in 1..Len(hops) :
               i \in Crossings(hops) <=> (hops[i] \in Xray) # (i > 1 /\ hops[i - 1] \in Xray)
<1>1. Crossings(hops) \subseteq 1..Len(hops) /\ Len(hops) \in Nat
  BY DEF Crossings
<1>2. IsFiniteSet(1..Len(hops))
  BY <1>1, FS_Interval
<1>3. IsFiniteSet(Crossings(hops))
  BY <1>1, <1>2, FS_Subset
<1>4. ASSUME NEW i \in 1..Len(hops)
      PROVE  i \in Crossings(hops) <=> (hops[i] \in Xray) # (i > 1 /\ hops[i - 1] \in Xray)
  <2>1. InXray(hops, i) <=> hops[i] \in Xray
    BY DEF InXray
  <2>2. InXray(hops, i - 1) <=> i > 1 /\ hops[i - 1] \in Xray
    BY DEF InXray
  <2>3. i \in Crossings(hops) <=> InXray(hops, i) # InXray(hops, i - 1)
    BY DEF Crossings
  <2>4. QED
    <3>1. InXray(hops, i) \in BOOLEAN /\ InXray(hops, i - 1) \in BOOLEAN
      BY DEF InXray
    <3>2. QED
      BY <2>1, <2>2, <2>3, <3>1
<1>5. QED
  BY <1>1, <1>3, <1>4

\* No three crossings in a chain that is not refused.
LEMMA TwoCrossings ==
  ASSUME NEW hops \in Seq(Hop), ~Refused(hops),
         NEW a \in Crossings(hops), NEW b \in Crossings(hops), NEW c \in Crossings(hops)
  PROVE  ~(a < b /\ b < c)
<1> SUFFICES ASSUME a < b, b < c PROVE FALSE
  OBVIOUS
<1> DEFINE C == Crossings(hops)
<1>1. IsFiniteSet(C) /\ ~(Cardinality(C) > 2) /\ C \subseteq 1..Len(hops)
  BY CrossingFacts DEF Refused
<1> HIDE DEF C
<1>2. a # b /\ b # c /\ a # c /\ {a} \cup {b} \cup {c} \in SUBSET C
  BY <1>1 DEF C
<1> DEFINE A == {a}
           B == A \cup {b}
           D == B \cup {c}
<1>3. IsFiniteSet(A) /\ Cardinality(A) = 1 /\ b \notin A
  BY <1>2, FS_Singleton
<1>4. c \notin B /\ D \in SUBSET C
  BY <1>2
<1> HIDE DEF A
<1>5. IsFiniteSet(B) /\ Cardinality(B) = 2
  BY <1>3, FS_AddElement
<1> HIDE DEF B
<1>6. Cardinality(D) = 3
  <2>1. c \notin B
    BY <1>4
  <2>2. Cardinality(B \cup {c}) = Cardinality(B) + 1
    BY <1>5, <2>1, FS_AddElement
  <2>3. QED
    BY <1>5, <2>2
<1> HIDE DEF D
<1>7. Cardinality(D) <= Cardinality(C)
  BY <1>1, <1>4, FS_Subset
<1>8. Cardinality(C) \in Nat
  BY <1>1, FS_CardinalityType
<1>9. QED
  BY <1>1, <1>6, <1>7, <1>8

\* A chain that is not refused is what goes into Xray, Xray's part and what comes back.
LEMMA SplitLists ==
  ASSUME NEW hops \in Seq(Hop), ~Refused(hops)
  PROVE  /\ LeadHops(hops) \in Seq(Hop) /\ XrayHops(hops) \in Seq(Hop) /\ TailHops(hops) \in Seq(Hop)
         /\ hops = (LeadHops(hops) \o XrayHops(hops)) \o TailHops(hops)
         /\ ToXray(hops) <=> XrayHops(hops) # <<>>
         /\ ToSing(hops) <=> TailHops(hops) # <<>>
         /\ TailHops(hops) # <<>> => XrayHops(hops) # <<>>
<1> DEFINE N == Len(hops)
           c == Cut(hops)
           D == {i \in c..N+1 : i \in 1..N => hops[i] \notin Xray}
<1>1. N \in Nat /\ DOMAIN hops = 1..N /\ \A i \in 1..N : hops[i] \in Hop
  OBVIOUS
<1>2. /\ c \in 1..N+1 /\ (c \in 1..N => hops[c] \in Xray)
      /\ \A i \in 1..c-1 : i \in 1..N /\ hops[i] \notin Xray
  BY CutFacts
<1>3. \A i \in 1..N : i \in Crossings(hops) <=>
                        (hops[i] \in Xray) # (i > 1 /\ hops[i - 1] \in Xray)
  BY CrossingFacts
<1>4. \A i \in Crossings(hops) : i \in 1..N
  BY CrossingFacts
<1> HIDE DEF c, N
<1>5. PICK d \in D : \A i \in D : d <= i
  <2>1. N + 1 \in D /\ D \subseteq Nat
    BY <1>1, <1>2
  <2> HIDE DEF D
  <2> QED BY <2>1, Least
<1>6. d \in c..N+1 /\ d \in Nat /\ c \in Nat /\ (d \in 1..N => hops[d] \notin Xray)
  BY <1>1, <1>2, <1>5
<1>7. \A i \in c..d-1 : i \in 1..N /\ hops[i] \in Xray
  <2> TAKE i \in c..d-1
  <2>1. i \in c..N+1 /\ i \in 1..N /\ ~(d <= i)
    BY <1>1, <1>2, <1>6
  <2>2. QED
    BY <1>5, <2>1
<1> HIDE DEF D
<1>8. d \in 1..N => c < d
  BY <1>1, <1>2, <1>6
<1>9. ASSUME NEW i \in d..N PROVE hops[i] \notin Xray
  <2> SUFFICES ASSUME hops[i] \in Xray PROVE FALSE
    OBVIOUS
  <2> DEFINE E == {j \in d..N : hops[j] \in Xray}
  <2>1. PICK e \in E : \A j \in E : e <= j
    <3>1. i \in E /\ E \subseteq Nat
      BY <1>1, <1>6
    <3> HIDE DEF E
    <3> QED BY <3>1, Least
  <2>2. e \in d..N /\ hops[e] \in Xray /\ d \in 1..N
    BY <1>1, <1>2, <1>6, <2>1
  <2>3. d < e /\ e \in 1..N /\ e - 1 \in d..N /\ e > 1
    BY <1>1, <1>6, <2>2
  <2>4. hops[e - 1] \notin Xray
    <3>1. e - 1 \notin E
      BY <1>6, <2>1, <2>3
    <3>2. QED
      BY <2>3, <3>1
  <2>5. e \in Crossings(hops)
    BY <1>3, <2>2, <2>3, <2>4
  <2>6. c \in Crossings(hops)
    <3>1. c \in 1..N /\ hops[c] \in Xray
      BY <1>1, <1>2, <1>6, <2>2
    <3>2. c > 1 => hops[c - 1] \notin Xray
      BY <1>1, <1>2, <1>6
    <3>3. QED
      BY <1>3, <3>1, <3>2
  <2>7. d \in Crossings(hops)
    <3>1. d > 1 /\ d - 1 \in c..d-1
      BY <1>1, <1>2, <1>6, <1>8, <2>2
    <3>2. hops[d - 1] \in Xray /\ hops[d] \notin Xray
      BY <1>6, <1>7, <2>2, <3>1
    <3>3. QED
      BY <1>3, <2>2, <3>1, <3>2
  <2>8. ~(c < d /\ d < e)
    BY <2>5, <2>6, <2>7, TwoCrossings
  <2>9. QED
    BY <1>8, <2>2, <2>3, <2>8
<1> DEFINE l == SubSeq(hops, 1, c - 1)
           x == SubSeq(hops, c, d - 1)
           t == SubSeq(hops, d, N)
           r == SubSeq(hops, c, N)
<1>10. /\ l \in Seq(Hop) /\ Len(l) = c - 1 /\ \A i \in 1..c-1 : l[i] = hops[i]
       /\ x \in Seq(Hop) /\ Len(x) = d - c /\ \A i \in 1..d-c : x[i] = hops[c + i - 1]
       /\ t \in Seq(Hop) /\ Len(t) = N - d + 1 /\ \A i \in 1..N-d+1 : t[i] = hops[d + i - 1]
  <2>1. l \in Seq(Hop) /\ Len(l) = c - 1 /\ \A i \in 1..c-1 : l[i] = hops[i]
    BY <1>1, <1>2, <1>6 DEF N
  <2>2. x \in Seq(Hop) /\ Len(x) = d - c /\ \A i \in 1..d-c : x[i] = hops[c + i - 1]
    BY <1>1, <1>2, <1>6, <1>7 DEF N
  <2>3. t \in Seq(Hop) /\ Len(t) = N - d + 1 /\ \A i \in 1..N-d+1 : t[i] = hops[d + i - 1]
    BY <1>1, <1>2, <1>6 DEF N
  <2>4. QED
    BY <2>1, <2>2, <2>3
<1>11. r = x \o t
  <2>1. /\ c \in 1..Len(hops)+1 /\ d - 1 \in c-1..Len(hops) /\ Len(hops) \in d-1..Len(hops)
        /\ d - 1 + 1 = d
    BY <1>1, <1>2, <1>6 DEF N
  <2>2. SubSeq(hops, c, d - 1) \o SubSeq(hops, d - 1 + 1, Len(hops)) = SubSeq(hops, c, Len(hops))
    BY <2>1, ConcatAdjacentSubSeq
  <2>3. QED
    BY <2>1, <2>2 DEF N
<1>12. hops = l \o r
  <2>1. /\ 1 \in 1..Len(hops)+1 /\ c - 1 \in 1-1..Len(hops) /\ Len(hops) \in c-1..Len(hops)
        /\ c - 1 + 1 = c
    BY <1>1, <1>2, <1>6 DEF N
  <2>2. SubSeq(hops, 1, c - 1) \o SubSeq(hops, c - 1 + 1, Len(hops)) = SubSeq(hops, 1, Len(hops))
    BY <2>1, ConcatAdjacentSubSeq
  <2>3. SubSeq(hops, 1, Len(hops)) = hops
    BY SubSeqFull
  <2>4. QED
    BY <2>1, <2>2, <2>3 DEF N
<1>13. Range(l) \cap Xray = {} /\ Range(x) \subseteq Xray /\ Range(t) \cap Xray = {}
  <2>1. DOMAIN l = 1..c-1 /\ DOMAIN x = 1..d-c /\ DOMAIN t = 1..N-d+1
    BY <1>1, <1>6, <1>10
  <2>2. \A i \in 1..c-1 : l[i] \notin Xray
    BY <1>2, <1>10
  <2>3. \A i \in 1..d-c : x[i] \in Xray
    <3> TAKE i \in 1..d-c
    <3>1. c + i - 1 \in c..d-1
      BY <1>6
    <3>2. QED
      BY <1>7, <1>10, <3>1
  <2>4. \A i \in 1..N-d+1 : t[i] \notin Xray
    <3> TAKE i \in 1..N-d+1
    <3>1. d + i - 1 \in d..N
      BY <1>1, <1>6
    <3>2. QED
      BY <1>9, <1>10, <3>1
  <2>5. QED
    BY <2>1, <2>2, <2>3, <2>4 DEF Range
<1> HIDE DEF l, x, t, r
<1>14. LeadHops(hops) = l
  BY DEF LeadHops, l, c
<1>15. XrayHops(hops) = x
  <2>0. l \in Seq(Hop) /\ x \in Seq(Hop) /\ t \in Seq(Hop)
    BY <1>10
  <2>1. r \in Seq(Hop)
    BY <1>11, <2>0
  <2>8. \A u, v \in Seq(Hop) : Filter(u \o v, Xray) = Filter(u, Xray) \o Filter(v, Xray)
    BY FilterConcat
  <2>2. Filter(hops, Xray) = Filter(l, Xray) \o Filter(r, Xray)
    <3>1. Filter(l \o r, Xray) = Filter(l, Xray) \o Filter(r, Xray)
      BY <2>0, <2>1, <2>8
    <3>2. QED
      BY <1>12, <3>1
  <2>3. Filter(x \o t, Xray) = Filter(x, Xray) \o Filter(t, Xray)
    BY <2>0, <2>8
  <2>4. Filter(l, Xray) = <<>> /\ Filter(t, Xray) = <<>>
    BY <1>13, <2>0, FilterNone
  <2>5. Filter(x, Xray) = x
    BY <1>13, <2>0, FilterAll DEF Range, ToSet
  <2>6. x \o <<>> = x /\ <<>> \o x = x
    BY <2>0, ConcatEmptySeq
  <2>7. QED
    BY <1>11, <2>2, <2>3, <2>4, <2>5, <2>6 DEF XrayHops
<1>16. TailHops(hops) = t
  <2>1. TailHops(hops) = Filter(x \o t, Hop \ Xray)
    BY <1>11 DEF TailHops, r, c, N
  <2>2. ToSet(x) \cap (Hop \ Xray) = {} /\ ToSet(t) \subseteq Hop \ Xray
    <3>1. Range(t) \subseteq Hop
      BY <1>10, RangeOfSeq
    <3>2. QED
      BY <1>13, <3>1 DEF Range, ToSet
  <2>3. x \in Seq(Hop) /\ t \in Seq(Hop)
    BY <1>10
  <2> DEFINE other == Hop \ Xray
  <2>4. ToSet(x) \cap other = {} /\ ToSet(t) \subseteq other /\ TailHops(hops) = Filter(x \o t, other)
    BY <2>1, <2>2
  <2> HIDE DEF other
  <2>5. Filter(x \o t, other) = t
    BY <2>3, <2>4, FilterEnd
  <2>6. QED
    BY <2>4, <2>5
<1>17. (l \o x) \o t = l \o (x \o t)
  <2>1. l \in Seq(Hop) /\ x \in Seq(Hop) /\ t \in Seq(Hop)
    BY <1>10
  <2>2. QED
    BY <2>1, ConcatAssociative
<1>18. x # <<>> <=> c \in 1..N
  <2>1. x # <<>> <=> d - c > 0
    BY <1>1, <1>6, <1>10
  <2>2. d - c > 0 <=> c \in 1..N
    <3>1. c \in 1..N => c # d
      BY <1>2, <1>6
    <3>2. QED
      BY <1>1, <1>2, <1>6, <3>1
  <2>3. QED
    BY <2>1, <2>2
<1>19. t # <<>> <=> d \in 1..N
  <2>1. t # <<>> <=> N - d + 1 > 0
    BY <1>1, <1>6, <1>10
  <2>2. QED
    BY <2>1, <1>1, <1>2, <1>6
<1>20. ToXray(hops) <=> c \in 1..N
  <2>1. ASSUME ToXray(hops) PROVE c \in 1..N
    <3>1. PICK i \in Crossings(hops) : InXray(hops, i)
      BY <2>1 DEF ToXray
    <3>2. i \in 1..N /\ hops[i] \in Xray
      BY <1>4, <3>1 DEF InXray
    <3>3. QED
      BY <1>1, <1>2, <3>2
  <2>2. ASSUME c \in 1..N PROVE ToXray(hops)
    <3>1. hops[c] \in Xray /\ (c > 1 => hops[c - 1] \notin Xray)
      BY <1>1, <1>2, <2>2
    <3>2. c \in Crossings(hops) /\ InXray(hops, c)
      BY <1>1, <1>3, <2>2, <3>1 DEF InXray
    <3>3. QED
      BY <3>2 DEF ToXray
  <2>3. QED
    BY <2>1, <2>2
<1>21. ToSing(hops) <=> d \in 1..N
  <2>1. ASSUME ToSing(hops) PROVE d \in 1..N
    <3>1. PICK i \in Crossings(hops) : ~InXray(hops, i)
      BY <2>1 DEF ToSing
    <3>2. i \in 1..N /\ hops[i] \notin Xray
      BY <1>1, <1>4, <3>1 DEF InXray
    <3>3. i > 1 /\ hops[i - 1] \in Xray
      BY <1>3, <3>1, <3>2
    <3>4. ~(i - 1 \in 1..c-1) /\ ~(i \in c..d-1)
      BY <1>2, <1>7, <3>2, <3>3
    <3>5. QED
      BY <1>1, <1>2, <1>6, <3>2, <3>3, <3>4
  <2>2. ASSUME d \in 1..N PROVE ToSing(hops)
    <3>1. d - 1 \in c..d-1 /\ d > 1
      BY <1>1, <1>2, <1>6, <1>8, <2>2
    <3>2. hops[d - 1] \in Xray /\ hops[d] \notin Xray
      BY <1>6, <1>7, <2>2, <3>1
    <3>3. d \in Crossings(hops) /\ ~InXray(hops, d)
      BY <1>3, <2>2, <3>1, <3>2 DEF InXray
    <3>4. QED
      BY <3>3 DEF ToSing
  <2>3. QED
    BY <2>1, <2>2
<1>22. QED
  <2>1. d \in 1..N => c \in 1..N
    BY <1>1, <1>2, <1>6
  <2>2. QED
    BY <1>10, <1>11, <1>12, <1>14, <1>15, <1>16, <1>17, <1>18, <1>19, <1>20, <1>21, <2>1

\* How many hops of a chain are in front of Xray, in it and behind it.
Leads(hops) == Len(LeadHops(hops))
Xrays(hops) == Len(XrayHops(hops))
Tails(hops) == Len(TailHops(hops))

LEMMA SplitFacts ==
  ASSUME NEW hops \in HopList, ~Refused(hops)
  PROVE  /\ Len(hops) \in Nat /\ Len(hops) > 0
         /\ Leads(hops) \in Nat /\ Xrays(hops) \in Nat /\ Tails(hops) \in Nat
         /\ Leads(hops) + Xrays(hops) + Tails(hops) = Len(hops)
         /\ ToXray(hops) <=> Xrays(hops) > 0
         /\ ToSing(hops) <=> Tails(hops) > 0
         /\ Tails(hops) > 0 => Xrays(hops) > 0
         /\ \A i \in 1..Leads(hops) : LeadHops(hops)[i] = hops[i]
         /\ \A i \in 1..Xrays(hops) :
               XrayHops(hops)[i] = hops[Leads(hops) + i] /\ XrayHops(hops)[i] \in Xray
         /\ \A i \in 1..Tails(hops) : TailHops(hops)[i] = hops[Leads(hops) + Xrays(hops) + i]
         /\ \A i \in 1..Len(hops) : hops[i] \in Hop
<1> DEFINE l == LeadHops(hops)
           x == XrayHops(hops)
           t == TailHops(hops)
<1>1. hops \in Seq(Hop) /\ hops # <<>>
  BY DEF HopList
<1>2. /\ l \in Seq(Hop) /\ x \in Seq(Hop) /\ t \in Seq(Hop)
      /\ hops = (l \o x) \o t
      /\ ToXray(hops) <=> x # <<>>
      /\ ToSing(hops) <=> t # <<>>
      /\ t # <<>> => x # <<>>
  BY <1>1, SplitLists
<1>3. ToSet(x) \subseteq Xray
  BY <1>1, FilterFacts DEF XrayHops
<1>4. \A i \in 1..Len(hops) : hops[i] \in Hop
  BY <1>1
<1> HIDE DEF l, x, t
<1>5. /\ Len(l) \in Nat /\ Len(x) \in Nat /\ Len(t) \in Nat
      /\ Len(l) + Len(x) + Len(t) = Len(hops)
      /\ \A i \in 1..Len(l) : l[i] = hops[i]
      /\ \A i \in 1..Len(x) : x[i] = hops[Len(l) + i]
      /\ \A i \in 1..Len(t) : t[i] = hops[Len(l) + Len(x) + i]
  <2> DEFINE u == l \o x
  <2>1. /\ u \in Seq(Hop) /\ Len(l) \in Nat /\ Len(x) \in Nat /\ Len(u) = Len(l) + Len(x)
        /\ \A i \in 1..Len(l) : l[i] = u[i] /\ i \in 1..Len(u)
        /\ \A i \in 1..Len(x) : x[i] = u[Len(l) + i] /\ Len(l) + i \in 1..Len(u)
    BY <1>2
  <2>2. hops = u \o t
    BY <1>2
  <2> HIDE DEF u
  <2>3. /\ Len(t) \in Nat /\ Len(hops) = Len(u) + Len(t)
        /\ \A i \in 1..Len(u) : u[i] = hops[i]
        /\ \A i \in 1..Len(t) : t[i] = hops[Len(u) + i]
    <3>1. u \in Seq(Hop) /\ t \in Seq(Hop)
      BY <1>2, <2>1
    <3>2. QED
      BY <2>2, <3>1
  <2>4. QED
    BY <2>1, <2>3
<1>6. (x # <<>> <=> Len(x) > 0) /\ (t # <<>> <=> Len(t) > 0)
  BY <1>2
<1>7. \A i \in 1..Len(x) : x[i] \in Xray
  BY <1>2, <1>3 DEF ToSet
<1>8. Len(hops) > 0 /\ Len(hops) \in Nat
  BY <1>1
<1>9. QED
  BY <1>2, <1>4, <1>5, <1>6, <1>7, <1>8 DEF l, x, t, Leads, Xrays, Tails

\* A full configuration is the last hop, and then none is of Xray.
LEMMA FullIsLast ==
  ASSUME NEW hops \in HopList, ~Refused(hops), NEW i \in 1..Len(hops),
         hops[i] \in FullXray
  PROVE  i = Len(hops) /\ ~ToXray(hops)
<1>1. i = Len(hops)
  BY DEF Refused, Terminal, HopList
<1>2. Last(hops) = hops[i]
  BY <1>1 DEF Last
<1>3. hops # <<>>
  BY DEF HopList
<1>4. QED
  BY <1>1, <1>2, <1>3 DEF Refused

-----------------------------------------------------------------------------
(* Tags and outbounds                                                          *)

Word == {"proxy", "warp-bypass", "config", "pool", "route", "aux", "xrayfull"} \cup Nat
Tags == Seq(Word)
EndType  == [hop : Hop \cup {"bridge", "pool"}, port : Nat]
OutType == [tag : Tags, end : EndType, detour : Tags]

\* What may be asked of buildOutboundChain, and what is.
AskType ==
    [hops : HopList, prefix : Tags \ {<<>>}, start : Nat, link : BOOLEAN, proxy : BOOLEAN,
     warp : BOOLEAN, sole : BOOLEAN]
Sound(r) ==
    /\ r \in AskType
    /\ r.link \/ Len(r.hops) = 1
    /\ r.warp => r.proxy /\ Len(r.hops) >= 2 /\ r.hops[1] = Warp

\* The tag of the i-th outbound.
TagAt(r, i) ==
    IF r.proxy /\ i = 1 THEN Proxy
    ELSE IF r.warp /\ i = 2 THEN WarpBypass ELSE Tag(r.prefix, r.start + i - 1)

LEMMA TagFacts ==
  /\ Proxy \in Tags /\ WarpBypass \in Tags /\ NoTag \in Tags
  /\ Proxy # NoTag /\ WarpBypass # NoTag /\ Proxy # WarpBypass
  /\ \A p \in Tags \ {<<>>}, n \in Nat :
        /\ Tag(p, n) \in Tags
        /\ Tag(p, n) # NoTag /\ Tag(p, n) # Proxy /\ Tag(p, n) # WarpBypass
  /\ \A p, q \in Tags, m, n \in Nat : Tag(p, m) = Tag(q, n) => p = q /\ m = n
<1>1. "proxy" \in Word /\ "warp-bypass" \in Word /\ \A n \in Nat : n \in Word
  BY DEF Word
<1>2. /\ Proxy \in Tags /\ Len(Proxy) = 1 /\ Proxy[1] = "proxy"
      /\ WarpBypass \in Tags /\ Len(WarpBypass) = 1 /\ WarpBypass[1] = "warp-bypass"
      /\ NoTag \in Tags /\ Len(NoTag) = 0
  BY <1>1 DEF Proxy, WarpBypass, NoTag, Tags
<1>3. Proxy # NoTag /\ WarpBypass # NoTag /\ Proxy # WarpBypass
  BY <1>2
<1>4. ASSUME NEW p \in Tags \ {<<>>}, NEW n \in Nat
      PROVE  Tag(p, n) \in Tags /\ Len(Tag(p, n)) # 0 /\ Len(Tag(p, n)) # 1
  <2>1. p \in Seq(Word) /\ p # <<>> /\ n \in Word
    BY <1>1 DEF Tags
  <2>2. Append(p, n) \in Seq(Word) /\ Len(Append(p, n)) = Len(p) + 1 /\ Len(p) \in Nat /\ Len(p) # 0
    BY <2>1
  <2>3. QED
    BY <2>2 DEF Tag, Tags
<1>5. ASSUME NEW p \in Tags, NEW q \in Tags, NEW m \in Nat, NEW n \in Nat, Tag(p, m) = Tag(q, n)
      PROVE  p = q /\ m = n
  <2>1. p \in Seq(Word) /\ q \in Seq(Word) /\ m \in Word /\ n \in Word /\ Append(p, m) = Append(q, n)
    BY <1>1, <1>5 DEF Tags, Tag
  <2>2. QED
    BY <2>1, AppendInjective
<1>6. \A p \in Tags \ {<<>>}, n \in Nat :
        /\ Tag(p, n) \in Tags
        /\ Tag(p, n) # NoTag /\ Tag(p, n) # Proxy /\ Tag(p, n) # WarpBypass
  <2> TAKE p \in Tags \ {<<>>}, n \in Nat
  <2>1. Tag(p, n) \in Tags /\ Len(Tag(p, n)) # 0 /\ Len(Tag(p, n)) # 1
    BY <1>4
  <2>2. Len(Proxy) = 1 /\ Len(WarpBypass) = 1 /\ Len(NoTag) = 0
    BY <1>2
  <2>3. QED
    BY <2>1, <2>2
<1>7. QED
  BY <1>2, <1>3, <1>5, <1>6

LEMMA TagAtFacts ==
  ASSUME NEW r \in AskType
  PROVE  /\ \A i \in Nat \ {0} : TagAt(r, i) \in Tags /\ TagAt(r, i) # NoTag
         /\ \A i, j \in Nat \ {0} : TagAt(r, i) = TagAt(r, j) => i = j
<1>1. r.prefix \in Tags \ {<<>>} /\ r.start \in Nat
  BY DEF AskType
<1>2. \A i \in Nat \ {0} : r.start + i - 1 \in Nat
  BY <1>1
<1>3. \A i \in Nat \ {0} : TagAt(r, i) \in Tags /\ TagAt(r, i) # NoTag
  BY <1>1, <1>2, TagFacts DEF TagAt
<1>4. ASSUME NEW i \in Nat \ {0}, NEW j \in Nat \ {0}, TagAt(r, i) = TagAt(r, j) PROVE i = j
  <2> DEFINE T(k) == Tag(r.prefix, r.start + k - 1)
  <2>1. \A k \in Nat \ {0} : T(k) # Proxy /\ T(k) # WarpBypass
    BY <1>1, <1>2, TagFacts
  <2>2. T(i) = T(j) => i = j
    <3>1. T(i) = T(j) => r.start + i - 1 = r.start + j - 1
      BY <1>1, <1>2, TagFacts
    <3>2. QED
      BY <1>1, <3>1
  <2> HIDE DEF T
  <2>3. /\ TagAt(r, i) = IF r.proxy /\ i = 1 THEN Proxy ELSE IF r.warp /\ i = 2 THEN WarpBypass ELSE T(i)
        /\ TagAt(r, j) = IF r.proxy /\ j = 1 THEN Proxy ELSE IF r.warp /\ j = 2 THEN WarpBypass ELSE T(j)
    BY DEF TagAt, T
  <2>4. Proxy # WarpBypass
    BY TagFacts
  <2>5. QED
    BY <1>4, <2>1, <2>2, <2>3, <2>4
<1>5. QED
  BY <1>3, <1>4

\* Outbounds that are linked: each dials through the next.
ChainedOuts(outs, ends, r) ==
    /\ outs \in Seq(OutType) /\ Len(outs) = Len(ends)
    /\ \A i \in 1..Len(ends) :
          /\ outs[i].end = ends[i]
          /\ outs[i].tag = TagAt(r, i)
          /\ outs[i].detour = IF i < Len(ends) THEN TagAt(r, i + 1) ELSE NoTag

LEMMA LinkedFacts ==
  ASSUME NEW r \in AskType, NEW ends \in Seq(EndType),
         r.link \/ Len(ends) <= 1, r.warp => Len(ends) # 1
  PROVE  ChainedOuts(Linked(ends, r), ends, r)
<1> DEFINE outs == Linked(ends, r)
<1>1. /\ r.prefix \in Tags \ {<<>>} /\ r.start \in Nat /\ Len(ends) \in Nat /\ DOMAIN ends = 1..Len(ends)
      /\ r.link \in BOOLEAN /\ r.warp \in BOOLEAN /\ r.proxy \in BOOLEAN
  BY DEF AskType
<1>2. ASSUME NEW i \in 1..Len(ends)
      PROVE  /\ outs[i].end = ends[i]
             /\ outs[i].tag = TagAt(r, i)
             /\ outs[i].detour = IF i < Len(ends) THEN TagAt(r, i + 1) ELSE NoTag
             /\ outs[i] \in OutType
  <2>1. outs[i] =
          [tag    |-> TagAt(r, i),
           end    |-> ends[i],
           detour |-> IF r.warp /\ i = 1 THEN WarpBypass
                      ELSE IF r.link /\ i < Len(ends) THEN Tag(r.prefix, r.start + i)
                      ELSE NoTag]
    BY <1>1 DEF Linked, TagAt
  <2>2. i < Len(ends) => TagAt(r, i + 1) = IF r.warp /\ i = 1 THEN WarpBypass ELSE Tag(r.prefix, r.start + i)
    <3>1. r.start + (i + 1) - 1 = r.start + i /\ i + 1 # 1 /\ (i + 1 = 2 <=> i = 1)
      BY <1>1
    <3>2. QED
      BY <1>1, <3>1 DEF TagAt
  <2>3. outs[i].detour = IF i < Len(ends) THEN TagAt(r, i + 1) ELSE NoTag
    <3>1. CASE i < Len(ends)
      <4>1. r.link
        BY <1>1, <3>1
      <4>2. QED
        BY <2>1, <2>2, <3>1, <4>1
    <3>2. CASE ~(i < Len(ends))
      <4>1. ~(r.warp /\ i = 1)
        BY <1>1, <3>2
      <4>2. QED
        BY <2>1, <3>2, <4>1
    <3>3. QED
      BY <3>1, <3>2
  <2>4. outs[i].end = ends[i] /\ outs[i].tag = TagAt(r, i)
    BY <2>1
  <2>5. TagAt(r, i) \in Tags /\ NoTag \in Tags /\ TagAt(r, i + 1) \in Tags /\ ends[i] \in EndType
    <3>1. i \in Nat \ {0} /\ i + 1 \in Nat \ {0} /\ ends[i] \in EndType
      BY <1>1
    <3>2. QED
      BY <3>1, TagAtFacts, TagFacts
  <2>6. outs[i] \in OutType
    <3> DEFINE d == IF r.warp /\ i = 1 THEN WarpBypass
                    ELSE IF r.link /\ i < Len(ends) THEN Tag(r.prefix, r.start + i)
                    ELSE NoTag
    <3>1. d \in Tags
      BY <2>1, <2>3, <2>5
    <3>2. outs[i] = [tag |-> TagAt(r, i), end |-> ends[i], detour |-> d]
      BY <2>1
    <3> HIDE DEF d
    <3>3. QED
      BY <2>5, <3>1, <3>2 DEF OutType
  <2>7. QED
    BY <2>3, <2>4, <2>6
<1>3. outs \in Seq(OutType) /\ Len(outs) = Len(ends)
  <2>1. DOMAIN outs = 1..Len(ends) /\ outs = [i \in 1..Len(ends) |-> outs[i]]
    BY <1>1 DEF Linked
  <2>2. \A i \in 1..Len(ends) : outs[i] \in OutType
    BY <1>2
  <2> HIDE DEF outs
  <2>3. QED
    BY <1>1, <2>1, <2>2
<1>4. QED
  BY <1>2, <1>3 DEF ChainedOuts

LEMMA EndsFacts ==
  ASSUME NEW hops \in Seq(Hop), NEW port \in Nat
  PROVE  /\ Ends(hops, port) \in Seq(EndType) /\ Len(Ends(hops, port)) = Len(hops)
         /\ \A i \in 1..Len(hops) :
               Ends(hops, port)[i] = [hop |-> hops[i], port |-> IF hops[i] \in FullXray THEN port ELSE 0]
<1> DEFINE e == Ends(hops, port)
<1>1. DOMAIN e = 1..Len(hops) /\ Len(hops) \in Nat /\ e = [i \in 1..Len(hops) |-> e[i]]
  BY DEF Ends
<1>2. ASSUME NEW i \in 1..Len(hops)
      PROVE  /\ e[i] = [hop |-> hops[i], port |-> IF hops[i] \in FullXray THEN port ELSE 0]
             /\ e[i] \in EndType
  <2>1. hops[i] \in Hop \cup {"bridge", "pool"} /\ (IF hops[i] \in FullXray THEN port ELSE 0) \in Nat
    OBVIOUS
  <2>2. e[i] = [hop |-> hops[i], port |-> IF hops[i] \in FullXray THEN port ELSE 0]
    BY DEF Ends
  <2>3. QED
    BY <2>1, <2>2 DEF EndType
<1> HIDE DEF e
<1>3. e \in Seq(EndType) /\ Len(e) = Len(hops)
  BY <1>1, <1>2
<1>4. QED
  BY <1>2, <1>3 DEF e

One(b) == IF b THEN 1 ELSE 0

LEMMA BridgeFacts ==
  ASSUME NEW hops \in Seq(Hop), NEW ports \in Nat
  PROVE  /\ Len(Into(hops, ports)) = One(ToXray(hops)) /\ Len(Back(hops, ports)) = One(ToSing(hops))
         /\ Into(hops, ports) \in Seq(Nat) /\ Back(hops, ports) \in Seq(Nat)
         /\ ToXray(hops) => Into(hops, ports)[1] = ports + 1
         /\ ToSing(hops) => Back(hops, ports)[1] = ports + 2
         /\ LET b == Bridges(Into(hops, ports))
            IN  /\ b \in Seq(EndType) /\ Len(b) = One(ToXray(hops))
                /\ ToXray(hops) => b[1] = [hop |-> "bridge", port |-> ports + 1]
         /\ LET b == Bridges(Back(hops, ports))
            IN  /\ b \in Seq(EndType) /\ Len(b) = One(ToSing(hops))
                /\ ToSing(hops) => b[1] = [hop |-> "bridge", port |-> ports + 2]
<1>1. ASSUME NEW q \in Nat PROVE Bridges(<<q>>) = <<[hop |-> "bridge", port |-> q]>>
  BY DEF Bridges
<1>2. Bridges(<<>>) = <<>>
  BY DEF Bridges
<1>3. \A q \in Nat : [hop |-> "bridge", port |-> q] \in EndType
  BY DEF EndType
<1>4. ASSUME NEW q \in Nat
      PROVE  /\ Bridges(<<q>>) \in Seq(EndType) /\ Len(Bridges(<<q>>)) = 1
             /\ Bridges(<<q>>)[1] = [hop |-> "bridge", port |-> q]
  <2> DEFINE b == [hop |-> "bridge", port |-> q]
  <2>1. b \in EndType /\ Bridges(<<q>>) = <<b>>
    BY <1>1, <1>3
  <2> HIDE DEF b
  <2>2. <<b>> \in Seq(EndType) /\ Len(<<b>>) = 1 /\ <<b>>[1] = b
    BY <2>1
  <2>3. QED
    BY <2>1, <2>2 DEF b
<1>5. <<>> \in Seq(EndType) /\ Len(<<>>) = 0
  OBVIOUS
<1>6. ports + 1 \in Nat /\ ports + 2 \in Nat
  OBVIOUS
<1>7. /\ Len(Into(hops, ports)) = One(ToXray(hops)) /\ Len(Back(hops, ports)) = One(ToSing(hops))
      /\ Into(hops, ports) \in Seq(Nat) /\ Back(hops, ports) \in Seq(Nat)
      /\ ToXray(hops) => Into(hops, ports)[1] = ports + 1
      /\ ToSing(hops) => Back(hops, ports)[1] = ports + 2
  BY <1>6 DEF Into, Back, One
<1>8. /\ Bridges(Into(hops, ports)) \in Seq(EndType)
      /\ Len(Bridges(Into(hops, ports))) = One(ToXray(hops))
      /\ ToXray(hops) => Bridges(Into(hops, ports))[1] = [hop |-> "bridge", port |-> ports + 1]
  <2>1. CASE ToXray(hops)
    <3>1. Into(hops, ports) = <<ports + 1>> /\ One(ToXray(hops)) = 1
      BY <2>1 DEF Into, One
    <3>2. QED
      BY <1>4, <1>6, <3>1
  <2>2. CASE ~ToXray(hops)
    <3>1. Into(hops, ports) = <<>> /\ One(ToXray(hops)) = 0
      BY <2>2 DEF Into, One
    <3>2. QED
      BY <1>2, <1>5, <2>2, <3>1
  <2>3. QED
    BY <2>1, <2>2
<1>9. /\ Bridges(Back(hops, ports)) \in Seq(EndType)
      /\ Len(Bridges(Back(hops, ports))) = One(ToSing(hops))
      /\ ToSing(hops) => Bridges(Back(hops, ports))[1] = [hop |-> "bridge", port |-> ports + 2]
  <2>1. CASE ToSing(hops)
    <3>1. Back(hops, ports) = <<ports + 2>> /\ One(ToSing(hops)) = 1
      BY <2>1 DEF Back, One
    <3>2. QED
      BY <1>4, <1>6, <3>1
  <2>2. CASE ~ToSing(hops)
    <3>1. Back(hops, ports) = <<>> /\ One(ToSing(hops)) = 0
      BY <2>2 DEF Back, One
    <3>2. QED
      BY <1>2, <1>5, <2>2, <3>1
  <2>3. QED
    BY <2>1, <2>2
<1>10. QED
  BY <1>7, <1>8, <1>9

\* Ends, and perhaps a bridge behind them.
LEMMA EndsAndBridge ==
  ASSUME NEW e \in Seq(EndType), NEW b \in Seq(EndType), NEW k \in 0..1, Len(b) = k
  PROVE  /\ e \o b \in Seq(EndType) /\ Len(e \o b) = Len(e) + k /\ Len(e) \in Nat
         /\ \A i \in 1..Len(e) : (e \o b)[i] = e[i]
         /\ k = 1 => (e \o b)[Len(e) + 1] = b[1]
OBVIOUS

LEMMA LeadFacts ==
  ASSUME NEW r, Sound(r), ~Refused(r.hops), NEW ports \in Nat
  PROVE  LET outs == LeadOuts(r, ports)
             n    == Leads(r.hops)
             m    == n + One(ToXray(r.hops))
         IN  /\ outs \in Seq(OutType) /\ Len(outs) = m /\ m > 0 /\ m \in Nat /\ (r.warp => m > 1)
             /\ \A i \in 1..m : /\ outs[i].tag = TagAt(r, i)
                                /\ outs[i].detour = IF i < m THEN TagAt(r, i + 1) ELSE NoTag
             /\ \A i \in 1..n : /\ outs[i].end.hop = r.hops[i]
                                /\ r.hops[i] \in FullXray => outs[i].end.port = ports + 1
             /\ ToXray(r.hops) => outs[m].end = [hop |-> "bridge", port |-> ports + 1]
<1> DEFINE hops == r.hops
           n == Leads(hops)
           k == One(ToXray(hops))
           lead == LeadHops(hops)
           e == Ends(lead, ports + 1)
           b == Bridges(Into(hops, ports))
           ends == e \o b
           outs == LeadOuts(r, ports)
<1>1. hops \in HopList /\ hops \in Seq(Hop) /\ r \in AskType
  BY DEF Sound, AskType, HopList
<1>2. k \in 0..1 /\ (k = 1 <=> ToXray(hops))
  BY DEF One
<1>3. lead \in Seq(Hop)
  BY <1>1, SplitLists
<1>4. /\ n \in Nat /\ Len(lead) = n /\ Len(hops) \in Nat /\ Len(hops) > 0
      /\ n + Xrays(hops) + Tails(hops) = Len(hops) /\ Xrays(hops) \in Nat /\ Tails(hops) \in Nat
      /\ ToXray(hops) <=> Xrays(hops) > 0
      /\ Tails(hops) > 0 => Xrays(hops) > 0
      /\ \A i \in 1..n : lead[i] = hops[i]
      /\ \A i \in 1..Xrays(hops) : hops[n + i] \in Xray
  BY <1>1, SplitFacts DEF Leads
<1>5. /\ e \in Seq(EndType) /\ Len(e) = n
      /\ \A i \in 1..n : e[i] = [hop |-> lead[i], port |-> IF lead[i] \in FullXray THEN ports + 1 ELSE 0]
  <2>1. ports + 1 \in Nat
    OBVIOUS
  <2> HIDE DEF lead
  <2>2. QED
    BY <1>3, <1>4, <2>1, EndsFacts
<1>6. b \in Seq(EndType) /\ Len(b) = k /\ (ToXray(hops) => b[1] = [hop |-> "bridge", port |-> ports + 1])
  BY <1>1, BridgeFacts
<1>7. outs = Linked(ends, r)
  BY DEF LeadOuts
<1> HIDE DEF e, b, k, outs, lead, n
<1>8. /\ ends \in Seq(EndType) /\ Len(ends) = n + k
      /\ \A i \in 1..n : ends[i] = e[i]
      /\ k = 1 => ends[n + 1] = b[1]
  BY <1>2, <1>5, <1>6, EndsAndBridge
<1>9. n + k > 0 /\ n + k \in Nat
  BY <1>2, <1>4
<1>10. r.warp => n + k > 1 /\ Len(hops) >= 2
  <2> SUFFICES ASSUME r.warp PROVE n + k > 1 /\ Len(hops) >= 2
    OBVIOUS
  <2>1. Len(hops) >= 2 /\ hops[1] \notin Xray
    BY ChainAssumption DEF Sound
  <2>2. n # 0
    <3>1. CASE n = 0
      <4>1. 1 \in 1..Xrays(hops) /\ n + 1 = 1
        BY <1>4, <2>1, <3>1
      <4>2. hops[n + 1] \in Xray
        BY <1>4, <4>1
      <4>3. QED
        BY <2>1, <4>1, <4>2
    <3>2. QED
      BY <3>1
  <2>3. QED
    BY <1>2, <1>4, <2>1, <2>2
<1>11. r.link \/ n + k <= 1
  <2>1. r.link \/ Len(hops) = 1
    BY DEF Sound
  <2>2. Len(hops) = 1 => n + k <= 1
    BY <1>2, <1>4
  <2>3. QED
    BY <2>1, <2>2
<1> HIDE DEF ends
<1>12. ChainedOuts(outs, ends, r)
  <2>1. r.warp => Len(ends) # 1
    BY <1>8, <1>9, <1>10
  <2>2. QED
    BY <1>1, <1>7, <1>8, <1>11, <2>1, LinkedFacts
<1>13. /\ outs \in Seq(OutType) /\ Len(outs) = n + k
       /\ \A i \in 1..n + k : /\ outs[i].tag = TagAt(r, i)
                              /\ outs[i].detour = IF i < n + k THEN TagAt(r, i + 1) ELSE NoTag
                              /\ outs[i].end = ends[i]
  BY <1>8, <1>12 DEF ChainedOuts
<1>14. ASSUME NEW i \in 1..n
       PROVE  outs[i].end.hop = hops[i] /\ (hops[i] \in FullXray => outs[i].end.port = ports + 1)
  <2>1. i \in 1..n + k
    BY <1>2, <1>4
  <2>2. outs[i].end = [hop |-> hops[i], port |-> IF hops[i] \in FullXray THEN ports + 1 ELSE 0]
    BY <1>4, <1>5, <1>8, <1>13, <2>1
  <2>3. QED
    BY <2>2
<1>15. ToXray(hops) => outs[n + k].end = [hop |-> "bridge", port |-> ports + 1]
  <2> SUFFICES ASSUME ToXray(hops) PROVE outs[n + k].end = [hop |-> "bridge", port |-> ports + 1]
    OBVIOUS
  <2>1. k = 1 /\ n + 1 \in 1..n + k
    BY <1>2, <1>4
  <2>2. QED
    BY <1>6, <1>8, <1>13, <2>1
<1>16. QED
  BY <1>9, <1>10, <1>13, <1>14, <1>15 DEF n, k, outs

\* What is asked of buildXrayChain.
Unwarped(r) == [r EXCEPT !.warp = FALSE, !.link = @ \/ ToSing(r.hops)]

LEMMA XrayFacts ==
  ASSUME NEW r, Sound(r), ~Refused(r.hops), NEW ports \in Nat
  PROVE  LET outs == XrayOuts(r, ports)
             l    == Leads(r.hops)
             n    == Xrays(r.hops)
             m    == n + One(ToSing(r.hops))
             x    == Unwarped(r)
         IN  /\ outs \in Seq(OutType) /\ Len(outs) = m /\ m \in Nat /\ x \in AskType
             /\ m > 0 <=> ToXray(r.hops)
             /\ \A i \in 1..m : /\ outs[i].tag = TagAt(x, i)
                                /\ outs[i].detour = IF i < m THEN TagAt(x, i + 1) ELSE NoTag
             /\ \A i \in 1..n : outs[i].end.hop = r.hops[l + i] /\ r.hops[l + i] \in Xray
             /\ ToSing(r.hops) => outs[m].end = [hop |-> "bridge", port |-> ports + 2]
<1> DEFINE hops == r.hops
           l == Leads(hops)
           n == Xrays(hops)
           k == One(ToSing(hops))
           xs == XrayHops(hops)
           e == Ends(xs, 0)
           b == Bridges(Back(hops, ports))
           ends == e \o b
           x == Unwarped(r)
           outs == XrayOuts(r, ports)
<1>1. hops \in HopList /\ hops \in Seq(Hop) /\ r \in AskType
  BY DEF Sound, AskType, HopList
<1>2. k \in 0..1 /\ (k = 1 <=> ToSing(hops)) /\ ToSing(hops) \in BOOLEAN
  BY DEF One, ToSing
<1>3. xs \in Seq(Hop)
  BY <1>1, SplitLists
<1>4. /\ n \in Nat /\ Len(xs) = n /\ Len(hops) \in Nat /\ Len(hops) > 0
      /\ l + n + Tails(hops) = Len(hops) /\ l \in Nat /\ Tails(hops) \in Nat
      /\ ToXray(hops) <=> n > 0
      /\ ToSing(hops) <=> Tails(hops) > 0
      /\ Tails(hops) > 0 => n > 0
      /\ \A i \in 1..n : xs[i] = hops[l + i] /\ hops[l + i] \in Xray
  BY <1>1, SplitFacts DEF Leads, Xrays
<1>5. /\ e \in Seq(EndType) /\ Len(e) = n
      /\ \A i \in 1..n : e[i] = [hop |-> xs[i], port |-> IF xs[i] \in FullXray THEN 0 ELSE 0]
  <2> HIDE DEF xs
  <2>1. QED
    BY <1>3, <1>4, EndsFacts
<1>6. b \in Seq(EndType) /\ Len(b) = k /\ (ToSing(hops) => b[1] = [hop |-> "bridge", port |-> ports + 2])
  BY <1>1, BridgeFacts
<1>7. outs = Linked(ends, x)
  BY DEF XrayOuts, Unwarped
<1>8. x \in AskType /\ x.warp = FALSE /\ (x.link <=> r.link \/ ToSing(hops))
  BY <1>1, <1>2 DEF Unwarped, AskType
<1> HIDE DEF e, b, k, outs, xs, n, l, x
<1>9. /\ ends \in Seq(EndType) /\ Len(ends) = n + k
      /\ \A i \in 1..n : ends[i] = e[i]
      /\ k = 1 => ends[n + 1] = b[1]
  BY <1>2, <1>5, <1>6, EndsAndBridge
<1>10. n + k \in Nat /\ (n + k > 0 <=> ToXray(hops))
  BY <1>2, <1>4
<1>11. x.link \/ n + k <= 1
  <2>1. r.link \/ Len(hops) = 1
    BY DEF Sound
  <2>2. QED
    BY <1>2, <1>4, <1>8, <2>1
<1> HIDE DEF ends
<1>12. ChainedOuts(outs, ends, x)
  BY <1>7, <1>8, <1>9, <1>11, LinkedFacts
<1>13. /\ outs \in Seq(OutType) /\ Len(outs) = n + k
       /\ \A i \in 1..n + k : /\ outs[i].tag = TagAt(x, i)
                              /\ outs[i].detour = IF i < n + k THEN TagAt(x, i + 1) ELSE NoTag
                              /\ outs[i].end = ends[i]
  BY <1>9, <1>12 DEF ChainedOuts
<1>14. ASSUME NEW i \in 1..n PROVE outs[i].end.hop = hops[l + i] /\ hops[l + i] \in Xray
  <2>1. i \in 1..n + k
    BY <1>2, <1>4
  <2>2. outs[i].end = [hop |-> hops[l + i], port |-> IF xs[i] \in FullXray THEN 0 ELSE 0]
    BY <1>4, <1>5, <1>9, <1>13, <2>1
  <2>3. QED
    BY <1>4, <2>2
<1>15. ToSing(hops) => outs[n + k].end = [hop |-> "bridge", port |-> ports + 2]
  <2> SUFFICES ASSUME ToSing(hops) PROVE outs[n + k].end = [hop |-> "bridge", port |-> ports + 2]
    OBVIOUS
  <2>1. k = 1 /\ n + 1 \in 1..n + k
    BY <1>2, <1>4
  <2>2. QED
    BY <1>6, <1>9, <1>13, <2>1
<1>16. QED
  BY <1>8, <1>10, <1>13, <1>14, <1>15 DEF n, k, outs, l, x

\* The tags go on behind the bridge.
LEMMA TailOutsFacts ==
  ASSUME NEW r, Sound(r), ~Refused(r.hops)
  PROVE  LET outs == TailOuts(r)
             l    == Leads(r.hops)
             x    == Xrays(r.hops)
             n    == Tails(r.hops)
         IN  /\ outs \in Seq(OutType) /\ Len(outs) = n /\ n \in Nat
             /\ n > 0 => Tag(r.prefix, TailFrom(r)) = TagAt(r, l + 2)
             /\ \A i \in 1..n : /\ outs[i].tag = TagAt(r, l + 1 + i)
                                /\ outs[i].detour = IF i < n THEN TagAt(r, l + 1 + (i + 1)) ELSE NoTag
                                /\ outs[i].end.hop = r.hops[l + x + i]
                                /\ r.hops[l + x + i] \in Hop \ FullXray
<1> DEFINE hops == r.hops
           l == Leads(hops)
           x == Xrays(hops)
           n == Tails(hops)
           ts == TailHops(hops)
           e == Ends(ts, 0)
           q == Asked(hops, r.prefix, TailFrom(r), r.link)
           outs == TailOuts(r)
<1>1. hops \in HopList /\ hops \in Seq(Hop) /\ r \in AskType /\ r.prefix \in Tags \ {<<>>}
      /\ r.start \in Nat /\ r.link \in BOOLEAN /\ r.proxy \in BOOLEAN /\ r.warp \in BOOLEAN
  BY DEF Sound, AskType, HopList
<1>2. ts \in Seq(Hop)
  BY <1>1, SplitLists
<1>3. /\ n \in Nat /\ Len(ts) = n /\ Len(hops) \in Nat /\ Len(hops) > 0
      /\ l + x + n = Len(hops) /\ l \in Nat /\ x \in Nat
      /\ ToXray(hops) <=> x > 0
      /\ n > 0 => x > 0
      /\ \A i \in 1..n : ts[i] = hops[l + x + i]
      /\ \A i \in 1..x : hops[l + i] \in Xray
      /\ \A i \in 1..Len(hops) : hops[i] \in Hop
  BY <1>1, SplitFacts DEF Leads, Xrays, Tails
<1>4. /\ e \in Seq(EndType) /\ Len(e) = n
      /\ \A i \in 1..n : e[i] = [hop |-> ts[i], port |-> IF ts[i] \in FullXray THEN 0 ELSE 0]
  <2> HIDE DEF ts
  <2>1. QED
    BY <1>2, <1>3, EndsFacts
<1>5. TailFrom(r) = r.start + l + One(ToXray(hops)) /\ One(ToXray(hops)) \in 0..1
  <2>1. Len(Into(hops, 0)) = One(ToXray(hops))
    BY <1>1, BridgeFacts
  <2>2. QED
    BY <2>1 DEF TailFrom, TailStart, Leads, One
<1>6. TailFrom(r) \in Nat
  BY <1>1, <1>3, <1>5
<1>7. outs = Linked(e, q)
  BY DEF TailOuts
<1>8. q \in AskType /\ q.warp = FALSE /\ q.proxy = FALSE /\ q.link = r.link /\ q.prefix = r.prefix
      /\ q.start = TailFrom(r)
  BY <1>1, <1>6 DEF Asked, AskType
<1> HIDE DEF e, outs, ts, n, l, x, q
<1>9. q.link \/ n <= 1
  <2>1. r.link \/ Len(hops) = 1
    BY DEF Sound
  <2>2. QED
    BY <1>3, <1>8, <2>1
<1>10. ChainedOuts(outs, e, q)
  BY <1>4, <1>7, <1>8, <1>9, LinkedFacts
<1>11. /\ outs \in Seq(OutType) /\ Len(outs) = n
       /\ \A i \in 1..n : /\ outs[i].tag = TagAt(q, i)
                          /\ outs[i].detour = IF i < n THEN TagAt(q, i + 1) ELSE NoTag
                          /\ outs[i].end = e[i]
  BY <1>4, <1>10 DEF ChainedOuts
<1>12. ASSUME n > 0, NEW i \in Nat \ {0}
       PROVE  TagAt(q, i) = TagAt(r, l + 1 + i) /\ Tag(r.prefix, TailFrom(r) + i - 1) = TagAt(r, l + 1 + i)
  <2>1. One(ToXray(hops)) = 1
    BY <1>3, <1>12 DEF One
  <2>2. r.warp => l # 0
    <3> SUFFICES ASSUME r.warp, l = 0 PROVE FALSE
      OBVIOUS
    <3>1. hops[1] \notin Xray
      BY ChainAssumption DEF Sound
    <3>2. 1 \in 1..x /\ l + 1 = 1
      BY <1>3, <1>12
    <3>3. hops[l + 1] \in Xray
      BY <1>3, <3>2
    <3>4. QED
      BY <3>1, <3>2, <3>3
  <2>3. l + 1 + i # 1 /\ (r.warp => l + 1 + i # 2) /\ r.start + (l + 1 + i) - 1 = TailFrom(r) + i - 1
    BY <1>1, <1>3, <1>5, <1>12, <2>1, <2>2
  <2>4. TagAt(r, l + 1 + i) = Tag(r.prefix, TailFrom(r) + i - 1)
    BY <2>3 DEF TagAt
  <2>5. TagAt(q, i) = Tag(r.prefix, TailFrom(r) + i - 1)
    BY <1>8 DEF TagAt
  <2>6. QED
    BY <2>4, <2>5
<1>13. n > 0 => Tag(r.prefix, TailFrom(r)) = TagAt(r, l + 2)
  <2> SUFFICES ASSUME n > 0 PROVE Tag(r.prefix, TailFrom(r)) = TagAt(r, l + 2)
    OBVIOUS
  <2>1. TailFrom(r) + 1 - 1 = TailFrom(r) /\ l + 1 + 1 = l + 2 /\ 1 \in Nat \ {0}
    BY <1>3, <1>6
  <2>2. QED
    BY <1>12, <2>1
<1>14. ASSUME NEW i \in 1..n
       PROVE  /\ outs[i].tag = TagAt(r, l + 1 + i)
              /\ outs[i].detour = IF i < n THEN TagAt(r, l + 1 + (i + 1)) ELSE NoTag
              /\ outs[i].end.hop = hops[l + x + i]
              /\ hops[l + x + i] \in Hop \ FullXray
  <2>1. n > 0 /\ i \in Nat \ {0} /\ i + 1 \in Nat \ {0} /\ l + x + i \in 1..Len(hops)
    BY <1>3
  <2>2. outs[i].end = [hop |-> hops[l + x + i], port |-> IF ts[i] \in FullXray THEN 0 ELSE 0]
    BY <1>3, <1>4, <1>11
  <2>3. hops[l + x + i] \notin FullXray
    <3>1. ToXray(hops)
      BY <1>3, <2>1
    <3>2. QED
      BY <1>1, <2>1, <3>1, FullIsLast
  <2>4. outs[i].tag = TagAt(r, l + 1 + i)
    <3>1. TagAt(q, i) = TagAt(r, l + 1 + i)
      BY <1>12, <2>1
    <3>2. QED
      BY <1>11, <3>1
  <2>5. outs[i].detour = IF i < n THEN TagAt(r, l + 1 + (i + 1)) ELSE NoTag
    <3>1. TagAt(q, i + 1) = TagAt(r, l + 1 + (i + 1))
      BY <1>12, <2>1
    <3>2. QED
      BY <1>11, <3>1
  <2>6. outs[i].end.hop = hops[l + x + i]
    BY <2>2
  <2>7. hops[l + x + i] \in Hop
    BY <1>3, <2>1
  <2>8. QED
    BY <2>3, <2>4, <2>5, <2>6, <2>7
<1>15. QED
  BY <1>3, <1>11, <1>13, <1>14 DEF n, outs, l, x

-----------------------------------------------------------------------------
(* What one more chain adds to the two configurations                          *)

\* The outbounds of sing-box that a chain adds, and the tags it may use.
SingOuts(r, ports) == LeadOuts(r, ports) \o TailOuts(r)
Claim(r) ==
    {TagAt(r, i) : i \in 1..Len(r.hops)} \cup {TagAt(Unwarped(r), i) : i \in 1..Len(r.hops)}

\* Outbounds that have each a tag of their own, out of T.
Distinct(outs, T) ==
    /\ outs \in Seq(OutType)
    /\ \A i \in 1..Len(outs) : outs[i].tag \in T
    /\ \A i, j \in 1..Len(outs) : outs[i].tag = outs[j].tag => i = j

LEMMA DistinctConcat ==
  ASSUME NEW s, NEW t, NEW T, NEW U, Distinct(s, T), Distinct(t, U), T \cap U = {}
  PROVE  Distinct(s \o t, T \cup U)
<1> DEFINE m == Len(s)
           n == Len(t)
           u == s \o t
<1>1. s \in Seq(OutType) /\ t \in Seq(OutType)
  BY DEF Distinct
<1>2. /\ u \in Seq(OutType) /\ Len(u) = m + n /\ m \in Nat /\ n \in Nat
      /\ \A i \in 1..m : u[i] = s[i]
      /\ \A i \in m+1..m+n : u[i] = t[i - m] /\ i - m \in 1..n
  BY <1>1
<1> HIDE DEF m, n, u
<1>3. \A i \in 1..m : s[i].tag \in T
  BY DEF Distinct, m
<1>4. \A i \in 1..n : t[i].tag \in U
  BY DEF Distinct, n
<1>5. \A i, j \in 1..m : s[i].tag = s[j].tag => i = j
  BY DEF Distinct, m
<1>6. \A i, j \in 1..n : t[i].tag = t[j].tag => i = j
  BY DEF Distinct, n
<1>7. \A i \in 1..m+n : i \in 1..m \/ i \in m+1..m+n
  BY <1>2
<1>8. \A i \in 1..m+n : u[i].tag \in T \cup U
  BY <1>2, <1>3, <1>4, <1>7
<1>9. ASSUME NEW i \in 1..m+n, NEW j \in 1..m+n, u[i].tag = u[j].tag PROVE i = j
  <2>1. CASE i \in 1..m /\ j \in 1..m
    BY <1>2, <1>5, <1>9, <2>1
  <2>2. CASE i \in m+1..m+n /\ j \in m+1..m+n
    <3>1. i - m \in 1..n /\ j - m \in 1..n /\ t[i - m].tag = t[j - m].tag
      BY <1>2, <1>9, <2>2
    <3>2. i - m = j - m
      BY <1>6, <3>1
    <3>3. QED
      BY <1>2, <3>2
  <2>3. CASE i \in 1..m /\ j \in m+1..m+n
    BY <1>2, <1>3, <1>4, <1>9, <2>3
  <2>4. CASE i \in m+1..m+n /\ j \in 1..m
    BY <1>2, <1>3, <1>4, <1>9, <2>4
  <2>5. QED
    BY <1>7, <2>1, <2>2, <2>3, <2>4
<1>10. QED
  BY <1>2, <1>8, <1>9 DEF Distinct, u

\* How many outbounds a chain takes: it has a tag for each of them.
LEMMA Enough ==
  ASSUME NEW hops \in HopList, ~Refused(hops)
  PROVE  /\ Leads(hops) + One(ToXray(hops)) + Tails(hops) \in 0..Len(hops)
         /\ Xrays(hops) + One(ToSing(hops)) \in 0..Len(hops)
BY SplitFacts DEF One

\* The outbounds of a chain have the tags it may use, each another.
LEMMA SingDistinct ==
  ASSUME NEW r, Sound(r), ~Refused(r.hops), NEW ports \in Nat
  PROVE  Distinct(SingOuts(r, ports), Claim(r))
<1> DEFINE s == LeadOuts(r, ports)
           t == TailOuts(r)
           u == s \o t
           l == Leads(r.hops)
           m == l + One(ToXray(r.hops))
           n == Tails(r.hops)
<1>1. r \in AskType /\ r.hops \in HopList
  BY DEF Sound, AskType
<1>2. s \in Seq(OutType) /\ Len(s) = m /\ m \in Nat /\ \A i \in 1..m : s[i].tag = TagAt(r, i)
  BY LeadFacts
<1>3. t \in Seq(OutType) /\ Len(t) = n /\ n \in Nat /\ \A i \in 1..n : t[i].tag = TagAt(r, l + 1 + i)
  BY TailOutsFacts
<1>4. n > 0 => m = l + 1
  BY <1>1, SplitFacts DEF One
<1>5. m + n \in 0..Len(r.hops) /\ Len(r.hops) \in Nat
  BY <1>1, Enough, SplitFacts
<1> HIDE DEF s, t, m, n
<1>6. /\ u \in Seq(OutType) /\ Len(u) = m + n
      /\ \A i \in 1..m : u[i] = s[i]
      /\ \A i \in m+1..m+n : u[i] = t[i - m] /\ i - m \in 1..n
  BY <1>2, <1>3
<1> HIDE DEF u
<1>7. ASSUME NEW i \in 1..m+n PROVE u[i].tag = TagAt(r, i)
  <2>1. CASE i \in 1..m
    BY <1>2, <1>6, <2>1
  <2>2. CASE i \in m+1..m+n
    <3>1. n > 0 /\ i - m \in 1..n /\ u[i] = t[i - m]
      BY <1>2, <1>3, <1>6, <2>2
    <3>2. l + 1 + (i - m) = i
      <4>1. m = l + 1
        BY <1>4, <3>1
      <4>2. QED
        BY <1>2, <4>1
    <3>3. QED
      BY <1>3, <3>1, <3>2
  <2>3. QED
    BY <1>2, <1>3, <2>1, <2>2
<1>8. \A i \in 1..m+n : i \in 1..Len(r.hops) /\ i \in Nat \ {0}
  BY <1>2, <1>3, <1>5
<1>9. \A i, j \in Nat \ {0} : TagAt(r, i) = TagAt(r, j) => i = j
  BY <1>1, TagAtFacts
<1>10. \A i \in 1..m+n : u[i].tag \in Claim(r)
  BY <1>7, <1>8 DEF Claim
<1>11. QED
  BY <1>6, <1>7, <1>8, <1>9, <1>10 DEF Distinct, SingOuts, u, s, t

LEMMA XrayDistinct ==
  ASSUME NEW r, Sound(r), ~Refused(r.hops), NEW ports \in Nat
  PROVE  Distinct(XrayOuts(r, ports), Claim(r))
<1> DEFINE s == XrayOuts(r, ports)
           x == Unwarped(r)
           m == Xrays(r.hops) + One(ToSing(r.hops))
<1>1. r \in AskType /\ r.hops \in HopList
  BY DEF Sound, AskType
<1>2. /\ s \in Seq(OutType) /\ Len(s) = m /\ m \in Nat /\ x \in AskType
      /\ \A i \in 1..m : s[i].tag = TagAt(x, i)
  BY XrayFacts
<1>3. m \in 0..Len(r.hops) /\ Len(r.hops) \in Nat
  BY <1>1, Enough, SplitFacts
<1> HIDE DEF s, x, m
<1>4. \A i \in 1..m : i \in 1..Len(r.hops) /\ i \in Nat \ {0}
  BY <1>2, <1>3
<1>5. \A i, j \in Nat \ {0} : TagAt(x, i) = TagAt(x, j) => i = j
  BY <1>2, TagAtFacts
<1>6. \A i \in 1..m : s[i].tag \in Claim(r)
  BY <1>2, <1>4 DEF Claim, x
<1>7. QED
  BY <1>2, <1>4, <1>5, <1>6 DEF Distinct, s

\* The two configurations in the making; W are the hop lists that may be watched.
Context(W) ==
    [sing : Seq(OutType), xray : Seq(OutType),
     singToXray : Seq(Nat), xrayToSing : Seq(Nat), singIngress : Seq(Tags), xrayIngress : Seq(Tags),
     singIn : SUBSET [port : Nat, out : Tags], xrayIn : SUBSET [port : Nat, out : Tags],
     slot : SUBSET [port : Nat, own : BOOLEAN], fulls : SUBSET [port : Nat, own : BOOLEAN],
     pool : Seq(Tags), watch : Seq([tag : Tags, hops : W]), ports : Nat,
     error : {"none", "invalid", "refused", "mismatch"}]

\* Each bridge of one way has a port of its own, and one place that it leads to.
Coupled(ps, ins, top) ==
    /\ ps \in Seq(Nat) /\ ins \in Seq(Tags) /\ Len(ps) = Len(ins)
    /\ \A i \in 1..Len(ps) : ps[i] <= top
    /\ \A i, j \in 1..Len(ps) : ps[i] = ps[j] => i = j

\* All tags are in T, and nobody's twice; all bridges lead somewhere.
Sane(c, T) ==
    /\ Distinct(c.sing, T)
    /\ Distinct(c.xray, T)
    /\ Coupled(c.singToXray, c.xrayIngress, c.ports)
    /\ Coupled(c.xrayToSing, c.singIngress, c.ports)

\* There is a bridge of this port, and it leads to `tag`.
LeadsTo(ps, ins, port, tag) == \E i \in 1..Len(ps) : ps[i] = port /\ ins[i] = tag

\* What a chain needs has been laid out, from the ports after p.
Laid(c, r, p) ==
    /\ Range(SingOuts(r, p)) \subseteq Range(c.sing)
    /\ Range(XrayOuts(r, p)) \subseteq Range(c.xray)
    /\ ToXray(r.hops) => LeadsTo(c.singToXray, c.xrayIngress, p + 1, TagAt(Unwarped(r), 1))
    /\ ToSing(r.hops) => LeadsTo(c.xrayToSing, c.singIngress, p + 2, TagAt(r, Leads(r.hops) + 2))

\* The tag that is watched belongs to the chain.
LEMMA WatchedFacts ==
  ASSUME NEW r, Sound(r), ~Refused(r.hops)
  PROVE  /\ Watched(r).hops = r.hops
         /\ Watched(r).tag = IF Tails(r.hops) = 0 THEN TagAt(r, 1) ELSE TagAt(r, Leads(r.hops) + 2)
         /\ Watched(r).tag \in Tags
         /\ EntryTag(r) = TagAt(r, 1)
<1> DEFINE t == TailHops(r.hops)
<1>1. r \in AskType /\ r.hops \in Seq(Hop) /\ r.hops \in HopList /\ r.start \in Nat
  BY DEF Sound, AskType, HopList
<1>2. t \in Seq(Hop)
  BY <1>1, SplitLists
<1>3. EntryTag(r) = TagAt(r, 1)
  <2>1. r.start + 1 - 1 = r.start
    BY <1>1
  <2>2. QED
    BY <2>1 DEF EntryTag, TagAt
<1>4. Tails(r.hops) \in Nat /\ Leads(r.hops) \in Nat
  BY <1>1, SplitFacts
<1>5. t = <<>> <=> Tails(r.hops) = 0
  <2> HIDE DEF t
  <2>1. t = <<>> <=> Len(t) = 0
    BY <1>2
  <2>2. QED
    BY <2>1 DEF Tails, t
<1>6. Tails(r.hops) > 0 => Tag(r.prefix, TailFrom(r)) = TagAt(r, Leads(r.hops) + 2)
  BY TailOutsFacts
<1>7. TagAt(r, 1) \in Tags /\ TagAt(r, Leads(r.hops) + 2) \in Tags
  <2>1. Leads(r.hops) + 2 \in Nat \ {0} /\ 1 \in Nat \ {0}
    BY <1>4
  <2>2. QED
    BY <1>1, <2>1, TagAtFacts
<1>8. /\ Watched(r).hops = r.hops
      /\ Watched(r).tag = IF t = <<>> THEN EntryTag(r) ELSE Tag(r.prefix, TailFrom(r))
  BY DEF Watched
<1>9. QED
  BY <1>3, <1>4, <1>5, <1>6, <1>7, <1>8

\* What each way of a chain leads to.
LEMMA IngressFacts ==
  ASSUME NEW r, Sound(r), ~Refused(r.hops), NEW ports \in Nat
  PROVE  /\ Ingress(XrayOuts(r, ports)) =
              IF ToXray(r.hops) THEN <<TagAt(Unwarped(r), 1)>> ELSE <<>>
         /\ Ingress(TailOuts(r)) =
              IF ToSing(r.hops) THEN <<TagAt(r, Leads(r.hops) + 2)>> ELSE <<>>
         /\ TagAt(Unwarped(r), 1) \in Tags /\ TagAt(r, Leads(r.hops) + 2) \in Tags
         /\ TagAt(Unwarped(r), 1) # NoTag /\ TagAt(r, Leads(r.hops) + 2) # NoTag
<1> DEFINE x == XrayOuts(r, ports)
           t == TailOuts(r)
           l == Leads(r.hops)
           m == Xrays(r.hops) + One(ToSing(r.hops))
           n == Tails(r.hops)
<1>1. r \in AskType /\ r.hops \in HopList
  BY DEF Sound, AskType
<1>2. /\ x \in Seq(OutType) /\ Len(x) = m /\ m \in Nat /\ (m > 0 <=> ToXray(r.hops))
      /\ \A i \in 1..m : x[i].tag = TagAt(Unwarped(r), i)
      /\ Unwarped(r) \in AskType
  BY XrayFacts
<1>3. /\ t \in Seq(OutType) /\ Len(t) = n /\ n \in Nat /\ \A i \in 1..n : t[i].tag = TagAt(r, l + 1 + i)
  BY TailOutsFacts
<1>4. l \in Nat /\ (ToSing(r.hops) <=> n > 0)
  BY <1>1, SplitFacts
<1> HIDE DEF x, t, m, n, l
<1>5. Ingress(x) = IF ToXray(r.hops) THEN <<TagAt(Unwarped(r), 1)>> ELSE <<>>
  <2>1. x = <<>> <=> m = 0
    BY <1>2
  <2>2. m > 0 => x[1].tag = TagAt(Unwarped(r), 1)
    BY <1>2
  <2>3. QED
    BY <1>2, <2>1, <2>2 DEF Ingress
<1>6. Ingress(t) = IF ToSing(r.hops) THEN <<TagAt(r, l + 2)>> ELSE <<>>
  <2>1. t = <<>> <=> n = 0
    BY <1>3
  <2>2. n > 0 => t[1].tag = TagAt(r, l + 2)
    <3>1. l + 1 + 1 = l + 2
      BY <1>4
    <3>2. n > 0 => 1 \in 1..n
      BY <1>3
    <3>3. QED
      BY <1>3, <3>1, <3>2
  <2>3. QED
    BY <1>3, <1>4, <2>1, <2>2 DEF Ingress
<1>7. l + 2 \in Nat \ {0} /\ 1 \in Nat \ {0}
  BY <1>4
<1>8. QED
  BY <1>1, <1>2, <1>5, <1>6, <1>7, TagAtFacts DEF x, t, l

\* What a chain that is not refused changes.
Added(c, r, d) ==
    /\ d.sing = c.sing \o SingOuts(r, c.ports)
    /\ d.xray = c.xray \o XrayOuts(r, c.ports)
    /\ d.singToXray = c.singToXray \o Into(r.hops, c.ports)
    /\ d.xrayToSing = c.xrayToSing \o Back(r.hops, c.ports)
    /\ d.xrayIngress = c.xrayIngress \o Ingress(XrayOuts(r, c.ports))
    /\ d.singIngress = c.singIngress \o Ingress(TailOuts(r))
    /\ d.singIn = c.singIn /\ d.xrayIn = c.xrayIn
    /\ d.slot = IF Range(r.hops) \cap FullXray = {} THEN c.slot
                ELSE {[port |-> c.ports + 1, own |-> ~r.sole]}
    /\ d.fulls = c.fulls /\ d.pool = c.pool
    /\ d.watch = Append(c.watch, Watched(r))
    /\ d.ports = c.ports + 2 /\ d.error = c.error

LEMMA ChainFields ==
  ASSUME NEW W, NEW c \in Context(W), NEW r, Sound(r), ~Refused(r.hops), r.hops \in W
  PROVE  Chain(c, r) \in Context(W) /\ Added(c, r, Chain(c, r))
<1> DEFINE d == Chain(c, r)
           p == c.ports
           S == LeadOuts(r, p)
           T == TailOuts(r)
           X == XrayOuts(r, p)
           slot == IF Range(r.hops) \cap FullXray = {} THEN c.slot
                   ELSE {[port |-> p + 1, own |-> ~r.sole]}
<1>1. r \in AskType /\ r.hops \in HopList /\ r.hops \in Seq(Hop) /\ r.sole \in BOOLEAN
  BY DEF Sound, AskType, HopList
<1>2. /\ c.sing \in Seq(OutType) /\ c.xray \in Seq(OutType)
      /\ c.singToXray \in Seq(Nat) /\ c.xrayToSing \in Seq(Nat)
      /\ c.singIngress \in Seq(Tags) /\ c.xrayIngress \in Seq(Tags)
      /\ c.singIn \in SUBSET [port : Nat, out : Tags] /\ c.xrayIn \in SUBSET [port : Nat, out : Tags]
      /\ c.slot \in SUBSET [port : Nat, own : BOOLEAN]
      /\ c.fulls \in SUBSET [port : Nat, own : BOOLEAN]
      /\ c.pool \in Seq(Tags) /\ c.watch \in Seq([tag : Tags, hops : W]) /\ p \in Nat
      /\ c.error \in {"none", "invalid", "refused", "mismatch"}
  BY DEF Context
<1>3. S \in Seq(OutType) /\ X \in Seq(OutType) /\ T \in Seq(OutType)
  BY <1>2, LeadFacts, XrayFacts, TailOutsFacts
<1>4. (c.sing \o S) \o T = c.sing \o SingOuts(r, p)
  <2>1. SingOuts(r, p) = S \o T
    BY DEF SingOuts
  <2> DEFINE s == c.sing
  <2>2. s \in Seq(OutType)
    BY <1>2
  <2> HIDE DEF S, T, s
  <2>3. (s \o S) \o T = s \o (S \o T)
    BY <1>3, <2>2, ConcatAssociative
  <2>4. QED
    BY <2>1, <2>3 DEF s
<1>5. Into(r.hops, p) \in Seq(Nat) /\ Back(r.hops, p) \in Seq(Nat)
  BY <1>1, <1>2, BridgeFacts
<1>6. Ingress(X) \in Seq(Tags) /\ Ingress(T) \in Seq(Tags)
  <2> DEFINE a == TagAt(Unwarped(r), 1)
             b == TagAt(r, Leads(r.hops) + 2)
  <2>1. /\ Ingress(X) = IF ToXray(r.hops) THEN <<a>> ELSE <<>>
        /\ Ingress(T) = IF ToSing(r.hops) THEN <<b>> ELSE <<>>
        /\ a \in Tags /\ b \in Tags
    BY <1>2, IngressFacts
  <2> HIDE DEF a, b, X, T
  <2>2. QED
    BY <2>1
<1>7. Watched(r) \in [tag : Tags, hops : W]
  <2>1. Watched(r).tag \in Tags /\ Watched(r).hops \in W
    BY WatchedFacts
  <2>2. Watched(r) = [tag |-> Watched(r).tag, hops |-> Watched(r).hops]
    BY DEF Watched
  <2>3. QED
    BY <2>1, <2>2
<1>8. slot \in SUBSET [port : Nat, own : BOOLEAN]
  <2>1. p + 1 \in Nat /\ (~r.sole) \in BOOLEAN
    BY <1>1, <1>2
  <2>2. [port |-> p + 1, own |-> ~r.sole] \in [port : Nat, own : BOOLEAN]
    BY <2>1
  <2>3. QED
    BY <1>2, <2>2
<1>9. d = [sing |-> (c.sing \o S) \o T, xray |-> c.xray \o X,
           singToXray |-> c.singToXray \o Into(r.hops, p), xrayToSing |-> c.xrayToSing \o Back(r.hops, p),
           singIngress |-> c.singIngress \o Ingress(T), xrayIngress |-> c.xrayIngress \o Ingress(X),
           singIn |-> c.singIn, xrayIn |-> c.xrayIn, slot |-> slot, fulls |-> c.fulls,
           pool |-> c.pool, watch |-> Append(c.watch, Watched(r)), ports |-> p + 2,
           error |-> c.error]
  <2> HIDE DEF S, T, X
  <2>1. d = [c EXCEPT
            !.sing = @ \o S \o T,
            !.xray = @ \o X,
            !.singToXray = @ \o Into(r.hops, p),
            !.xrayToSing = @ \o Back(r.hops, p),
            !.xrayIngress = @ \o Ingress(X),
            !.singIngress = @ \o Ingress(T),
            !.slot = slot,
            !.watch = Append(@, Watched(r)),
            !.ports = @ + 2]
    BY DEF Chain, S, T, X
  <2> HIDE DEF slot, d, p
  <2>2. c.ports + 2 = p + 2
    BY DEF p
  <2>3. QED
    BY <2>1, <2>2 DEF Context
<1>10. /\ c.sing \o SingOuts(r, p) \in Seq(OutType) /\ c.xray \o X \in Seq(OutType)
       /\ c.singToXray \o Into(r.hops, p) \in Seq(Nat) /\ c.xrayToSing \o Back(r.hops, p) \in Seq(Nat)
       /\ c.singIngress \o Ingress(T) \in Seq(Tags) /\ c.xrayIngress \o Ingress(X) \in Seq(Tags)
       /\ Append(c.watch, Watched(r)) \in Seq([tag : Tags, hops : W]) /\ p + 2 \in Nat
  <2>1. SingOuts(r, p) \in Seq(OutType)
    BY <1>3 DEF SingOuts
  <2> HIDE DEF S, T, X, p
  <2>2. c.sing \o SingOuts(r, p) \in Seq(OutType) /\ c.xray \o X \in Seq(OutType)
    BY <1>2, <1>3, <2>1
  <2>3. c.singToXray \o Into(r.hops, p) \in Seq(Nat) /\ c.xrayToSing \o Back(r.hops, p) \in Seq(Nat)
    BY <1>2, <1>5
  <2>4. c.singIngress \o Ingress(T) \in Seq(Tags) /\ c.xrayIngress \o Ingress(X) \in Seq(Tags)
    BY <1>2, <1>6
  <2>5. Append(c.watch, Watched(r)) \in Seq([tag : Tags, hops : W]) /\ p + 2 \in Nat
    BY <1>2, <1>7
  <2>6. QED
    BY <2>2, <2>3, <2>4, <2>5
<1> HIDE DEF S, T, X, slot, d, p
<1>11. d \in Context(W)
  BY <1>2, <1>4, <1>8, <1>9, <1>10 DEF Context
<1>12. /\ d.sing = c.sing \o SingOuts(r, p)
       /\ d.xray = c.xray \o X
       /\ d.singToXray = c.singToXray \o Into(r.hops, p)
       /\ d.xrayToSing = c.xrayToSing \o Back(r.hops, p)
       /\ d.xrayIngress = c.xrayIngress \o Ingress(X)
       /\ d.singIngress = c.singIngress \o Ingress(T)
       /\ d.singIn = c.singIn /\ d.xrayIn = c.xrayIn
       /\ d.slot = slot
       /\ d.fulls = c.fulls /\ d.pool = c.pool
       /\ d.watch = Append(c.watch, Watched(r))
       /\ d.ports = p + 2 /\ d.error = c.error
  BY <1>4, <1>9
<1>13. QED
  BY <1>11, <1>12 DEF S, T, X, slot, d, p, Added

\* What is laid out stays when more is added.
Longer(s, t) == Len(s) <= Len(t) /\ \A i \in 1..Len(s) : t[i] = s[i]
Grows(c, d) ==
    /\ Range(c.sing) \subseteq Range(d.sing) /\ Range(c.xray) \subseteq Range(d.xray)
    /\ Longer(c.singToXray, d.singToXray) /\ Longer(c.xrayIngress, d.xrayIngress)
    /\ Longer(c.xrayToSing, d.xrayToSing) /\ Longer(c.singIngress, d.singIngress)

LEMMA LongerConcat ==
  ASSUME NEW X, NEW s \in Seq(X), NEW t \in Seq(X)
  PROVE  Longer(s, s \o t) /\ Longer(s, s) /\ Range(s \o t) = Range(s) \cup Range(t)
<1>1. Longer(s, s \o t) /\ Longer(s, s)
  BY DEF Longer
<1>2. ToSet(s \o t) = ToSet(s) \cup ToSet(t)
  BY ConcatFacts
<1>3. \A u : ToSet(u) = Range(u)
  BY DEF ToSet, Range
<1>4. QED
  BY <1>1, <1>2, <1>3

LEMMA LeadsToLonger ==
  ASSUME NEW ps \in Seq(Nat), NEW ins, NEW qs \in Seq(Nat), NEW jns, NEW port, NEW tag,
         Len(ps) = Len(ins), Longer(ps, qs), Longer(ins, jns), LeadsTo(ps, ins, port, tag)
  PROVE  LeadsTo(qs, jns, port, tag)
<1>1. PICK i \in 1..Len(ps) : ps[i] = port /\ ins[i] = tag
  BY DEF LeadsTo
<1>2. i \in 1..Len(qs) /\ qs[i] = port /\ jns[i] = tag
  BY <1>1 DEF Longer
<1>3. QED
  BY <1>2 DEF LeadsTo

LEMMA LaidGrows ==
  ASSUME NEW W, NEW c \in Context(W), NEW d \in Context(W), NEW T, Sane(c, T), NEW r, NEW p,
         Laid(c, r, p), Grows(c, d)
  PROVE  Laid(d, r, p)
<1>1. Range(SingOuts(r, p)) \subseteq Range(d.sing) /\ Range(XrayOuts(r, p)) \subseteq Range(d.xray)
  BY DEF Laid, Grows
<1>2. /\ c.singToXray \in Seq(Nat) /\ c.xrayToSing \in Seq(Nat)
      /\ d.singToXray \in Seq(Nat) /\ d.xrayToSing \in Seq(Nat)
  BY DEF Context
<1>3. Len(c.singToXray) = Len(c.xrayIngress) /\ Len(c.xrayToSing) = Len(c.singIngress)
  BY DEF Sane, Coupled
<1>4. /\ Longer(c.singToXray, d.singToXray) /\ Longer(c.xrayIngress, d.xrayIngress)
      /\ Longer(c.xrayToSing, d.xrayToSing) /\ Longer(c.singIngress, d.singIngress)
  BY DEF Grows
<1>5. ToXray(r.hops) => LeadsTo(d.singToXray, d.xrayIngress, p + 1, TagAt(Unwarped(r), 1))
  BY <1>2, <1>3, <1>4, LeadsToLonger DEF Laid
<1>6. ToSing(r.hops) => LeadsTo(d.xrayToSing, d.singIngress, p + 2, TagAt(r, Leads(r.hops) + 2))
  BY <1>2, <1>3, <1>4, LeadsToLonger DEF Laid
<1>7. QED
  BY <1>1, <1>5, <1>6 DEF Laid

LEMMA OneMore ==
  ASSUME NEW X, NEW s \in Seq(X), NEW x \in X
  PROVE  /\ s \o <<x>> \in Seq(X) /\ Len(s \o <<x>>) = Len(s) + 1 /\ (s \o <<x>>)[Len(s) + 1] = x
         /\ \A i \in 1..Len(s) : (s \o <<x>>)[i] = s[i]
OBVIOUS

\* A bridge more, of a port that no earlier one has.
LEMMA PairedGrows ==
  ASSUME NEW ps, NEW ins, NEW top \in Nat, Coupled(ps, ins, top), NEW b \in BOOLEAN,
         NEW port \in top+1..top+2, NEW tag \in Tags, NEW a, NEW e,
         a = IF b THEN <<port>> ELSE <<>>, e = IF b THEN <<tag>> ELSE <<>>
  PROVE  /\ Coupled(ps \o a, ins \o e, top + 2)
         /\ b => LeadsTo(ps \o a, ins \o e, port, tag)
<1>1. /\ ps \in Seq(Nat) /\ ins \in Seq(Tags) /\ Len(ps) = Len(ins) /\ Len(ps) \in Nat
      /\ \A i \in 1..Len(ps) : ps[i] <= top /\ ps[i] \in Nat
      /\ \A i, j \in 1..Len(ps) : ps[i] = ps[j] => i = j
  BY DEF Coupled
<1>2. CASE ~b
  <2>1. ps \o a = ps /\ ins \o e = ins
    BY <1>1, <1>2, ConcatEmptySeq
  <2>2. \A i \in 1..Len(ps) : ps[i] <= top + 2
    BY <1>1
  <2>3. QED
    BY <1>1, <1>2, <2>1, <2>2 DEF Coupled
<1>3. CASE b
  <2> DEFINE n == Len(ps)
             qs == ps \o a
             jns == ins \o e
  <2>1. a = <<port>> /\ e = <<tag>> /\ port \in Nat /\ port > top /\ port <= top + 2
    BY <1>3
  <2>2. /\ qs \in Seq(Nat) /\ Len(qs) = n + 1 /\ qs[n + 1] = port /\ \A i \in 1..n : qs[i] = ps[i]
        /\ jns \in Seq(Tags) /\ Len(jns) = n + 1 /\ jns[n + 1] = tag
    <3>1. /\ ps \o <<port>> \in Seq(Nat) /\ Len(ps \o <<port>>) = n + 1
          /\ (ps \o <<port>>)[n + 1] = port /\ \A i \in 1..n : (ps \o <<port>>)[i] = ps[i]
      BY <1>1, <2>1, OneMore
    <3>2. /\ ins \o <<tag>> \in Seq(Tags) /\ Len(ins \o <<tag>>) = n + 1
          /\ (ins \o <<tag>>)[n + 1] = tag
      BY <1>1, OneMore
    <3>3. QED
      BY <2>1, <3>1, <3>2
  <2> HIDE DEF qs, jns, n
  <2>3. /\ n \in Nat /\ \A i \in 1..n+1 : i \in 1..n \/ i = n + 1
        /\ \A i \in 1..n : ps[i] <= top /\ ps[i] \in Nat
        /\ \A i, j \in 1..n : ps[i] = ps[j] => i = j
    BY <1>1 DEF n
  <2>4. \A i \in 1..n : qs[i] <= top /\ qs[i] # port
    <3> TAKE i \in 1..n
    <3>1. qs[i] = ps[i] /\ ps[i] <= top /\ ps[i] \in Nat
      BY <2>2, <2>3
    <3>2. QED
      BY <2>1, <3>1
  <2>5. \A i, j \in 1..n+1 : qs[i] = qs[j] => i = j
    BY <2>2, <2>3, <2>4
  <2>10. \A i \in 1..n+1 : qs[i] <= top + 2
    <3> TAKE i \in 1..n+1
    <3>1. CASE i \in 1..n
      <4>1. qs[i] \in Nat /\ qs[i] <= top
        BY <2>2, <2>3, <3>1
      <4>2. QED
        BY <4>1
    <3>2. CASE i = n + 1
      BY <2>1, <2>2, <3>2
    <3>3. QED
      BY <2>3, <3>1, <3>2
  <2>6. Coupled(qs, jns, top + 2)
    BY <2>2, <2>5, <2>10 DEF Coupled
  <2>7. LeadsTo(qs, jns, port, tag)
    <3>1. n + 1 \in 1..Len(qs)
      BY <2>2, <2>3
    <3>2. QED
      BY <2>2, <3>1 DEF LeadsTo
  <2>8. QED
    BY <2>6, <2>7 DEF qs, jns
<1>4. QED
  BY <1>2, <1>3

\* The bridges of a chain more have ports and places of their own.
LEMMA ChainPairs ==
  ASSUME NEW W, NEW c \in Context(W), NEW r, Sound(r), ~Refused(r.hops), r.hops \in W,
         Coupled(c.singToXray, c.xrayIngress, c.ports), Coupled(c.xrayToSing, c.singIngress, c.ports)
  PROVE  LET d == Chain(c, r)
         IN  /\ Coupled(d.singToXray, d.xrayIngress, c.ports + 2)
             /\ ToXray(r.hops) =>
                  LeadsTo(d.singToXray, d.xrayIngress, c.ports + 1, TagAt(Unwarped(r), 1))
             /\ Coupled(d.xrayToSing, d.singIngress, c.ports + 2)
             /\ ToSing(r.hops) =>
                  LeadsTo(d.xrayToSing, d.singIngress, c.ports + 2, TagAt(r, Leads(r.hops) + 2))
<1> DEFINE d == Chain(c, r)
           p == c.ports
           X == XrayOuts(r, p)
           U == TailOuts(r)
           a == TagAt(Unwarped(r), 1)
           b == TagAt(r, Leads(r.hops) + 2)
           into == Into(r.hops, p)
           back == Back(r.hops, p)
           ix == Ingress(X)
           it == Ingress(U)
<1>1. /\ d.singToXray = c.singToXray \o into
      /\ d.xrayToSing = c.xrayToSing \o back
      /\ d.xrayIngress = c.xrayIngress \o ix
      /\ d.singIngress = c.singIngress \o it
      /\ d.ports = p + 2
  <2>1. Added(c, r, d)
    BY ChainFields
  <2>2. QED
    BY <2>1 DEF Added
<1>2. p \in Nat
  BY DEF Context
<1>4. /\ ix = IF ToXray(r.hops) THEN <<a>> ELSE <<>>
      /\ it = IF ToSing(r.hops) THEN <<b>> ELSE <<>>
      /\ a \in Tags /\ b \in Tags
  BY <1>2, IngressFacts
<1>5. /\ into = IF ToXray(r.hops) THEN <<p + 1>> ELSE <<>>
      /\ back = IF ToSing(r.hops) THEN <<p + 2>> ELSE <<>>
      /\ p + 1 \in p+1..p+2 /\ p + 2 \in p+1..p+2
      /\ ToXray(r.hops) \in BOOLEAN /\ ToSing(r.hops) \in BOOLEAN
  BY <1>2 DEF Into, Back, ToXray, ToSing
<1> HIDE DEF d, X, U, a, b, into, back, ix, it
<1>10. /\ Coupled(d.singToXray, d.xrayIngress, p + 2)
       /\ ToXray(r.hops) => LeadsTo(d.singToXray, d.xrayIngress, p + 1, a)
  <2> DEFINE ps == c.singToXray
             ins == c.xrayIngress
             q == ToXray(r.hops)
  <2>1. Coupled(ps, ins, p) /\ p \in Nat /\ q \in BOOLEAN
    BY <1>2, <1>5 DEF p
  <2>2. into = (IF q THEN <<p + 1>> ELSE <<>>) /\ ix = (IF q THEN <<a>> ELSE <<>>)
    BY <1>4, <1>5
  <2>3. d.singToXray = ps \o into /\ d.xrayIngress = ins \o ix
    BY <1>1
  <2> HIDE DEF ps, ins, q, p
  <2>4. Coupled(ps \o into, ins \o ix, p + 2) /\ (q => LeadsTo(ps \o into, ins \o ix, p + 1, a))
    BY <1>4, <1>5, <2>1, <2>2, PairedGrows
  <2>5. QED
    BY <2>3, <2>4 DEF q
<1>11. /\ Coupled(d.xrayToSing, d.singIngress, p + 2)
       /\ ToSing(r.hops) => LeadsTo(d.xrayToSing, d.singIngress, p + 2, b)
  <2> DEFINE ps == c.xrayToSing
             ins == c.singIngress
             q == ToSing(r.hops)
  <2>1. Coupled(ps, ins, p) /\ p \in Nat /\ q \in BOOLEAN
    BY <1>2, <1>5 DEF p
  <2>2. back = (IF q THEN <<p + 2>> ELSE <<>>) /\ it = (IF q THEN <<b>> ELSE <<>>)
    BY <1>4, <1>5
  <2>3. d.xrayToSing = ps \o back /\ d.singIngress = ins \o it
    BY <1>1
  <2> HIDE DEF ps, ins, q, p
  <2>4. Coupled(ps \o back, ins \o it, p + 2) /\ (q => LeadsTo(ps \o back, ins \o it, p + 2, b))
    BY <1>4, <1>5, <2>1, <2>2, PairedGrows
  <2>5. QED
    BY <2>3, <2>4 DEF q
<1>12. QED
  BY <1>10, <1>11 DEF d, p, a, b

\* A chain whose tags nobody has is laid out beside the others.
LEMMA ChainLays ==
  ASSUME NEW W, NEW c \in Context(W), NEW r, Sound(r), ~Refused(r.hops), r.hops \in W,
         NEW T, Sane(c, T), T \cap Claim(r) = {}
  PROVE  LET d == Chain(c, r)
         IN  Sane(d, T \cup Claim(r)) /\ Laid(d, r, c.ports) /\ Grows(c, d)
<1> DEFINE d == Chain(c, r)
           p == c.ports
           S == SingOuts(r, p)
           X == XrayOuts(r, p)
           U == TailOuts(r)
           a == TagAt(Unwarped(r), 1)
           b == TagAt(r, Leads(r.hops) + 2)
           into == Into(r.hops, p)
           back == Back(r.hops, p)
           ix == Ingress(X)
           it == Ingress(U)
<1>1. /\ d.sing = c.sing \o S
      /\ d.xray = c.xray \o X
      /\ d.singToXray = c.singToXray \o into
      /\ d.xrayToSing = c.xrayToSing \o back
      /\ d.xrayIngress = c.xrayIngress \o ix
      /\ d.singIngress = c.singIngress \o it
      /\ d.ports = p + 2
  <2>1. Added(c, r, d)
    BY ChainFields
  <2>2. QED
    BY <2>1 DEF Added
<1>2. /\ c.sing \in Seq(OutType) /\ c.xray \in Seq(OutType) /\ p \in Nat
      /\ c.singToXray \in Seq(Nat) /\ c.xrayToSing \in Seq(Nat)
      /\ c.singIngress \in Seq(Tags) /\ c.xrayIngress \in Seq(Tags)
  BY DEF Context
<1>3. Distinct(S, Claim(r)) /\ Distinct(X, Claim(r))
  BY <1>2, SingDistinct, XrayDistinct
<1>4. /\ ix = IF ToXray(r.hops) THEN <<a>> ELSE <<>>
      /\ it = IF ToSing(r.hops) THEN <<b>> ELSE <<>>
      /\ a \in Tags /\ b \in Tags
  BY <1>2, IngressFacts
<1>5. /\ into = IF ToXray(r.hops) THEN <<p + 1>> ELSE <<>>
      /\ back = IF ToSing(r.hops) THEN <<p + 2>> ELSE <<>>
      /\ p + 1 \in p+1..p+2 /\ p + 2 \in p+1..p+2
      /\ ToXray(r.hops) \in BOOLEAN /\ ToSing(r.hops) \in BOOLEAN
  BY <1>2 DEF Into, Back, ToXray, ToSing
<1> HIDE DEF d, S, X, U, a, b, into, back, ix, it
<1>6. S \in Seq(OutType) /\ X \in Seq(OutType)
  BY <1>3 DEF Distinct
<1>7. into \in Seq(Nat) /\ back \in Seq(Nat) /\ ix \in Seq(Tags) /\ it \in Seq(Tags)
  <2>1. p + 1 \in Nat /\ p + 2 \in Nat
    BY <1>2
  <2>2. QED
    BY <1>4, <1>5, <2>1
<1>8. Distinct(c.sing, T) /\ Distinct(c.xray, T)
  BY DEF Sane
<1>9. Distinct(d.sing, T \cup Claim(r)) /\ Distinct(d.xray, T \cup Claim(r))
  <2> DEFINE u == c.sing
             v == c.xray
             V == Claim(r)
  <2>1. Distinct(u, T) /\ Distinct(v, T) /\ Distinct(S, V) /\ Distinct(X, V) /\ T \cap V = {}
    BY <1>3, <1>8
  <2>2. d.sing = u \o S /\ d.xray = v \o X
    BY <1>1
  <2> HIDE DEF u, v, V
  <2>3. Distinct(u \o S, T \cup V)
    BY <2>1, DistinctConcat
  <2>4. Distinct(v \o X, T \cup V)
    BY <2>1, DistinctConcat
  <2>5. QED
    BY <2>2, <2>3, <2>4 DEF V
<1>10. /\ Coupled(d.singToXray, d.xrayIngress, p + 2)
       /\ ToXray(r.hops) => LeadsTo(d.singToXray, d.xrayIngress, p + 1, a)
       /\ Coupled(d.xrayToSing, d.singIngress, p + 2)
       /\ ToSing(r.hops) => LeadsTo(d.xrayToSing, d.singIngress, p + 2, b)
  <2>1. Coupled(c.singToXray, c.xrayIngress, c.ports) /\ Coupled(c.xrayToSing, c.singIngress, c.ports)
    BY DEF Sane
  <2>2. QED
    BY <2>1, ChainPairs DEF d, p, a, b
<1>12. Sane(d, T \cup Claim(r))
  BY <1>1, <1>9, <1>10 DEF Sane
<1>13. Range(d.sing) = Range(c.sing) \cup Range(S) /\ Range(d.xray) = Range(c.xray) \cup Range(X)
  <2> DEFINE u == c.sing
             v == c.xray
  <2>1. /\ u \in Seq(OutType) /\ d.sing = u \o S /\ S \in Seq(OutType)
        /\ v \in Seq(OutType) /\ d.xray = v \o X /\ X \in Seq(OutType)
    BY <1>1, <1>2, <1>6
  <2> HIDE DEF u, v
  <2>2. Range(u \o S) = Range(u) \cup Range(S)
    BY <2>1, LongerConcat
  <2>3. Range(v \o X) = Range(v) \cup Range(X)
    BY <2>1, LongerConcat
  <2>4. QED
    BY <2>1, <2>2, <2>3 DEF u, v
<1>14. Laid(d, r, p)
  BY <1>10, <1>13 DEF Laid, S, X, a, b
<1>15. Grows(c, d)
  <2>1. Longer(c.singToXray, d.singToXray) /\ Longer(c.xrayToSing, d.xrayToSing)
    <3> DEFINE u == c.singToXray
               v == c.xrayToSing
    <3>1. /\ u \in Seq(Nat) /\ into \in Seq(Nat) /\ d.singToXray = u \o into
          /\ v \in Seq(Nat) /\ back \in Seq(Nat) /\ d.xrayToSing = v \o back
      BY <1>1, <1>2, <1>7
    <3> HIDE DEF u, v
    <3>2. Longer(u, u \o into)
      BY <3>1, LongerConcat
    <3>3. Longer(v, v \o back)
      BY <3>1, LongerConcat
    <3>4. QED
      BY <3>1, <3>2, <3>3 DEF u, v
  <2>2. Longer(c.xrayIngress, d.xrayIngress) /\ Longer(c.singIngress, d.singIngress)
    <3> DEFINE u == c.xrayIngress
               v == c.singIngress
    <3>1. /\ u \in Seq(Tags) /\ ix \in Seq(Tags) /\ d.xrayIngress = u \o ix
          /\ v \in Seq(Tags) /\ it \in Seq(Tags) /\ d.singIngress = v \o it
      BY <1>1, <1>2, <1>7
    <3> HIDE DEF u, v
    <3>2. Longer(u, u \o ix)
      BY <3>1, LongerConcat
    <3>3. Longer(v, v \o it)
      BY <3>1, LongerConcat
    <3>4. QED
      BY <3>1, <3>2, <3>3 DEF u, v
  <2>3. QED
    BY <1>13, <2>1, <2>2 DEF Grows
<1>16. QED
  BY <1>12, <1>14, <1>15 DEF d, p

-----------------------------------------------------------------------------
(* Where a connection goes                                                     *)

At(core, tag, hops) == [core |-> core, tag |-> tag, hops |-> hops]

\* From w to v by n outbounds, or fewer if it leaves.
Reaches(w, n, v) ==
    \E f : f[0] = w /\ f[n] = v /\ \A i \in 1..n : f[i] = Further(f[i - 1])

\* An outbound whose tag nobody else has is the only one that is found.
LEMMA NamedOnce ==
  ASSUME NEW core, NEW T, Distinct(context[core], T), NEW o \in Range(context[core])
  PROVE  \E q : Named(core, o.tag) = {q} /\ context[core][q] = o
<1> DEFINE s == context[core]
<1>1. s \in Seq(OutType) /\ DOMAIN s = 1..Len(s) /\ \A i, j \in 1..Len(s) : s[i].tag = s[j].tag => i = j
  BY DEF Distinct
<1>2. PICK q \in DOMAIN s : s[q] = o
  BY DEF Range
<1>3. Named(core, o.tag) = {i \in DOMAIN s : s[i].tag = o.tag}
  BY DEF Named
<1> HIDE DEF s
<1>4. {i \in DOMAIN s : s[i].tag = o.tag} = {q}
  BY <1>1, <1>2
<1>5. QED
  BY <1>2, <1>3, <1>4 DEF s

LEMMA Chosen ==
  ASSUME NEW q
  PROVE  (CHOOSE i \in {q} : TRUE) = q
OBVIOUS

LEMMA FurtherHop ==
  ASSUME NEW core, NEW T, Distinct(context[core], T), NEW o \in Range(context[core]), NEW hops,
         o.tag # NoTag, o.end.hop # "bridge", Served(o.end)
  PROVE  Further(At(core, o.tag, hops)) = At(core, o.detour, Append(hops, o.end.hop))
<1> DEFINE w == At(core, o.tag, hops)
           N == Named(core, o.tag)
           out == context[core][CHOOSE i \in N : TRUE]
<1>1. PICK q : N = {q} /\ context[core][q] = o
  BY NamedOnce
<1>2. Cardinality(N) = 1
  <2> HIDE DEF N
  <2>1. Cardinality({q}) = 1
    BY FS_Singleton
  <2>2. QED
    BY <1>1, <2>1
<1>3. out = o
  <2> HIDE DEF N
  <2>1. (CHOOSE i \in N : TRUE) = q
    BY <1>1, Chosen
  <2>2. QED
    BY <1>1, <2>1
<1>4. w.core = core /\ w.tag = o.tag /\ w.hops = hops
  BY DEF At
<1> DEFINE doors == Inbounds(Other(core), out.end.port)
           door  == CHOOSE b \in doors : TRUE
<1> HIDE DEF w, N, out, doors, door
<1>5. Further(w) =
        CASE w.tag = NoTag -> w
          [] w.tag # NoTag /\ Cardinality(N) # 1 -> Lost
          [] w.tag # NoTag /\ Cardinality(N) = 1 ->
               IF out.end.hop = "bridge"
                 THEN IF Cardinality(doors) # 1 \/ out.detour # NoTag THEN Lost
                      ELSE [w EXCEPT !.core = Other(@),
                                     !.tag = IF door.out # NoTag THEN door.out
                                             ELSE context[Other(w.core)][1].tag]
               ELSE IF Served(out.end)
                 THEN [w EXCEPT !.tag = out.detour, !.hops = Append(@, out.end.hop)]
               ELSE Lost
  BY <1>4 DEF Further, N, out, doors, door
<1>6. Further(w) = [w EXCEPT !.tag = o.detour, !.hops = Append(@, o.end.hop)]
  BY <1>2, <1>3, <1>4, <1>5
<1>7. QED
  BY <1>6 DEF w, At

LEMMA FurtherBridge ==
  ASSUME NEW core, NEW T, Distinct(context[core], T), NEW o \in Range(context[core]), NEW hops,
         o.tag # NoTag, o.end.hop = "bridge", o.detour = NoTag,
         NEW b, Inbounds(Other(core), o.end.port) = {b}, b.out # NoTag
  PROVE  Further(At(core, o.tag, hops)) = At(Other(core), b.out, hops)
<1> DEFINE w == At(core, o.tag, hops)
           N == Named(core, o.tag)
           out == context[core][CHOOSE i \in N : TRUE]
<1>1. PICK q : N = {q} /\ context[core][q] = o
  BY NamedOnce
<1>2. \A x : Cardinality({x}) = 1
  BY FS_Singleton
<1>3. Cardinality(N) = 1
  <2> HIDE DEF N
  <2> QED BY <1>1, <1>2
<1>4. out = o
  <2> HIDE DEF N
  <2>1. (CHOOSE i \in N : TRUE) = q
    BY <1>1, Chosen
  <2>2. QED
    BY <1>1, <2>1
<1>5. w.core = core /\ w.tag = o.tag /\ w.hops = hops
  BY DEF At
<1> DEFINE doors == Inbounds(Other(core), out.end.port)
           door  == CHOOSE x \in doors : TRUE
<1> HIDE DEF w, N, out
<1>6. doors = {b}
  BY <1>4
<1> HIDE DEF doors
<1>7. door = b /\ Cardinality(doors) = 1
  BY <1>2, <1>6, Chosen
<1> HIDE DEF door
<1>8. Further(w) =
        CASE w.tag = NoTag -> w
          [] w.tag # NoTag /\ Cardinality(N) # 1 -> Lost
          [] w.tag # NoTag /\ Cardinality(N) = 1 ->
               IF out.end.hop = "bridge"
                 THEN IF Cardinality(doors) # 1 \/ out.detour # NoTag THEN Lost
                      ELSE [w EXCEPT !.core = Other(@),
                                     !.tag = IF door.out # NoTag THEN door.out
                                             ELSE context[Other(w.core)][1].tag]
               ELSE IF Served(out.end)
                 THEN [w EXCEPT !.tag = out.detour, !.hops = Append(@, out.end.hop)]
               ELSE Lost
  BY <1>5 DEF Further, N, out, doors, door
<1>9. Further(w) = [w EXCEPT !.core = Other(@), !.tag = b.out]
  BY <1>3, <1>4, <1>5, <1>7, <1>8
<1>10. QED
  BY <1>9 DEF w, At

LEMMA FurtherLeft ==
  ASSUME NEW w, w.tag = NoTag
  PROVE  Further(w) = w
BY DEF Further

\* The one inbound of a port.
LEMMA OneDoor ==
  ASSUME NEW ps, NEW ins, NEW top, Coupled(ps, ins, top), NEW port, NEW tag, LeadsTo(ps, ins, port, tag)
  PROVE  {b \in {[port |-> ps[i], out |-> ins[i]] : i \in DOMAIN ps} : b.port = port}
           = {[port |-> port, out |-> tag]}
<1>1. DOMAIN ps = 1..Len(ps) /\ \A i, j \in 1..Len(ps) : ps[i] = ps[j] => i = j
  BY DEF Coupled
<1>2. PICK k \in 1..Len(ps) : ps[k] = port /\ ins[k] = tag
  BY DEF LeadsTo
<1> DEFINE D == {[port |-> ps[i], out |-> ins[i]] : i \in DOMAIN ps}
<1>3. ASSUME NEW b \in D, b.port = port PROVE b = [port |-> port, out |-> tag]
  <2>1. PICK i \in 1..Len(ps) : b = [port |-> ps[i], out |-> ins[i]]
    BY <1>1, <1>3
  <2>2. i = k
    BY <1>1, <1>2, <1>3, <2>1
  <2>3. QED
    BY <1>2, <2>1, <2>2
<1>4. [port |-> port, out |-> tag] \in D
  BY <1>1, <1>2
<1> HIDE DEF D
<1>5. {b \in D : b.port = port} = {[port |-> port, out |-> tag]}
  BY <1>3, <1>4
<1>6. QED
  BY <1>5 DEF D

LEMMA ReachesThen ==
  ASSUME NEW w, NEW v, NEW u, NEW m \in Nat, NEW n \in Nat, Reaches(w, m, v), Reaches(v, n, u)
  PROVE  Reaches(w, m + n, u)
<1>1. PICK f : f[0] = w /\ f[m] = v /\ \A i \in 1..m : f[i] = Further(f[i - 1])
  BY DEF Reaches
<1>2. PICK g : g[0] = v /\ g[n] = u /\ \A i \in 1..n : g[i] = Further(g[i - 1])
  BY DEF Reaches
<1> DEFINE h == [i \in 0..m+n |-> IF i <= m THEN f[i] ELSE g[i - m]]
<1>3. \A i \in 0..m : h[i] = f[i]
  OBVIOUS
<1>4. \A i \in m..m+n : h[i] = g[i - m]
  BY <1>1, <1>2
<1>5. h[0] = w /\ h[m + n] = u
  BY <1>1, <1>2, <1>3, <1>4
<1> HIDE DEF h
<1>6. ASSUME NEW i \in 1..m+n PROVE h[i] = Further(h[i - 1])
  <2>1. CASE i \in 1..m
    <3>1. h[i] = f[i] /\ h[i - 1] = f[i - 1]
      BY <1>3, <2>1
    <3>2. QED
      BY <1>1, <2>1, <3>1
  <2>2. CASE i \in m+1..m+n
    <3>1. i - m \in 1..n /\ i - m - 1 = i - 1 - m /\ i \in m..m+n /\ i - 1 \in m..m+n
      BY <2>2
    <3>2. h[i] = g[i - m] /\ h[i - 1] = g[i - m - 1]
      BY <1>4, <3>1
    <3>3. QED
      BY <1>2, <3>1, <3>2
  <2>3. QED
    BY <2>1, <2>2
<1>7. QED
  BY <1>5, <1>6 DEF Reaches

\* One that has left the box stays out.
LEMMA ReachesEnd ==
  ASSUME NEW w, NEW v, NEW n \in Nat, NEW m \in Nat, n <= m, Reaches(w, n, v), v.tag = NoTag
  PROVE  Reaches(w, m, v)
<1> DEFINE f == [i \in 0..m-n |-> v]
<1>1. m - n \in Nat /\ n + (m - n) = m
  OBVIOUS
<1>2. Further(v) = v
  BY FurtherLeft
<1>3. f[0] = v /\ f[m - n] = v /\ \A i \in 1..m-n : f[i] = Further(f[i - 1])
  BY <1>1, <1>2
<1>4. Reaches(v, m - n, v)
  <2> HIDE DEF f
  <2> QED BY <1>3 DEF Reaches
<1> DEFINE k == m - n
<1> HIDE DEF k
<1>5. Reaches(w, n + k, v)
  <2>1. k \in Nat /\ Reaches(v, k, v)
    BY <1>1, <1>4 DEF k
  <2>2. QED
    BY <2>1, ReachesThen
<1>6. QED
  BY <1>1, <1>5 DEF k

LEMMA Walked ==
  ASSUME NEW tag, NEW n \in Nat, NEW v, Reaches(At("sing", tag, <<>>), n, v)
  PROVE  Walk(tag, n) = v
<1> DEFINE w == At("sing", tag, <<>>)
           body(f) == [i \in 0..n |-> IF i = 0 THEN w ELSE Further(f[i - 1])]
           F == CHOOSE f : f = body(f)
<1>1. PICK e : e[0] = w /\ e[n] = v /\ \A i \in 1..n : e[i] = Further(e[i - 1])
  BY DEF Reaches
<1> DEFINE g == [i \in 0..n |-> e[i]]
<1>2. g = body(g)
  <2>1. ASSUME NEW i \in 0..n PROVE g[i] = IF i = 0 THEN w ELSE Further(g[i - 1])
    <3>1. CASE i = 0
      BY <1>1, <3>1
    <3>2. CASE i # 0
      <4>1. i \in 1..n /\ i - 1 \in 0..n
        BY <3>2
      <4>2. g[i] = e[i] /\ g[i - 1] = e[i - 1]
        BY <4>1
      <4> HIDE DEF g
      <4>3. QED
        BY <1>1, <3>2, <4>1, <4>2
    <3>3. QED
      BY <3>1, <3>2
  <2>2. g = [i \in 0..n |-> g[i]]
    OBVIOUS
  <2> HIDE DEF g
  <2>3. QED
    BY <2>1, <2>2
<1>3. g[n] = v
  BY <1>1
<1> HIDE DEF g
<1>4. F = body(F)
  <2> HIDE DEF body
  <2> QED BY <1>2
<1>5. Walk(tag, n) = F[n]
  BY DEF Walk, At
<1> HIDE DEF F
<1>6. \A i \in 0..n : /\ F[i] = IF i = 0 THEN w ELSE Further(F[i - 1])
                      /\ g[i] = IF i = 0 THEN w ELSE Further(g[i - 1])
  BY <1>2, <1>4
<1>7. n \in {m \in 0..n : F[m] = g[m]}
  <2> DEFINE S == {m \in 0..n : F[m] = g[m]}
  <2>1. 0 \in S
    BY <1>6
  <2>2. ASSUME NEW m \in 0..n-1, m \in S PROVE m + 1 \in S
    <3>1. m + 1 \in 0..n /\ m + 1 # 0 /\ m + 1 - 1 = m /\ F[m] = g[m]
      BY <2>2
    <3>2. F[m + 1] = g[m + 1]
      BY <1>6, <3>1
    <3>3. QED
      BY <3>1, <3>2
  <2>3. QED
    <3> HIDE DEF S
    <3> n \in S
      BY <2>1, <2>2, Induction
    <3> QED BY DEF S
<1>8. QED
  BY <1>3, <1>5, <1>7

\* A row of linked outbounds of one core, which stand for the hops of l behind the b-th.
Row(core, outs, tag, l, b, m) ==
    \A i \in 1..m : /\ outs[i] \in Range(context[core])
                    /\ outs[i].tag = tag[i] /\ tag[i] # NoTag
                    /\ outs[i].detour = tag[i + 1]
                    /\ outs[i].end.hop = l[b + i] /\ l[b + i] # "bridge" /\ Served(outs[i].end)

LEMMA Leg ==
  ASSUME NEW core, NEW T, Distinct(context[core], T), NEW X, NEW l \in Seq(X), NEW b \in Nat, NEW m \in Nat,
         b + m <= Len(l), NEW tag, NEW outs, Row(core, outs, tag, l, b, m)
  PROVE  Reaches(At(core, tag[1], SubSeq(l, 1, b)), m, At(core, tag[m + 1], SubSeq(l, 1, b + m)))
<1> DEFINE f == [i \in 0..m |-> At(core, tag[i + 1], SubSeq(l, 1, b + i))]
<1>1. ASSUME NEW i \in 1..m PROVE f[i] = Further(f[i - 1])
  <2> DEFINE o == outs[i]
             h == SubSeq(l, 1, b + (i - 1))
  <2>1. /\ o \in Range(context[core]) /\ o.tag = tag[i] /\ o.tag # NoTag /\ o.detour = tag[i + 1]
        /\ o.end.hop = l[b + i] /\ o.end.hop # "bridge" /\ Served(o.end)
    BY DEF Row
  <2>2. i - 1 \in 0..m /\ i - 1 + 1 = i /\ i \in 0..m
    OBVIOUS
  <2>3. f[i - 1] = At(core, tag[i], h) /\ f[i] = At(core, tag[i + 1], SubSeq(l, 1, b + i))
    BY <2>2
  <2>4. Append(h, l[b + i]) = SubSeq(l, 1, b + i)
    <3> DEFINE k == b + (i - 1)
    <3>1. k \in 0..Len(l)-1 /\ k + 1 = b + i
      OBVIOUS
    <3> HIDE DEF k
    <3>2. Append(SubSeq(l, 1, k), l[k + 1]) = SubSeq(l, 1, k + 1)
      BY <3>1, PrefixGrows
    <3>3. QED
      BY <3>1, <3>2 DEF k
  <2> HIDE DEF f, h, o
  <2>5. \A g : Further(At(core, o.tag, g)) = At(core, o.detour, Append(g, o.end.hop))
    BY <2>1, FurtherHop
  <2>6. QED
    BY <2>1, <2>3, <2>4, <2>5
<1>2. f[0] = At(core, tag[1], SubSeq(l, 1, b)) /\ f[m] = At(core, tag[m + 1], SubSeq(l, 1, b + m))
  <2>1. 0 \in 0..m /\ m \in 0..m /\ 0 + 1 = 1 /\ b + 0 = b
    OBVIOUS
  <2>2. QED
    BY <2>1
<1> HIDE DEF f
<1>3. QED
  BY <1>1, <1>2 DEF Reaches

\* The configurations are complete: each bridge has its inbound.
Ready(T) ==
    /\ Sane(context, T)
    /\ context.singIn = {[port |-> context.xrayToSing[i], out |-> context.singIngress[i]]
                           : i \in DOMAIN context.xrayToSing}
    /\ context.xray # <<>> =>
         context.xrayIn = {[port |-> context.singToXray[i], out |-> context.xrayIngress[i]]
                             : i \in DOMAIN context.singToXray}

\* A chain that is laid out there, and whose full configuration is served.
KeptUp(c, r, p) ==
    Range(r.hops) \cap FullXray # {} => \E f \in c.slot \cup c.fulls : f.port = p + 1
Stands(T, r, p) ==
    /\ Ready(T) /\ Sound(r) /\ ~Refused(r.hops) /\ p \in Nat
    /\ Laid(context, r, p) /\ KeptUp(context, r, p)

LEMMA StandsFacts ==
  ASSUME NEW T, NEW r, NEW p, Stands(T, r, p)
  PROVE  /\ Distinct(context["sing"], T) /\ Distinct(context["xray"], T)
         /\ \A i \in 1..Len(LeadOuts(r, p)) : LeadOuts(r, p)[i] \in Range(context["sing"])
         /\ \A i \in 1..Len(TailOuts(r)) : TailOuts(r)[i] \in Range(context["sing"])
         /\ \A i \in 1..Len(XrayOuts(r, p)) : XrayOuts(r, p)[i] \in Range(context["xray"])
<1> DEFINE s == LeadOuts(r, p)
           t == TailOuts(r)
           x == XrayOuts(r, p)
<1>1. Sound(r) /\ ~Refused(r.hops) /\ p \in Nat
  BY DEF Stands
<1>2. s \in Seq(OutType) /\ t \in Seq(OutType) /\ x \in Seq(OutType)
  BY <1>1, LeadFacts, TailOutsFacts, XrayFacts
<1>3. Range(SingOuts(r, p)) \subseteq Range(context.sing) /\ Range(x) \subseteq Range(context.xray)
  BY DEF Stands, Laid
<1>4. SingOuts(r, p) = s \o t
  BY DEF SingOuts
<1> HIDE DEF s, t, x
<1>5. Range(s) \cup Range(t) \subseteq Range(context.sing)
  BY <1>2, <1>3, <1>4, LongerConcat
<1>6. /\ \A i \in 1..Len(s) : s[i] \in Range(context.sing)
      /\ \A i \in 1..Len(t) : t[i] \in Range(context.sing)
      /\ \A i \in 1..Len(x) : x[i] \in Range(context.xray)
  <2>1. DOMAIN s = 1..Len(s) /\ DOMAIN t = 1..Len(t) /\ DOMAIN x = 1..Len(x)
    BY <1>2
  <2>2. (\A i \in 1..Len(s) : s[i] \in Range(s)) /\ (\A i \in 1..Len(t) : t[i] \in Range(t))
        /\ \A i \in 1..Len(x) : x[i] \in Range(x)
    BY <2>1 DEF Range
  <2>3. QED
    BY <1>3, <1>5, <2>2
<1>7. Distinct(context.sing, T) /\ Distinct(context.xray, T)
  BY DEF Stands, Ready, Sane
<1>8. QED
  BY <1>6, <1>7 DEF s, t, x

\* No hop is a bridge, and every hop is served.
LEMMA HopServed ==
  ASSUME NEW T, NEW r, NEW p, Stands(T, r, p), NEW i \in 1..Len(r.hops), NEW end,
         end.hop = r.hops[i], end.hop \in FullXray => end.port = p + 1
  PROVE  r.hops[i] # "bridge" /\ Served(end) /\ end.hop = r.hops[i]
<1>1. r.hops \in Seq(Hop) /\ DOMAIN r.hops = 1..Len(r.hops)
  BY DEF Stands, Sound, AskType, HopList
<1>2. r.hops[i] \in Hop /\ r.hops[i] \in Range(r.hops)
  BY <1>1 DEF Range
<1>3. r.hops[i] # "bridge"
  <2>1. "bridge" \notin Hop
    BY ChainAssumption
  <2>2. QED
    BY <1>2, <2>1
<1>4. Served(end)
  BY <1>2 DEF Stands, KeptUp, Served
<1>5. QED
  BY <1>3, <1>4

\* From an outbound in front of Xray to the bridge, or out of the box.
LEMMA LeadLeg ==
  ASSUME NEW T, NEW r, NEW p, Stands(T, r, p), NEW s \in Nat \ {0}, NEW m \in Nat,
         s + m = Leads(r.hops) + 1, NEW l \in Seq(Hop), m <= Len(l),
         \A i \in 1..m : l[i] = r.hops[s - 1 + i], m > 0 \/ ToXray(r.hops)
  PROVE  Reaches(At("sing", TagAt(r, s), <<>>), m,
                 At("sing", IF ToXray(r.hops) THEN TagAt(r, Leads(r.hops) + 1) ELSE NoTag,
                    SubSeq(l, 1, m)))
<1> DEFINE n == Leads(r.hops)
           k == n + One(ToXray(r.hops))
           lead == LeadOuts(r, p)
           tag == [i \in 1..m+1 |-> IF s - 1 + i <= k THEN TagAt(r, s - 1 + i) ELSE NoTag]
           outs == [i \in 1..m |-> lead[s - 1 + i]]
<1>1. Sound(r) /\ ~Refused(r.hops) /\ p \in Nat /\ r \in AskType /\ r.hops \in HopList
  BY DEF Stands, Sound, AskType
<1>2. /\ lead \in Seq(OutType) /\ Len(lead) = k /\ k \in Nat
      /\ \A i \in 1..k : /\ lead[i].tag = TagAt(r, i)
                         /\ lead[i].detour = IF i < k THEN TagAt(r, i + 1) ELSE NoTag
      /\ \A i \in 1..n : /\ lead[i].end.hop = r.hops[i]
                         /\ r.hops[i] \in FullXray => lead[i].end.port = p + 1
  <2> HIDE DEF tag, outs
  <2>1. Sound(r) /\ ~Refused(r.hops) /\ p \in Nat
    BY <1>1
  <2>2. lead \in Seq(OutType) /\ Len(lead) = k /\ k \in Nat
    BY <2>1, LeadFacts
  <2>3. \A i \in 1..k : /\ lead[i].tag = TagAt(r, i)
                        /\ lead[i].detour = IF i < k THEN TagAt(r, i + 1) ELSE NoTag
    BY <2>1, LeadFacts
  <2>4. \A i \in 1..n : /\ lead[i].end.hop = r.hops[i]
                        /\ r.hops[i] \in FullXray => lead[i].end.port = p + 1
    BY <2>1, LeadFacts, ZenonT(30), ZenonT(30)
  <2> HIDE DEF lead, k, n
  <2>5. QED
    BY <2>2, <2>3, <2>4
<1>3. n \in Nat /\ n <= Len(r.hops) /\ Len(r.hops) \in Nat
  BY <1>1, SplitFacts
<1>4. One(ToXray(r.hops)) = IF ToXray(r.hops) THEN 1 ELSE 0
  BY DEF One
<1>5. Distinct(context["sing"], T) /\ \A i \in 1..k : lead[i] \in Range(context["sing"])
  BY <1>2, StandsFacts
<1> HIDE DEF lead, n
<1>6. ASSUME NEW i \in 1..m
      PROVE  /\ outs[i] \in Range(context["sing"])
             /\ outs[i].tag = tag[i] /\ tag[i] # NoTag
             /\ outs[i].detour = tag[i + 1]
             /\ outs[i].end.hop = l[0 + i] /\ l[0 + i] # "bridge" /\ Served(outs[i].end)
  <2> DEFINE j == s - 1 + i
             o == lead[j]
  <2>1. j \in 1..n /\ j \in 1..k /\ j \in Nat \ {0} /\ i + 1 \in 1..m+1 /\ i \in 1..m+1 /\ 0 + i = i
        /\ s - 1 + (i + 1) = j + 1 /\ j \in 1..Len(r.hops)
    BY <1>3, <1>4, <1>2 DEF n
  <2>2. outs[i] = o /\ tag[i] = TagAt(r, j) /\ tag[i + 1] = IF j + 1 <= k THEN TagAt(r, j + 1) ELSE NoTag
    BY <2>1
  <2> HIDE DEF outs, tag
  <2>3. l[0 + i] = r.hops[j]
    BY <2>1
  <2>4. j < k <=> j + 1 <= k
    BY <1>2, <2>1
  <2>5. TagAt(r, j) # NoTag
    BY <1>1, <2>1, TagAtFacts
  <2> HIDE DEF j
  <2>6. o.end.hop = r.hops[j] /\ (o.end.hop \in FullXray => o.end.port = p + 1)
    BY <1>2, <2>1
  <2>7. r.hops[j] # "bridge" /\ Served(o.end)
    <3> DEFINE e == o.end
    <3> HIDE DEF e
    <3>1. e.hop = r.hops[j] /\ (e.hop \in FullXray => e.port = p + 1)
      BY <2>6 DEF e
    <3>2. r.hops[j] # "bridge" /\ Served(e)
      <4>1. j \in 1..Len(r.hops)
        BY <2>1
      <4>2. QED
        BY <3>1, <4>1, HopServed
    <3>3. QED
      BY <3>2 DEF e
  <2>8. o \in Range(context["sing"]) /\ o.tag = TagAt(r, j)
        /\ o.detour = IF j < k THEN TagAt(r, j + 1) ELSE NoTag
    BY <1>2, <1>5, <2>1
  <2>9. QED
    BY <2>2, <2>3, <2>4, <2>5, <2>6, <2>7, <2>8
<1>7. tag[1] = TagAt(r, s)
      /\ tag[m + 1] = IF ToXray(r.hops) THEN TagAt(r, n + 1) ELSE NoTag
  <2>1. s - 1 + 1 = s /\ s - 1 + (m + 1) = n + 1 /\ 1 \in 1..m+1 /\ m + 1 \in 1..m+1
    <3>1. s + m = n + 1 /\ s \in Nat \ {0} /\ m \in Nat
      BY DEF n
    <3>2. QED
      BY <1>3, <3>1
  <2>2. s <= k
    BY <1>2, <1>3, <1>4 DEF n
  <2>3. n + 1 <= k <=> ToXray(r.hops)
    BY <1>3, <1>4
  <2>4. QED
    BY <2>1, <2>2, <2>3
<1> HIDE DEF tag, outs
<1>8. Row("sing", outs, tag, l, 0, m)
  BY <1>6 DEF Row
<1>9. Reaches(At("sing", tag[1], SubSeq(l, 1, 0)), m, At("sing", tag[m + 1], SubSeq(l, 1, 0 + m)))
  <2>1. 0 + m <= Len(l) /\ 0 \in Nat
    OBVIOUS
  <2>2. QED
    BY <1>5, <1>8, <2>1, Leg
<1>10. SubSeq(l, 1, 0) = <<>> /\ 0 + m = m
  OBVIOUS
<1>11. QED
  BY <1>7, <1>9, <1>10 DEF n

\* Through the hops of Xray, to the bridge back or out of the box.
LEMMA XrayLeg ==
  ASSUME NEW T, NEW r, NEW p, Stands(T, r, p), NEW l \in Seq(Hop), NEW b \in Nat,
         b + Xrays(r.hops) <= Len(l),
         \A i \in 1..Xrays(r.hops) : l[b + i] = r.hops[Leads(r.hops) + i], ToXray(r.hops)
  PROVE  Reaches(At("xray", TagAt(Unwarped(r), 1), SubSeq(l, 1, b)), Xrays(r.hops),
                 At("xray", IF ToSing(r.hops) THEN TagAt(Unwarped(r), Xrays(r.hops) + 1) ELSE NoTag,
                    SubSeq(l, 1, b + Xrays(r.hops))))
<1> DEFINE n == Leads(r.hops)
           m == Xrays(r.hops)
           k == m + One(ToSing(r.hops))
           x == Unwarped(r)
           outs == XrayOuts(r, p)
           tag == [i \in 1..m+1 |-> IF i <= k THEN TagAt(x, i) ELSE NoTag]
<1>1. Sound(r) /\ ~Refused(r.hops) /\ p \in Nat /\ r \in AskType /\ r.hops \in HopList
  BY DEF Stands, Sound, AskType
<1>2. /\ outs \in Seq(OutType) /\ Len(outs) = k /\ k \in Nat /\ x \in AskType
      /\ \A i \in 1..k : /\ outs[i].tag = TagAt(x, i)
                         /\ outs[i].detour = IF i < k THEN TagAt(x, i + 1) ELSE NoTag
      /\ \A i \in 1..m : outs[i].end.hop = r.hops[n + i] /\ r.hops[n + i] \in Xray
  BY <1>1, XrayFacts
<1>3. n \in Nat /\ m \in Nat /\ n + m <= Len(r.hops) /\ Len(r.hops) \in Nat /\ m > 0
  BY <1>1, SplitFacts
<1>4. One(ToSing(r.hops)) = IF ToSing(r.hops) THEN 1 ELSE 0
  BY DEF One
<1>5. Distinct(context["xray"], T) /\ \A i \in 1..k : outs[i] \in Range(context["xray"])
  BY <1>2, StandsFacts
<1>6. \A i \in 1..m : l[b + i] = r.hops[n + i]
  OBVIOUS
<1>7. b + m <= Len(l)
  OBVIOUS
<1>8. Xray \cap FullXray = {}
  BY ChainAssumption DEF Terminal
<1> HIDE DEF outs, n, x, m
<1>9. ASSUME NEW i \in 1..m
      PROVE  /\ outs[i] \in Range(context["xray"])
             /\ outs[i].tag = tag[i] /\ tag[i] # NoTag
             /\ outs[i].detour = tag[i + 1]
             /\ outs[i].end.hop = l[b + i] /\ l[b + i] # "bridge" /\ Served(outs[i].end)
  <2> DEFINE j == n + i
             o == outs[i]
  <2>1. i \in 1..k /\ i \in Nat \ {0} /\ i + 1 \in 1..m+1 /\ i \in 1..m+1 /\ j \in 1..Len(r.hops)
    BY <1>2, <1>3, <1>4
  <2>2. tag[i] = TagAt(x, i) /\ tag[i + 1] = IF i + 1 <= k THEN TagAt(x, i + 1) ELSE NoTag
    BY <2>1
  <2> HIDE DEF tag
  <2>3. l[b + i] = r.hops[j]
    BY <1>6
  <2>4. i < k <=> i + 1 <= k
    BY <1>2, <2>1
  <2>5. TagAt(x, i) # NoTag
    BY <1>2, <2>1, TagAtFacts
  <2>6. o.end.hop = r.hops[j] /\ r.hops[j] \notin FullXray
    BY <1>2, <1>8
  <2> HIDE DEF j
  <2>7. r.hops[j] # "bridge" /\ Served(o.end)
    <3> DEFINE e == o.end
    <3> HIDE DEF e
    <3>1. e.hop = r.hops[j] /\ (e.hop \in FullXray => e.port = p + 1)
      BY <2>6 DEF e
    <3>2. r.hops[j] # "bridge" /\ Served(e)
      BY <2>1, <3>1, HopServed
    <3>3. QED
      BY <3>2 DEF e
  <2>8. o \in Range(context["xray"]) /\ o.tag = TagAt(x, i)
        /\ o.detour = IF i < k THEN TagAt(x, i + 1) ELSE NoTag
    BY <1>2, <1>5, <2>1
  <2>9. QED
    BY <2>2, <2>3, <2>4, <2>5, <2>6, <2>7, <2>8
<1>10. tag[1] = TagAt(x, 1)
      /\ tag[m + 1] = IF ToSing(r.hops) THEN TagAt(x, m + 1) ELSE NoTag
  <2>1. 1 \in 1..m+1 /\ m + 1 \in 1..m+1 /\ 1 <= k
    BY <1>2, <1>3, <1>4
  <2>2. m + 1 <= k <=> ToSing(r.hops)
    BY <1>3, <1>4
  <2>3. QED
    BY <2>1, <2>2
<1> HIDE DEF tag
<1>11. Row("xray", outs, tag, l, b, m)
  BY <1>9 DEF Row
<1>12. Reaches(At("xray", tag[1], SubSeq(l, 1, b)), m, At("xray", tag[m + 1], SubSeq(l, 1, b + m)))
  BY <1>3, <1>5, <1>7, <1>11, Leg
<1>13. QED
  BY <1>10, <1>12 DEF m, x

\* Through the hops behind Xray, and out of the box.
LEMMA TailLeg ==
  ASSUME NEW T, NEW r, NEW p, Stands(T, r, p), NEW l \in Seq(Hop), NEW b \in Nat,
         b + Tails(r.hops) = Len(l),
         \A i \in 1..Tails(r.hops) : l[b + i] = r.hops[Leads(r.hops) + Xrays(r.hops) + i], ToSing(r.hops)
  PROVE  Reaches(At("sing", TagAt(r, Leads(r.hops) + 2), SubSeq(l, 1, b)), Tails(r.hops),
                 At("sing", NoTag, l))
<1> DEFINE n == Leads(r.hops)
           x == Xrays(r.hops)
           m == Tails(r.hops)
           outs == TailOuts(r)
           tag == [i \in 1..m+1 |-> IF i <= m THEN TagAt(r, n + 1 + i) ELSE NoTag]
<1>1. Sound(r) /\ ~Refused(r.hops) /\ p \in Nat /\ r \in AskType /\ r.hops \in HopList
  BY DEF Stands, Sound, AskType
<1>2. /\ outs \in Seq(OutType) /\ Len(outs) = m /\ m \in Nat
      /\ \A i \in 1..m : /\ outs[i].tag = TagAt(r, n + 1 + i)
                         /\ outs[i].detour = IF i < m THEN TagAt(r, n + 1 + (i + 1)) ELSE NoTag
                         /\ outs[i].end.hop = r.hops[n + x + i]
                         /\ r.hops[n + x + i] \in Hop \ FullXray
  BY <1>1, TailOutsFacts
<1>3. n \in Nat /\ x \in Nat /\ n + x + m = Len(r.hops) /\ Len(r.hops) \in Nat /\ m > 0
  BY <1>1, SplitFacts
<1>4. Distinct(context["sing"], T) /\ \A i \in 1..m : outs[i] \in Range(context["sing"])
  BY <1>2, StandsFacts
<1>5. \A i \in 1..m : l[b + i] = r.hops[n + x + i]
  OBVIOUS
<1>6. b + m = Len(l)
  OBVIOUS
<1> HIDE DEF outs, n, x, m
<1>7. ASSUME NEW i \in 1..m
      PROVE  /\ outs[i] \in Range(context["sing"])
             /\ outs[i].tag = tag[i] /\ tag[i] # NoTag
             /\ outs[i].detour = tag[i + 1]
             /\ outs[i].end.hop = l[b + i] /\ l[b + i] # "bridge" /\ Served(outs[i].end)
  <2> DEFINE j == n + x + i
             o == outs[i]
  <2>1. n + 1 + i \in Nat \ {0} /\ i + 1 \in 1..m+1 /\ i \in 1..m+1 /\ j \in 1..Len(r.hops)
    BY <1>2, <1>3
  <2>2. tag[i] = TagAt(r, n + 1 + i) /\ tag[i + 1] = IF i + 1 <= m THEN TagAt(r, n + 1 + (i + 1)) ELSE NoTag
    BY <2>1
  <2> HIDE DEF tag
  <2>3. l[b + i] = r.hops[j]
    BY <1>5
  <2>4. i < m <=> i + 1 <= m
    BY <1>2, <2>1
  <2>5. TagAt(r, n + 1 + i) # NoTag
    BY <1>1, <2>1, TagAtFacts
  <2>6. o.end.hop = r.hops[j] /\ r.hops[j] \notin FullXray
    BY <1>2
  <2> HIDE DEF j
  <2>7. r.hops[j] # "bridge" /\ Served(o.end)
    <3> DEFINE e == o.end
    <3> HIDE DEF e
    <3>1. e.hop = r.hops[j] /\ (e.hop \in FullXray => e.port = p + 1)
      BY <2>6 DEF e
    <3>2. r.hops[j] # "bridge" /\ Served(e)
      BY <2>1, <3>1, HopServed
    <3>3. QED
      BY <3>2 DEF e
  <2>8. o \in Range(context["sing"]) /\ o.tag = TagAt(r, n + 1 + i)
        /\ o.detour = IF i < m THEN TagAt(r, n + 1 + (i + 1)) ELSE NoTag
    BY <1>2, <1>4
  <2>9. QED
    BY <2>2, <2>3, <2>4, <2>5, <2>6, <2>7, <2>8
<1>8. tag[1] = TagAt(r, n + 2) /\ tag[m + 1] = NoTag
  <2>1. 1 \in 1..m+1 /\ m + 1 \in 1..m+1 /\ 1 <= m /\ n + 1 + 1 = n + 2 /\ ~(m + 1 <= m)
    BY <1>3, <1>2
  <2>2. QED
    BY <2>1
<1> HIDE DEF tag
<1>9. Row("sing", outs, tag, l, b, m)
  BY <1>7 DEF Row
<1>10. Reaches(At("sing", tag[1], SubSeq(l, 1, b)), m, At("sing", tag[m + 1], SubSeq(l, 1, b + m)))
  <2>1. b + m <= Len(l)
    BY <1>2, <1>6
  <2>2. QED
    BY <1>2, <1>4, <1>9, <2>1, Leg
<1>11. SubSeq(l, 1, b + m) = l
  BY <1>6, SubSeqFull
<1>12. QED
  BY <1>8, <1>10, <1>11 DEF m, n

LEMMA OneStep ==
  ASSUME NEW w
  PROVE  Reaches(w, 1, Further(w))
<1> DEFINE f == [i \in 0..1 |-> IF i = 0 THEN w ELSE Further(w)]
<1>1. f[0] = w /\ f[1] = Further(w) /\ \A i \in 1..1 : f[i] = Further(f[i - 1])
  OBVIOUS
<1> HIDE DEF f
<1>2. QED
  BY <1>1 DEF Reaches

\* Over the bridge into Xray.
LEMMA IntoXray ==
  ASSUME NEW T, NEW r, NEW p, Stands(T, r, p), ToXray(r.hops), NEW h
  PROVE  Reaches(At("sing", TagAt(r, Leads(r.hops) + 1), h), 1, At("xray", TagAt(Unwarped(r), 1), h))
<1> DEFINE m == Leads(r.hops) + 1
           o == LeadOuts(r, p)[m]
           tag == TagAt(Unwarped(r), 1)
           b == [port |-> p + 1, out |-> tag]
<1>1. Sound(r) /\ ~Refused(r.hops) /\ p \in Nat /\ r \in AskType /\ r.hops \in HopList
  BY DEF Stands, Sound, AskType
<1>2. One(ToXray(r.hops)) = 1 /\ Leads(r.hops) \in Nat
  BY <1>1, SplitFacts DEF One
<1>3. /\ o.tag = TagAt(r, m) /\ o.detour = NoTag /\ o.end = [hop |-> "bridge", port |-> p + 1]
      /\ m \in 1..Len(LeadOuts(r, p))
  <2>1. Len(LeadOuts(r, p)) = m /\ m \in 1..m /\ ~(m < m)
    <3>1. Len(LeadOuts(r, p)) = Leads(r.hops) + One(ToXray(r.hops))
      BY <1>1, LeadFacts
    <3>2. QED
      BY <1>2, <3>1
  <2>2. QED
    BY <1>1, <1>2, <2>1, LeadFacts
<1>4. Distinct(context["sing"], T) /\ o \in Range(context["sing"])
  BY <1>3, StandsFacts
<1>5. LeadsTo(context.singToXray, context.xrayIngress, p + 1, tag)
  BY DEF Stands, Laid
<1>6. Coupled(context.singToXray, context.xrayIngress, context.ports)
  BY DEF Stands, Ready, Sane
<1>7. context.xray # <<>>
  <2>1. 1 \in 1..Len(XrayOuts(r, p))
    <3> DEFINE k == Xrays(r.hops) + One(ToSing(r.hops))
    <3>1. Len(XrayOuts(r, p)) = k /\ k \in Nat /\ (k > 0 <=> ToXray(r.hops))
      BY <1>1, XrayFacts
    <3> HIDE DEF k
    <3>2. QED
      BY <3>1
  <2>2. XrayOuts(r, p)[1] \in Range(context["xray"])
    BY <2>1, StandsFacts
  <2>3. Range(<<>>) = {}
    BY DEF Range
  <2>4. QED
    BY <2>2, <2>3
<1>8. Inbounds("xray", p + 1) = {b}
  <2>1. context.xrayIn = {[port |-> context.singToXray[i], out |-> context.xrayIngress[i]]
                             : i \in DOMAIN context.singToXray}
    BY <1>7 DEF Stands, Ready
  <2>2. Inbounds("xray", p + 1) = {d \in context.xrayIn : d.port = p + 1}
    BY DEF Inbounds
  <2> DEFINE ps == context.singToXray
             ins == context.xrayIngress
             top == context.ports
             q == p + 1
  <2> HIDE DEF ps, ins, top, q, tag
  <2>3. {d \in {[port |-> ps[i], out |-> ins[i]] : i \in DOMAIN ps} : d.port = q} = {[port |-> q, out |-> tag]}
    <3>1. Coupled(ps, ins, top) /\ LeadsTo(ps, ins, q, tag)
      BY <1>5, <1>6 DEF ps, ins, top, q, tag
    <3>2. QED
      BY <3>1, OneDoor
  <2>4. QED
    BY <2>1, <2>2, <2>3 DEF ps, ins, q
<1>9. b.out # NoTag /\ b.out = tag
  BY <1>1, IngressFacts
<1>10. o.tag # NoTag
  BY <1>1, <1>2, <1>3, TagAtFacts
<1>11. o.end.hop = "bridge" /\ o.end.port = p + 1
  BY <1>3
<1>12. Other("sing") = "xray"
  BY DEF Other
<1> HIDE DEF o, b, tag, m
<1>13. Further(At("sing", o.tag, h)) = At(Other("sing"), b.out, h)
  <2>1. Inbounds(Other("sing"), o.end.port) = {b}
    BY <1>8, <1>11, <1>12
  <2>2. QED
    BY <1>3, <1>4, <1>9, <1>10, <1>11, <2>1, FurtherBridge
<1>14. QED
  <2>1. Further(At("sing", TagAt(r, m), h)) = At("xray", tag, h)
    BY <1>3, <1>9, <1>12, <1>13
  <2>2. Reaches(At("sing", TagAt(r, m), h), 1, At("xray", tag, h))
    BY <2>1, OneStep
  <2>3. QED
    BY <2>2 DEF m, tag

\* Over the bridge back.
LEMMA BackToSing ==
  ASSUME NEW T, NEW r, NEW p, Stands(T, r, p), ToSing(r.hops), NEW h
  PROVE  Reaches(At("xray", TagAt(Unwarped(r), Xrays(r.hops) + 1), h), 1,
                 At("sing", TagAt(r, Leads(r.hops) + 2), h))
<1> DEFINE m == Xrays(r.hops) + 1
           o == XrayOuts(r, p)[m]
           tag == TagAt(r, Leads(r.hops) + 2)
           b == [port |-> p + 2, out |-> tag]
<1>1. Sound(r) /\ ~Refused(r.hops) /\ p \in Nat /\ r \in AskType /\ r.hops \in HopList
  BY DEF Stands, Sound, AskType
<1>2. One(ToSing(r.hops)) = 1 /\ Xrays(r.hops) \in Nat
  BY <1>1, SplitFacts DEF One
<1>3. /\ o.tag = TagAt(Unwarped(r), m) /\ o.detour = NoTag /\ o.end = [hop |-> "bridge", port |-> p + 2]
      /\ m \in 1..Len(XrayOuts(r, p)) /\ Unwarped(r) \in AskType
  <2>1. Len(XrayOuts(r, p)) = m /\ m \in 1..m /\ ~(m < m)
    <3>1. Len(XrayOuts(r, p)) = Xrays(r.hops) + One(ToSing(r.hops))
      BY <1>1, XrayFacts
    <3>2. QED
      BY <1>2, <3>1
  <2>2. QED
    BY <1>1, <1>2, <2>1, XrayFacts
<1>4. Distinct(context["xray"], T) /\ o \in Range(context["xray"])
  BY <1>3, StandsFacts
<1>5. LeadsTo(context.xrayToSing, context.singIngress, p + 2, tag)
  BY DEF Stands, Laid
<1>6. Coupled(context.xrayToSing, context.singIngress, context.ports)
  BY DEF Stands, Ready, Sane
<1>7. Inbounds("sing", p + 2) = {b}
  <2>1. context.singIn = {[port |-> context.xrayToSing[i], out |-> context.singIngress[i]]
                             : i \in DOMAIN context.xrayToSing}
    BY DEF Stands, Ready
  <2>2. Inbounds("sing", p + 2) = {d \in context.singIn : d.port = p + 2}
    BY DEF Inbounds
  <2> DEFINE ps == context.xrayToSing
             ins == context.singIngress
             top == context.ports
             q == p + 2
  <2> HIDE DEF ps, ins, top, q, tag
  <2>3. {d \in {[port |-> ps[i], out |-> ins[i]] : i \in DOMAIN ps} : d.port = q} = {[port |-> q, out |-> tag]}
    <3>1. Coupled(ps, ins, top) /\ LeadsTo(ps, ins, q, tag)
      BY <1>5, <1>6 DEF ps, ins, top, q, tag
    <3>2. QED
      BY <3>1, OneDoor
  <2>4. QED
    BY <2>1, <2>2, <2>3 DEF ps, ins, q
<1>8. b.out # NoTag /\ b.out = tag
  BY <1>1, IngressFacts
<1>9. o.tag # NoTag
  BY <1>2, <1>3, TagAtFacts
<1>10. o.end.hop = "bridge" /\ o.end.port = p + 2
  BY <1>3
<1>11. Other("xray") = "sing"
  BY DEF Other
<1> HIDE DEF o, b, tag, m
<1>12. Further(At("xray", o.tag, h)) = At(Other("xray"), b.out, h)
  <2>1. Inbounds(Other("xray"), o.end.port) = {b}
    BY <1>7, <1>10, <1>11
  <2>2. QED
    BY <1>3, <1>4, <1>8, <1>9, <1>10, <2>1, FurtherBridge
<1>13. QED
  <2>1. Further(At("xray", TagAt(Unwarped(r), m), h)) = At("sing", tag, h)
    BY <1>3, <1>8, <1>11, <1>12
  <2>2. Reaches(At("xray", TagAt(Unwarped(r), m), h), 1, At("sing", tag, h))
    BY <2>1, OneStep
  <2>3. QED
    BY <2>2 DEF m, tag

LEMMA Arrives ==
  ASSUME NEW tag, NEW X, NEW l \in Seq(X), NEW n \in Nat, n <= Len(l) + 2, NEW core,
         Reaches(At("sing", tag, <<>>), n, At(core, NoTag, l))
  PROVE  Carries(tag, l)
<1> DEFINE m == Len(l) + 2
           v == At(core, NoTag, l)
           w == At("sing", tag, <<>>)
<1>1. m \in Nat /\ n <= m /\ v.tag = NoTag /\ v.hops = l
  BY DEF At
<1>2. Reaches(w, n, v)
  OBVIOUS
<1> HIDE DEF m, v, w
<1>3. Reaches(w, m, v)
  BY <1>1, <1>2, ReachesEnd
<1>4. Walk(tag, m) = v
  BY <1>1, <1>3, Walked DEF w
<1>5. QED
  BY <1>1, <1>4 DEF Carries, m

\* What enters a chain at its outbound s goes through all hops from there, in their order.
LEMMA ChainCarried ==
  ASSUME NEW T, NEW r, NEW p, Stands(T, r, p), NEW s \in 1..2,
         s <= Leads(r.hops) + One(ToXray(r.hops))
  PROVE  Carries(TagAt(r, s), SubSeq(r.hops, s, Len(r.hops)))
<1> DEFINE hops == r.hops
           n == Leads(hops)
           x == Xrays(hops)
           t == Tails(hops)
           m == n + 1 - s
           l == SubSeq(hops, s, Len(hops))
           u == Unwarped(r)
           w == At("sing", TagAt(r, s), <<>>)
<1>1. Sound(r) /\ ~Refused(hops) /\ p \in Nat /\ r \in AskType /\ hops \in HopList /\ hops \in Seq(Hop)
  BY DEF Stands, Sound, AskType, HopList
<1>2. /\ n \in Nat /\ x \in Nat /\ t \in Nat /\ n + x + t = Len(hops) /\ Len(hops) \in Nat
      /\ ToXray(hops) <=> x > 0
      /\ ToSing(hops) <=> t > 0
      /\ t > 0 => x > 0
      /\ \A i \in 1..Len(hops) : hops[i] \in Hop
  BY <1>1, SplitFacts
<1>3. One(ToXray(hops)) = IF ToXray(hops) THEN 1 ELSE 0
  BY DEF One
<1>4. s <= n + One(ToXray(hops)) /\ (s = 1 \/ s = 2)
  OBVIOUS
<1> HIDE DEF n, x, t, hops
<1>5. m \in Nat /\ s + m = n + 1 /\ (m > 0 \/ ToXray(hops)) /\ s <= Len(hops) /\ s \in Nat \ {0}
  BY <1>2, <1>3, <1>4
<1>6. l \in Seq(Hop) /\ Len(l) = Len(hops) - s + 1 /\ \A i \in 1..Len(hops)-s+1 : l[i] = hops[s - 1 + i]
  <2>1. l \in Seq(Hop) /\ Len(l) = Len(hops) - s + 1
    BY <1>1, <1>2, <1>5
  <2>2. ASSUME NEW i \in 1..Len(hops)-s+1 PROVE l[i] = hops[s - 1 + i]
    <3>1. s + i - 1 = s - 1 + i
      BY <1>5
    <3>2. l[i] = hops[s + i - 1]
      BY <1>1, <1>2, <1>5
    <3>3. QED
      BY <3>1, <3>2
  <2>3. QED
    BY <2>1, <2>2
<1> HIDE DEF l
<1>7. Len(l) = m + x + t /\ Len(l) \in Nat
  <2>1. n + x + t = Len(hops) /\ n \in Nat /\ x \in Nat /\ t \in Nat /\ Len(hops) \in Nat
    BY <1>2
  <2>2. Len(l) = Len(hops) - s + 1 /\ s <= Len(hops) /\ s \in Nat
    BY <1>5, <1>6
  <2>3. QED
    BY <2>1, <2>2
<1>8. \A i \in 1..Len(l) : l[i] = hops[s - 1 + i]
  BY <1>6
<1> DEFINE v1(tag) == At("sing", tag, SubSeq(l, 1, m))
<1>9. Reaches(w, m, v1(IF ToXray(hops) THEN TagAt(r, n + 1) ELSE NoTag))
  <2>1. m <= Len(l) /\ \A i \in 1..m : l[i] = hops[s - 1 + i]
    BY <1>2, <1>5, <1>7, <1>8
  <2> HIDE DEF m
  <2>2. QED
    BY <1>5, <1>6, <2>1, LeadLeg DEF hops, n
<1>10. CASE ~ToXray(hops)
  <2>1. x = 0 /\ t = 0 /\ m = Len(l) /\ m <= Len(l) + 2
    BY <1>2, <1>5, <1>7, <1>10
  <2>2. SubSeq(l, 1, m) = l
    BY <1>6, <2>1, SubSeqFull
  <2> HIDE DEF m, w
  <2>3. Reaches(w, m, At("sing", NoTag, l))
    BY <1>9, <1>10, <2>2
  <2>4. QED
    BY <1>5, <1>6, <2>1, <2>3, Arrives DEF w, l, hops
<1>11. CASE ToXray(hops)
  <2> DEFINE h == SubSeq(l, 1, m)
             g == SubSeq(l, 1, m + x)
             v2 == At("xray", TagAt(u, 1), h)
             v3(tag) == At("xray", tag, g)
  <2>1. Reaches(v1(TagAt(r, n + 1)), 1, v2)
    BY <1>11, IntoXray DEF n, hops
  <2>2. Reaches(v2, x, v3(IF ToSing(hops) THEN TagAt(u, x + 1) ELSE NoTag))
    <3>1. m + x <= Len(l)
      BY <1>2, <1>5, <1>7
    <3>2. \A i \in 1..x : l[m + i] = hops[n + i]
      <4> TAKE i \in 1..x
      <4>1. m + i \in 1..Len(l) /\ s - 1 + (m + i) = n + i
        BY <1>2, <1>4, <1>5, <1>7
      <4>2. QED
        BY <1>8, <4>1
    <3> HIDE DEF m
    <3>3. QED
      BY <1>5, <1>6, <1>11, <3>1, <3>2, XrayLeg DEF hops, x, n
  <2>3. Reaches(w, m + 1, v2)
    <3> HIDE DEF m, w, v2
    <3>1. Reaches(w, m, v1(TagAt(r, n + 1)))
      BY <1>9, <1>11
    <3> HIDE DEF v1
    <3>2. QED
      BY <1>5, <2>1, <3>1, ReachesThen
  <2>4. Reaches(w, m + 1 + x, v3(IF ToSing(hops) THEN TagAt(u, x + 1) ELSE NoTag))
    <3> DEFINE v == v3(IF ToSing(hops) THEN TagAt(u, x + 1) ELSE NoTag)
               k == m + 1
    <3>1. k \in Nat /\ Reaches(w, k, v2) /\ Reaches(v2, x, v)
      BY <1>5, <2>2, <2>3
    <3> HIDE DEF w, v2, v, k
    <3>2. Reaches(w, k + x, v)
      BY <1>2, <3>1, ReachesThen
    <3>3. QED
      BY <3>2 DEF k, v
  <2>5. CASE ~ToSing(hops)
    <3>1. m + x = Len(l) /\ m + 1 + x \in Nat /\ m + 1 + x <= Len(l) + 2
      <4>1. m \in Nat /\ x \in Nat /\ t \in Nat /\ ~(t > 0)
        BY <1>2, <1>5, <2>5
      <4> HIDE DEF m
      <4>2. t = 0
        BY <4>1
      <4>3. m + x = Len(l)
        BY <1>7, <4>1, <4>2
      <4>4. QED
        BY <4>1, <4>3
    <3>2. g = l
      BY <1>6, <3>1, SubSeqFull
    <3> DEFINE k == m + 1 + x
    <3>3. Reaches(w, k, At("xray", NoTag, l))
      BY <2>4, <2>5, <3>2
    <3> HIDE DEF w, g
    <3>4. QED
      <4>1. k \in Nat /\ k <= Len(l) + 2
        BY <3>1
      <4> HIDE DEF k
      <4>2. QED
        BY <1>6, <3>3, <4>1, Arrives DEF w, l, hops
  <2>6. CASE ToSing(hops)
    <3> DEFINE v4 == At("sing", TagAt(r, n + 2), g)
               v5 == At("sing", NoTag, l)
               b == m + x
    <3>1. Reaches(v3(TagAt(u, x + 1)), 1, v4)
      BY <2>6, BackToSing DEF n, x, hops
    <3>2. Reaches(v4, t, v5)
      <4>1. b \in Nat /\ b + t = Len(l)
        <5>1. m \in Nat /\ x \in Nat
          BY <1>2, <1>5
        <5> HIDE DEF m
        <5>2. QED
          BY <1>7, <5>1
      <4>2. \A i \in 1..t : l[b + i] = hops[n + x + i]
        <5> TAKE i \in 1..t
        <5>1. b + i \in 1..Len(l) /\ s - 1 + (b + i) = n + x + i
          <6>1. n \in Nat /\ x \in Nat /\ t \in Nat /\ s \in Nat /\ i \in 1..t
            BY <1>2, <1>5
          <6>2. b \in Nat /\ b + t = Len(l)
            BY <4>1
          <6>3. b + i \in 1..Len(l)
            <7> HIDE DEF b
            <7> QED BY <6>1, <6>2
          <6>4. s - 1 + (b + i) = n + x + i
            BY <6>1
          <6>5. QED
            BY <6>3, <6>4
        <5>2. QED
          BY <1>8, <5>1
      <4> HIDE DEF b
      <4>3. Reaches(At("sing", TagAt(r, n + 2), SubSeq(l, 1, b)), t, At("sing", NoTag, l))
        BY <1>6, <2>6, <4>1, <4>2, TailLeg DEF hops, x, n, t
      <4>4. QED
        BY <4>3 DEF b
    <3> DEFINE k == m + 1 + x
               v == v3(TagAt(u, x + 1))
    <3>3. Reaches(w, k, v) /\ k \in Nat
      BY <1>2, <1>5, <2>4, <2>6
    <3>4. Reaches(v, 1, v4)
      BY <3>1
    <3>5. k + 1 \in Nat /\ k + 1 + t \in Nat /\ k + 1 + t <= Len(l) + 2
      <4>1. m \in Nat /\ x \in Nat /\ t \in Nat
        BY <1>2, <1>5
      <4> HIDE DEF m
      <4>2. QED
        BY <1>7, <4>1
    <3> HIDE DEF k, v, w, v4, v5
    <3>6. Reaches(w, k + 1, v4)
      BY <3>3, <3>4, ReachesThen
    <3> DEFINE j == k + 1
    <3>7. j \in Nat /\ Reaches(w, j, v4)
      BY <3>5, <3>6
    <3> HIDE DEF j
    <3>8. Reaches(w, j + t, v5)
      BY <1>2, <3>2, <3>7, ReachesThen
    <3> DEFINE i == j + t
    <3>9. i \in Nat /\ i <= Len(l) + 2 /\ Reaches(w, i, v5)
      BY <3>5, <3>8 DEF j
    <3> HIDE DEF i
    <3>10. QED
      BY <1>6, <3>9, Arrives DEF w, v5, l, hops
  <2>7. QED
    BY <2>5, <2>6
<1>12. QED
  BY <1>10, <1>11

\* What enters behind Xray goes through the hops that follow.
LEMMA TailCarried ==
  ASSUME NEW T, NEW r, NEW p, Stands(T, r, p), Tails(r.hops) # 0
  PROVE  \E n \in 1..Len(r.hops) :
            Carries(TagAt(r, Leads(r.hops) + 2), SubSeq(r.hops, n, Len(r.hops)))
<1> DEFINE hops == r.hops
           n == Leads(hops)
           x == Xrays(hops)
           t == Tails(hops)
           s == n + x + 1
           l == SubSeq(hops, s, Len(hops))
           w == At("sing", TagAt(r, n + 2), <<>>)
<1>1. Sound(r) /\ ~Refused(hops) /\ p \in Nat /\ r \in AskType /\ hops \in HopList /\ hops \in Seq(Hop)
  BY DEF Stands, Sound, AskType, HopList
<1>2. /\ n \in Nat /\ x \in Nat /\ t \in Nat /\ n + x + t = Len(hops) /\ Len(hops) \in Nat
      /\ ToSing(hops)
      /\ \A i \in 1..Len(hops) : hops[i] \in Hop
  BY <1>1, SplitFacts
<1>3. t > 0
  BY <1>2
<1> HIDE DEF n, x, t, hops
<1>4. s \in 1..Len(hops)
  BY <1>2, <1>3
<1>5. l \in Seq(Hop) /\ Len(l) = t /\ \A i \in 1..t : l[0 + i] = hops[n + x + i]
  <2>1. l \in Seq(Hop) /\ Len(l) = Len(hops) - s + 1
    BY <1>1, <1>2, <1>4
  <2>2. ASSUME NEW i \in 1..t PROVE l[0 + i] = hops[n + x + i]
    <3>1. s + i - 1 = n + x + i /\ 0 + i = i /\ i \in 1..Len(hops)-s+1
      BY <1>2
    <3>2. l[i] = hops[s + i - 1]
      BY <1>1, <1>2, <1>4, <3>1
    <3>3. QED
      BY <3>1, <3>2
  <2>3. QED
    BY <1>2, <2>1, <2>2
<1> HIDE DEF l, s
<1>6. Reaches(At("sing", TagAt(r, n + 2), SubSeq(l, 1, 0)), t, At("sing", NoTag, l))
  <2>1. 0 \in Nat /\ 0 + t = Len(l)
    BY <1>2, <1>5
  <2>2. QED
    BY <1>2, <1>5, <2>1, TailLeg DEF hops, x, n, t
<1>7. SubSeq(l, 1, 0) = <<>>
  BY <1>5
<1>8. t \in Nat /\ t <= Len(l) + 2 /\ Reaches(w, t, At("sing", NoTag, l))
  <2>1. t \in Nat /\ t <= Len(l) + 2
    BY <1>2, <1>5
  <2>2. QED
    BY <1>6, <1>7, <2>1
<1>9. Carries(TagAt(r, n + 2), l)
  BY <1>5, <1>8, Arrives
<1>10. QED
  BY <1>4, <1>9 DEF n, l, hops

\* The group of a selector, with WARP in front of it or not.
GroupOut(tag) == [tag |-> tag, end |-> [hop |-> "pool", port |-> 0], detour |-> NoTag]
WarpOut == [tag |-> Proxy, end |-> [hop |-> Warp, port |-> 0], detour |-> WarpBypass]

LEMMA TwoLong ==
  ASSUME NEW x, NEW y
  PROVE  /\ <<>> \in Seq({x, y}) /\ <<x, y>> \in Seq({x, y}) /\ Len(<<x, y>>) = 2
         /\ Append(<<>>, x) = <<x>> /\ Append(<<x>>, y) = <<x, y>>
<1>1. Append(<<>>, x) = <<x>>
  OBVIOUS
<1>2. Append(<<x>>, y) = <<x, y>>
  <2> DEFINE s == <<x>>
             a == Append(s, y)
             b == <<x, y>>
             X == {x, y}
  <2>1. s \in Seq(X) /\ Len(s) = 1 /\ s[1] = x /\ y \in X
    OBVIOUS
  <2>2. b \in Seq(X) /\ Len(b) = 2 /\ b[1] = x /\ b[2] = y
    OBVIOUS
  <2> HIDE DEF s, b, X
  <2>3. a \in Seq(X) /\ Len(a) = 2 /\ a[1] = x /\ a[2] = y
    <3>1. s \in Seq(X) /\ y \in X
      BY <2>1
    <3>2. a \in Seq(X) /\ Len(a) = Len(s) + 1
      BY <3>1, AppendProperties
    <3>3. a[Len(s) + 1] = y
      BY <3>1, AppendProperties
    <3>4. \A i \in 1..Len(s) : a[i] = s[i]
      BY <3>1, AppendProperties
    <3>5. QED
      BY <2>1, <3>2, <3>3, <3>4
  <2> HIDE DEF a
  <2>4. a = b
    <3>1. \A i \in 1..Len(a) : a[i] = b[i]
      BY <2>2, <2>3
    <3>2. QED
      BY <2>2, <2>3, <3>1, SeqEqual
  <2>5. QED
    BY <2>4 DEF a, b, s
<1>3. <<x, y>> \in Seq({x, y}) /\ Len(<<x, y>>) = 2 /\ <<>> \in Seq({x, y})
  OBVIOUS
<1>4. QED
  BY <1>1, <1>2, <1>3

LEMMA GroupCarried ==
  ASSUME NEW T, Distinct(context["sing"], T)
  PROVE  /\ GroupOut(Proxy) \in Range(context["sing"]) => Carries(Proxy, <<"pool">>)
         /\ {GroupOut(WarpBypass), WarpOut} \subseteq Range(context["sing"])
              => Carries(Proxy, <<Warp, "pool">>)
<1>1. "pool" \notin Hop /\ "bridge" \notin Hop /\ Warp \notin Terminal /\ Warp \in Hop
  BY ChainAssumption DEF Hop
<1>2. "pool" # "bridge" /\ Warp # "bridge" /\ "pool" \notin FullXray /\ Warp \notin FullXray
  BY <1>1 DEF Hop, Terminal
<1>3. \A tag : /\ GroupOut(tag).tag = tag /\ GroupOut(tag).detour = NoTag
               /\ GroupOut(tag).end.hop = "pool"
  BY DEF GroupOut
<1>4. WarpOut.tag = Proxy /\ WarpOut.detour = WarpBypass /\ WarpOut.end.hop = Warp
  BY DEF WarpOut
<1>5. /\ \A tag : Served(GroupOut(tag).end)
      /\ Served(WarpOut.end)
  BY <1>2, <1>3, <1>4 DEF Served
<1>6. Proxy # NoTag /\ WarpBypass # NoTag
  BY TagFacts
<1>7. ASSUME NEW tag \in {Proxy, WarpBypass}, GroupOut(tag) \in Range(context["sing"]), NEW h
      PROVE  Further(At("sing", tag, h)) = At("sing", NoTag, Append(h, "pool"))
  <2> DEFINE o == GroupOut(tag)
  <2>1. /\ o.tag = tag /\ o.detour = NoTag /\ o.end.hop = "pool" /\ o.end.hop # "bridge"
        /\ Served(o.end) /\ o.tag # NoTag /\ o \in Range(context["sing"])
    BY <1>2, <1>3, <1>5, <1>6, <1>7
  <2> HIDE DEF o
  <2>2. Further(At("sing", o.tag, h)) = At("sing", o.detour, Append(h, o.end.hop))
    BY <2>1, FurtherHop
  <2>3. QED
    BY <2>1, <2>2
<1>8. ASSUME GroupOut(Proxy) \in Range(context["sing"]) PROVE Carries(Proxy, <<"pool">>)
  <2> DEFINE l == <<"pool">>
             e == <<>>
  <2>1. e \in Seq({"pool"}) /\ l \in Seq({"pool"}) /\ Len(l) = 1 /\ Append(e, "pool") = l
    OBVIOUS
  <2>2. Further(At("sing", Proxy, e)) = At("sing", NoTag, Append(e, "pool"))
    <3> HIDE DEF e
    <3> QED BY <1>7, <1>8
  <2>3. Reaches(At("sing", Proxy, e), 1, At("sing", NoTag, l))
    <3>1. Further(At("sing", Proxy, e)) = At("sing", NoTag, l)
      BY <2>1, <2>2
    <3> HIDE DEF e, l
    <3>2. QED
      BY <3>1, OneStep
  <2>4. 1 \in Nat /\ 1 <= Len(l) + 2
    BY <2>1
  <2> HIDE DEF l
  <2>5. Carries(Proxy, l)
    BY <2>1, <2>3, <2>4, Arrives DEF e
  <2>6. QED
    BY <2>5 DEF l
<1>9. ASSUME {GroupOut(WarpBypass), WarpOut} \subseteq Range(context["sing"])
      PROVE  Carries(Proxy, <<Warp, "pool">>)
  <2> DEFINE l == <<Warp, "pool">>
             e == <<>>
             h == <<Warp>>
             w == At("sing", Proxy, e)
             v == At("sing", WarpBypass, h)
             u == At("sing", NoTag, l)
  <2>1. /\ e \in Seq({Warp, "pool"}) /\ l \in Seq({Warp, "pool"}) /\ Len(l) = 2
        /\ Append(e, Warp) = h /\ Append(h, "pool") = l
    BY TwoLong
  <2>2. Further(w) = v
    <3>1. /\ WarpOut.end.hop # "bridge" /\ WarpOut.tag # NoTag /\ WarpOut \in Range(context["sing"])
      BY <1>2, <1>4, <1>6, <1>9
    <3> HIDE DEF e
    <3>2. Further(At("sing", WarpOut.tag, e)) = At("sing", WarpOut.detour, Append(e, WarpOut.end.hop))
      BY <1>5, <3>1, FurtherHop
    <3>3. QED
      BY <1>4, <2>1, <3>2
  <2>3. Further(v) = u
    <3> HIDE DEF h
    <3>1. Further(At("sing", WarpBypass, h)) = At("sing", NoTag, Append(h, "pool"))
      BY <1>7, <1>9
    <3>2. QED
      BY <2>1, <3>1
  <2> HIDE DEF w, v, u
  <2>4. Reaches(w, 1, v) /\ Reaches(v, 1, u)
    <3>1. Reaches(w, 1, Further(w)) /\ Reaches(v, 1, Further(v))
      BY OneStep
    <3>2. QED
      BY <2>2, <2>3, <3>1
  <2>5. Reaches(w, 2, u)
    <3>1. 1 + 1 = 2
      OBVIOUS
    <3>2. Reaches(w, 1 + 1, u)
      BY <2>4, ReachesThen
    <3>3. QED
      BY <3>1, <3>2
  <2>6. 2 \in Nat /\ 2 <= Len(l) + 2
    BY <2>1
  <2> HIDE DEF l
  <2>7. Carries(Proxy, l)
    BY <2>1, <2>5, <2>6, Arrives DEF w, u, e
  <2>8. QED
    BY <2>7 DEF l
<1>10. QED
  BY <1>8, <1>9

-----------------------------------------------------------------------------
(* The chains of a started configuration                                       *)

\* The k-th chain that is asked for, of q and of what was planned for it: the
\* profile or the members, then the routes, then the auxes.
MainOf(q, pl) ==
    [Asked(pl[1], <<"config">>, 0, TRUE) EXCEPT !.proxy = TRUE, !.warp = q.warp]
MemberOf(pl, i) ==
    [Asked(pl[i], <<"pool", i - 1>>, 0, TRUE) EXCEPT !.sole = Last(pl[i]) \in FullXray]
RouteOf(q, i) == Asked(q.routes[i], <<"route">>, HopsBefore(q.routes, i), Len(q.routes[i]) > 1)
AuxOf(q, i)   == Asked(q.auxes[i], <<"aux">>, HopsBefore(q.auxes, i), Len(q.auxes[i]) > 1)

Order(q, pl, k) ==
    IF k <= Len(pl) THEN (IF q.what = "profile" THEN MainOf(q, pl) ELSE MemberOf(pl, k))
    ELSE IF k <= Len(pl) + Len(q.routes) THEN RouteOf(q, k - Len(pl))
    ELSE AuxOf(q, k - Len(pl) - Len(q.routes))

Count(q, pl) == Len(pl) + Len(q.routes) + Len(q.auxes)

\* What a plan leaves to be built.
Fine(q, pl) ==
    /\ q.routes \in Seq(HopList) /\ q.auxes \in Seq(HopList) /\ q.warp \in BOOLEAN
    /\ q.what \in {"profile", "selector", "test"}
    /\ pl \in Seq(HopList) /\ Len(pl) > 0
    /\ HopsOf(q.routes) \cap Terminal = {}
    /\ HopsOf(q.auxes) \cap (Terminal \cup Xray) = {}
    /\ q.what = "profile" =>
         Len(pl) = 1 /\ (q.warp => Len(pl[1]) >= 2 /\ pl[1][1] = Warp)

LEMMA HopsOfFacts ==
  ASSUME NEW lists \in Seq(HopList), NEW i \in 1..Len(lists)
  PROVE  lists[i] \in HopList /\ lists[i] \in Seq(Hop) /\ Range(lists[i]) \subseteq HopsOf(lists)
<1>1. lists[i] \in HopList /\ i \in DOMAIN lists
  OBVIOUS
<1>2. QED
  BY <1>1 DEF HopList, HopsOf

LEMMA HopListLists ==
  ASSUME NEW lists \in Seq(HopList)
  PROVE  lists \in Seq(Seq(Hop))
<1>1. \A i \in 1..Len(lists) : lists[i] \in Seq(Hop)
  BY HopsOfFacts
<1>2. QED
  BY <1>1

\* A chain of no Xray hop, and of no full configuration but at its end, is built.
LEMMA PlainIsBuilt ==
  ASSUME NEW hops \in HopList, Range(hops) \cap (Terminal \cup Xray) = {}
  PROVE  ~Refused(hops) /\ ~ToXray(hops)
<1>1. hops \in Seq(Hop) /\ DOMAIN hops = 1..Len(hops) /\ Len(hops) \in Nat /\ Len(hops) > 0
  BY DEF HopList
<1>2. \A i \in 1..Len(hops) : hops[i] \in Range(hops)
  BY <1>1 DEF Range
<1>3. \A i \in 1..Len(hops) : hops[i] \notin Terminal /\ hops[i] \notin Xray
  BY <1>2
<1>4. Crossings(hops) = {}
  <2> SUFFICES ASSUME NEW i \in Crossings(hops) PROVE FALSE
    OBVIOUS
  <2>1. i \in 1..Len(hops) /\ ((hops[i] \in Xray) # (i > 1 /\ hops[i - 1] \in Xray))
    BY <1>1, CrossingFacts
  <2>2. hops[i] \notin Xray /\ ~(i > 1 /\ hops[i - 1] \in Xray)
    BY <1>1, <1>3, <2>1
  <2>3. QED
    BY <2>1, <2>2
<1>5. ~ToXray(hops)
  BY <1>4 DEF ToXray
<1>6. Cardinality(Crossings(hops)) = 0
  BY <1>4, FS_EmptySet
<1>7. Last(hops) \notin FullXray
  BY <1>1, <1>3 DEF Last, Terminal
<1>8. QED
  BY <1>1, <1>3, <1>5, <1>6, <1>7 DEF Refused

\* What kinds of chains there are, and where the tags of each come from.
IsMain(q, pl, k)   == q.what = "profile" /\ k = 1
IsMember(q, pl, k) == q.what # "profile" /\ k \in 1..Len(pl)
IsRoute(q, pl, k)  == k - Len(pl) \in 1..Len(q.routes)
IsAux(q, pl, k)    == k - Len(pl) - Len(q.routes) \in 1..Len(q.auxes)

LEMMA OrderKinds ==
  ASSUME NEW q, NEW pl, Fine(q, pl), NEW k \in 1..Count(q, pl)
  PROVE  /\ IsMain(q, pl, k) \/ IsMember(q, pl, k) \/ IsRoute(q, pl, k) \/ IsAux(q, pl, k)
         /\ k <= Len(pl) <=> IsMain(q, pl, k) \/ IsMember(q, pl, k)
         /\ IsMain(q, pl, k) => k \in 1..Len(pl) /\ Order(q, pl, k) = MainOf(q, pl)
         /\ IsMember(q, pl, k) => k \in 1..Len(pl) /\ Order(q, pl, k) = MemberOf(pl, k)
         /\ IsRoute(q, pl, k) => Order(q, pl, k) = RouteOf(q, k - Len(pl))
         /\ IsAux(q, pl, k) => Order(q, pl, k) = AuxOf(q, k - Len(pl) - Len(q.routes))
<1> DEFINE P == Len(pl)
           R == Len(q.routes)
           A == Len(q.auxes)
<1>1. /\ P \in Nat /\ R \in Nat /\ A \in Nat /\ P > 0 /\ k \in Nat /\ k > 0 /\ k <= P + R + A
      /\ q.what = "profile" => P = 1
  <2>1. pl \in Seq(HopList) /\ P > 0 /\ (q.what = "profile" => P = 1)
    BY DEF Fine
  <2>2. q.routes \in Seq(HopList) /\ q.auxes \in Seq(HopList)
    BY DEF Fine
  <2>3. P \in Nat /\ R \in Nat /\ A \in Nat
    BY <2>1, <2>2
  <2>4. Count(q, pl) = P + R + A
    BY DEF Count
  <2> HIDE DEF P, R, A
  <2>5. k \in 1..(P + R + A)
    BY <2>4
  <2>6. QED
    BY <2>1, <2>3, <2>5
<1>2. /\ Order(q, pl, k) = IF k <= P THEN (IF q.what = "profile" THEN MainOf(q, pl) ELSE MemberOf(pl, k))
                           ELSE IF k <= P + R THEN RouteOf(q, k - P)
                           ELSE AuxOf(q, k - P - R)
      /\ IsMain(q, pl, k) <=> q.what = "profile" /\ k = 1
      /\ IsMember(q, pl, k) <=> q.what # "profile" /\ k \in 1..P
      /\ IsRoute(q, pl, k) <=> k - P \in 1..R
      /\ IsAux(q, pl, k) <=> k - P - R \in 1..A
  BY DEF Order, IsMain, IsMember, IsRoute, IsAux
<1> HIDE DEF P, R, A
<1>3. CASE k <= P
  <2>1. ~IsRoute(q, pl, k) /\ ~IsAux(q, pl, k)
    BY <1>1, <1>2, <1>3
  <2>2. q.what = "profile" => k = 1
    BY <1>1, <1>3
  <2>3. k \in 1..P
    BY <1>1, <1>3
  <2>4. QED
    BY <1>2, <1>3, <2>1, <2>2, <2>3 DEF P
<1>4. CASE ~(k <= P) /\ k <= P + R
  <2>1. ~IsMain(q, pl, k) /\ ~IsMember(q, pl, k) /\ IsRoute(q, pl, k) /\ ~IsAux(q, pl, k)
    BY <1>1, <1>2, <1>4
  <2>2. QED
    BY <1>2, <1>4, <2>1 DEF P
<1>5. CASE ~(k <= P) /\ ~(k <= P + R)
  <2>1. ~IsMain(q, pl, k) /\ ~IsMember(q, pl, k) /\ ~IsRoute(q, pl, k) /\ IsAux(q, pl, k)
    BY <1>1, <1>2, <1>5
  <2>2. QED
    BY <1>2, <1>5, <2>1 DEF P, R
<1>6. QED
  BY <1>3, <1>4, <1>5

\* A chain that is neither the proxy itself nor behind WARP.
Plainly(r, hops, prefix, start, sole) ==
    /\ Sound(r) /\ r.hops = hops /\ r.prefix = prefix /\ r.start = start
    /\ r.proxy = FALSE /\ r.warp = FALSE /\ r.sole = sole

LEMMA AskedFacts ==
  ASSUME NEW hops \in HopList, NEW prefix \in Tags \ {<<>>}, NEW start \in Nat, NEW link \in BOOLEAN,
         link \/ Len(hops) = 1, NEW b \in BOOLEAN
  PROVE  /\ Plainly(Asked(hops, prefix, start, link), hops, prefix, start, FALSE)
         /\ Plainly([Asked(hops, prefix, start, link) EXCEPT !.sole = b], hops, prefix, start, b)
<1> DEFINE a == Asked(hops, prefix, start, link)
           s == [a EXCEPT !.sole = b]
<1>1. a \in AskType
  BY DEF AskType, Asked
<1>2. /\ a.hops = hops /\ a.prefix = prefix /\ a.start = start /\ a.link = link
      /\ a.proxy = FALSE /\ a.warp = FALSE /\ a.sole = FALSE
  BY DEF Asked
<1>3. Plainly(a, hops, prefix, start, FALSE)
  BY DEF Sound, AskType, Asked, Plainly
<1> HIDE DEF a
<1>4. s \in AskType
  BY <1>1 DEF AskType
<1>5. s.hops = hops /\ s.prefix = prefix /\ s.start = start /\ s.link = link
      /\ s.proxy = FALSE /\ s.warp = FALSE /\ s.sole = b
  BY <1>1, <1>2 DEF AskType
<1> HIDE DEF s
<1>6. Plainly(s, hops, prefix, start, b)
  BY <1>4, <1>5 DEF Sound, Plainly
<1>7. QED
  BY <1>3, <1>6 DEF s, a

\* The first words of tags, and how they differ.
LEMMA OneWord ==
  ASSUME NEW w \in Word
  PROVE  <<w>> \in Tags \ {<<>>} /\ Len(<<w>>) = 1
<1>1. <<w>> \in Seq(Word) /\ Len(<<w>>) = 1
  OBVIOUS
<1>2. QED
  BY <1>1 DEF Tags

LEMMA TwoWords ==
  ASSUME NEW w \in Word, NEW v \in Word
  PROVE  <<w, v>> \in Tags \ {<<>>} /\ Len(<<w, v>>) = 2 /\ <<w, v>>[2] = v
<1>1. <<w, v>> \in Seq(Word) /\ Len(<<w, v>>) = 2 /\ <<w, v>>[2] = v
  OBVIOUS
<1>2. QED
  BY <1>1 DEF Tags

LEMMA Words ==
  /\ "config" \in Word /\ "route" \in Word /\ "aux" \in Word /\ "pool" \in Word
  /\ "proxy" \in Word /\ "xrayfull" \in Word /\ \A n \in Nat : n \in Word
<1>1. QED
  BY DEF Word

LEMMA PrefixFacts ==
  ASSUME NEW m \in Nat, NEW n \in Nat
  PROVE  /\ <<"pool", n>> \in Tags \ {<<>>}
         /\ <<"pool", n>> # <<"config">> /\ <<"pool", n>> # <<"route">> /\ <<"pool", n>> # <<"aux">>
         /\ <<"proxy", n>> \in Tags \ {<<>>} /\ <<"xrayfull", n>> \in Tags \ {<<>>}
         /\ <<"pool", m>> = <<"pool", n>> => m = n
         /\ <<"config">> \in Tags \ {<<>>} /\ <<"route">> \in Tags \ {<<>>} /\ <<"aux">> \in Tags \ {<<>>}
         /\ <<"config">> # <<"route">> /\ <<"config">> # <<"aux">> /\ <<"route">> # <<"aux">>
<1>1. <<"pool", n>> \in Tags \ {<<>>} /\ <<"proxy", n>> \in Tags \ {<<>>}
      /\ <<"xrayfull", n>> \in Tags \ {<<>>}
  BY Words, TwoWords
<1>2. Len(<<"pool", n>>) = 2 /\ <<"pool", n>>[2] = n /\ <<"pool", m>>[2] = m
  BY Words, TwoWords
<1>3. /\ Len(<<"config">>) = 1 /\ Len(<<"route">>) = 1 /\ Len(<<"aux">>) = 1
      /\ <<"config">> \in Tags \ {<<>>} /\ <<"route">> \in Tags \ {<<>>} /\ <<"aux">> \in Tags \ {<<>>}
  BY Words, OneWord
<1>4. <<"pool", n>> # <<"config">> /\ <<"pool", n>> # <<"route">> /\ <<"pool", n>> # <<"aux">>
  BY <1>2, <1>3
<1>5. <<"pool", m>> = <<"pool", n>> => m = n
  BY <1>2
<1>6. <<"config">> # <<"route">> /\ <<"config">> # <<"aux">> /\ <<"route">> # <<"aux">>
  OBVIOUS
<1>7. QED
  BY <1>1, <1>3, <1>4, <1>5, <1>6

\* What is asked for in each case.
LEMMA MainFacts ==
  ASSUME NEW q, NEW pl, Fine(q, pl), q.what = "profile"
  PROVE  LET r == MainOf(q, pl)
         IN  /\ Sound(r) /\ r.hops = pl[1] /\ r.prefix = <<"config">> /\ r.start = 0
             /\ r.proxy = TRUE /\ r.warp = q.warp /\ r.sole = FALSE
<1> DEFINE a == Asked(pl[1], <<"config">>, 0, TRUE)
           r == MainOf(q, pl)
<1>1. /\ pl[1] \in HopList /\ q.warp \in BOOLEAN /\ (q.warp => Len(pl[1]) >= 2 /\ pl[1][1] = Warp)
  BY DEF Fine
<1>2. <<"config">> \in Tags \ {<<>>}
  BY PrefixFacts
<1>3. a \in AskType
  BY <1>1, <1>2 DEF AskType, Asked
<1>4. /\ a.hops = pl[1] /\ a.prefix = <<"config">> /\ a.start = 0 /\ a.link = TRUE /\ a.sole = FALSE
  BY DEF Asked
<1>5. r = [a EXCEPT !.proxy = TRUE, !.warp = q.warp]
  BY DEF MainOf
<1> HIDE DEF a, r
<1>6. r \in AskType
  BY <1>1, <1>3, <1>5 DEF AskType
<1>7. /\ r.hops = pl[1] /\ r.prefix = <<"config">> /\ r.start = 0 /\ r.link = TRUE
      /\ r.proxy = TRUE /\ r.warp = q.warp /\ r.sole = FALSE
  BY <1>3, <1>4, <1>5 DEF AskType
<1>8. Sound(r)
  BY <1>1, <1>6, <1>7 DEF Sound
<1>9. QED
  BY <1>7, <1>8 DEF r

LEMMA MemberFacts ==
  ASSUME NEW q, NEW pl, Fine(q, pl), NEW i \in 1..Len(pl)
  PROVE  Plainly(MemberOf(pl, i), pl[i], <<"pool", i - 1>>, 0, Last(pl[i]) \in FullXray)
<1> DEFINE p == <<"pool", i - 1>>
           h == pl[i]
           b == Last(h) \in FullXray
<1>1. h \in HopList /\ i - 1 \in Nat /\ b \in BOOLEAN
  BY DEF Fine
<1>2. p \in Tags \ {<<>>}
  BY <1>1, PrefixFacts
<1>3. MemberOf(pl, i) = [Asked(h, p, 0, TRUE) EXCEPT !.sole = b]
  BY DEF MemberOf
<1> HIDE DEF p, h, b
<1>4. Plainly([Asked(h, p, 0, TRUE) EXCEPT !.sole = b], h, p, 0, b)
  BY <1>1, <1>2, AskedFacts
<1>5. QED
  BY <1>3, <1>4 DEF p, h, b

LEMMA NoneOrMore ==
  ASSUME NEW n \in Nat, n > 0
  PROVE  n > 1 \/ n = 1
OBVIOUS

\* An outbound or an endpoint of the routing profile; the hops before it are numbered.
LEMMA ListFacts ==
  ASSUME NEW lists \in Seq(HopList), NEW i \in 1..Len(lists), NEW p \in Tags \ {<<>>}
  PROVE  Plainly(Asked(lists[i], p, HopsBefore(lists, i), Len(lists[i]) > 1),
                 lists[i], p, HopsBefore(lists, i), FALSE)
<1> DEFINE h == lists[i]
           n == HopsBefore(lists, i)
           k == Len(h) > 1
<1>1. h \in HopList
  OBVIOUS
<1>2. n \in Nat
  <2>1. lists \in Seq(Seq(Hop)) /\ i - 1 \in 0..Len(lists)
    BY HopListLists
  <2>2. QED
    BY <2>1, TotalFacts DEF HopsBefore
<1> HIDE DEF h, n
<1>3. Len(h) \in Nat /\ Len(h) > 0
  BY <1>1 DEF HopList
<1>4. k \in BOOLEAN /\ (k \/ Len(h) = 1)
  <2>1. Len(h) > 1 \/ Len(h) = 1
    BY <1>3, NoneOrMore
  <2>2. k \in BOOLEAN
    OBVIOUS
  <2>3. QED
    BY <2>1, <2>2
<1> HIDE DEF k
<1>5. Plainly(Asked(h, p, n, k), h, p, n, FALSE)
  BY <1>1, <1>2, <1>4, AskedFacts
<1>6. QED
  BY <1>5 DEF h, n, k

LEMMA RouteFacts ==
  ASSUME NEW q, NEW pl, Fine(q, pl), NEW i \in 1..Len(q.routes)
  PROVE  /\ Plainly(RouteOf(q, i), q.routes[i], <<"route">>, HopsBefore(q.routes, i), FALSE)
         /\ q.routes[i] \in HopList /\ Range(q.routes[i]) \cap Terminal = {}
         /\ Range(q.routes[i]) \subseteq HopsOf(q.routes)
<1> DEFINE lists == q.routes
           p == <<"route">>
<1>1. lists \in Seq(HopList) /\ HopsOf(lists) \cap Terminal = {}
  BY DEF Fine
<1>2. p \in Tags \ {<<>>}
  BY PrefixFacts
<1> HIDE DEF lists, p
<1>3. i \in 1..Len(lists)
  BY DEF lists
<1>4. Range(lists[i]) \subseteq HopsOf(lists) /\ lists[i] \in HopList
  BY <1>1, <1>3, HopsOfFacts
<1>5. Range(lists[i]) \cap Terminal = {}
  BY <1>1, <1>4
<1>6. Plainly(Asked(lists[i], p, HopsBefore(lists, i), Len(lists[i]) > 1),
              lists[i], p, HopsBefore(lists, i), FALSE)
  BY <1>1, <1>2, <1>3, ListFacts
<1>7. QED
  BY <1>4, <1>5, <1>6 DEF RouteOf, lists, p

LEMMA AuxFacts ==
  ASSUME NEW q, NEW pl, Fine(q, pl), NEW i \in 1..Len(q.auxes)
  PROVE  /\ Plainly(AuxOf(q, i), q.auxes[i], <<"aux">>, HopsBefore(q.auxes, i), FALSE)
         /\ q.auxes[i] \in HopList /\ Range(q.auxes[i]) \cap Terminal = {}
         /\ ~Refused(q.auxes[i]) /\ ~ToXray(q.auxes[i])
<1> DEFINE lists == q.auxes
           p == <<"aux">>
<1>1. lists \in Seq(HopList) /\ HopsOf(lists) \cap (Terminal \cup Xray) = {}
  BY DEF Fine
<1>2. p \in Tags \ {<<>>}
  BY PrefixFacts
<1> HIDE DEF lists, p
<1>3. i \in 1..Len(lists)
  BY DEF lists
<1>4. Range(lists[i]) \subseteq HopsOf(lists) /\ lists[i] \in HopList
  BY <1>1, <1>3, HopsOfFacts
<1>5. Range(lists[i]) \cap (Terminal \cup Xray) = {}
  BY <1>1, <1>4
<1>6. ~Refused(lists[i]) /\ ~ToXray(lists[i])
  BY <1>4, <1>5, PlainIsBuilt
<1>7. Plainly(Asked(lists[i], p, HopsBefore(lists, i), Len(lists[i]) > 1),
              lists[i], p, HopsBefore(lists, i), FALSE)
  BY <1>1, <1>2, <1>3, ListFacts
<1>8. QED
  BY <1>4, <1>5, <1>6, <1>7 DEF AuxOf, lists, p

\* A tag of a chain is one of those that rules name, or a number behind its prefix.
LEMMA ClaimTags ==
  ASSUME NEW r, Sound(r), NEW t \in Claim(r)
  PROVE  \/ r.proxy /\ t \in {Proxy, WarpBypass}
         \/ \E x \in 0..Len(r.hops)-1 : t = Tag(r.prefix, r.start + x)
<1> DEFINE u == Unwarped(r)
           n == Len(r.hops)
<1>1. r \in AskType /\ n \in Nat /\ r.start \in Nat /\ (r.warp => r.proxy)
  BY DEF Sound, AskType, HopList
<1>2. u.prefix = r.prefix /\ u.start = r.start /\ u.proxy = r.proxy /\ u.warp = FALSE
  BY <1>1 DEF Unwarped, AskType
<1>3. PICK i \in 1..n : t = TagAt(r, i) \/ t = TagAt(u, i)
  BY DEF Claim
<1>4. /\ t \in {Proxy, WarpBypass} /\ r.proxy
      \/ t = Tag(r.prefix, r.start + i - 1)
  BY <1>1, <1>2, <1>3 DEF TagAt
<1> HIDE DEF n
<1>5. i - 1 \in 0..n-1 /\ r.start + i - 1 = r.start + (i - 1)
  BY <1>1, <1>3
<1>6. QED
  BY <1>4, <1>5 DEF n

\* Two chains have no tag in common, if the later is not the proxy and their prefixes
\* differ, or their numbers.
LEMMA ClaimsDisjoint ==
  ASSUME NEW a, Sound(a), NEW b, Sound(b), ~b.proxy,
         a.prefix # b.prefix \/ a.start + Len(a.hops) <= b.start
  PROVE  Claim(a) \cap Claim(b) = {}
<1> SUFFICES ASSUME NEW t \in Claim(a), t \in Claim(b) PROVE FALSE
  OBVIOUS
<1>1. /\ a.prefix \in Tags \ {<<>>} /\ a.start \in Nat /\ Len(a.hops) \in Nat
      /\ b.prefix \in Tags \ {<<>>} /\ b.start \in Nat /\ Len(b.hops) \in Nat
  BY DEF Sound, AskType, HopList
<1>2. PICK y \in 0..Len(b.hops)-1 : t = Tag(b.prefix, b.start + y)
  BY ClaimTags
<1>3. b.start + y \in Nat
  BY <1>1
<1>4. t # Proxy /\ t # WarpBypass
  BY <1>1, <1>2, <1>3, TagFacts
<1>5. PICK x \in 0..Len(a.hops)-1 : t = Tag(a.prefix, a.start + x)
  BY <1>4, ClaimTags
<1>6. a.start + x \in Nat
  BY <1>1
<1>7. a.prefix = b.prefix /\ a.start + x = b.start + y
  <2> DEFINE u == a.prefix
             v == b.prefix
             m == a.start + x
             n == b.start + y
  <2>1. u \in Tags \ {<<>>} /\ v \in Tags \ {<<>>} /\ m \in Nat /\ n \in Nat
    BY <1>1, <1>3, <1>6
  <2>2. Tag(u, m) = Tag(v, n)
    BY <1>2, <1>5
  <2> HIDE DEF u, v, m, n
  <2>3. u = v /\ m = n
    BY <2>1, <2>2, TagFacts
  <2>4. QED
    BY <2>3 DEF u, v, m, n
<1>8. a.start + Len(a.hops) <= b.start
  BY <1>7
<1> DEFINE m == Len(a.hops)
           n == Len(b.hops)
           i == a.start
           j == b.start
<1>9. i \in Nat /\ j \in Nat /\ m \in Nat /\ n \in Nat /\ x \in 0..m-1 /\ y \in 0..n-1
      /\ i + x = j + y /\ i + m <= j
  BY <1>1, <1>7, <1>8
<1> HIDE DEF m, n, i, j
<1>10. QED
  BY <1>9

\* The tags of the group of a selector are nobody else's.
LEMMA ClaimUnnamed ==
  ASSUME NEW r, Sound(r), ~r.proxy
  PROVE  Claim(r) \cap {Proxy, WarpBypass} = {}
<1> SUFFICES ASSUME NEW t \in Claim(r), t \in {Proxy, WarpBypass} PROVE FALSE
  OBVIOUS
<1>1. r.prefix \in Tags \ {<<>>} /\ r.start \in Nat
  BY DEF Sound, AskType
<1>2. PICK x \in 0..Len(r.hops)-1 : t = Tag(r.prefix, r.start + x)
  BY ClaimTags
<1>3. r.start + x \in Nat
  <2> DEFINE i == r.start
             n == Len(r.hops)
  <2>1. i \in Nat /\ x \in 0..n-1
    BY <1>1, <1>2
  <2> HIDE DEF i, n
  <2>2. i + x \in Nat
    BY <2>1
  <2>3. QED
    BY <2>2 DEF i
<1>4. QED
  BY <1>1, <1>2, <1>3, TagFacts

\* The numbers of a list of a routing profile do not overlap.
LEMMA NumbersApart ==
  ASSUME NEW lists \in Seq(HopList), NEW i \in 1..Len(lists), NEW j \in 1..Len(lists), i < j
  PROVE  HopsBefore(lists, i) + Len(lists[i]) <= HopsBefore(lists, j)
<1>1. lists \in Seq(Seq(Hop))
  BY HopListLists
<1>2. Total(lists, i) = Total(lists, i - 1) + Len(lists[i])
  BY <1>1, TotalFacts
<1>3. i \in 0..Len(lists) /\ j - 1 \in 0..Len(lists) /\ i <= j - 1
  OBVIOUS
<1>4. Total(lists, i) <= Total(lists, j - 1)
  BY <1>1, <1>3, TotalFacts
<1>5. QED
  BY <1>2, <1>4 DEF HopsBefore

LEMMA OneKind ==
  ASSUME NEW q, NEW pl, Fine(q, pl), NEW k \in 1..Count(q, pl)
  PROVE  /\ IsMain(q, pl, k) \/ IsMember(q, pl, k) => ~IsRoute(q, pl, k) /\ ~IsAux(q, pl, k)
         /\ IsMain(q, pl, k) => ~IsMember(q, pl, k)
         /\ IsRoute(q, pl, k) => ~IsAux(q, pl, k)
         /\ IsRoute(q, pl, k) \/ IsAux(q, pl, k) => ~(k <= Len(pl))
<1> DEFINE P == Len(pl)
           R == Len(q.routes)
           A == Len(q.auxes)
<1>1. P \in Nat /\ R \in Nat /\ A \in Nat
  BY DEF Fine
<1>2. k \in Int
  <2>1. Count(q, pl) = P + R + A
    BY DEF Count
  <2>2. QED
    BY <1>1, <2>1
<1>3. (IsMain(q, pl, k) \/ IsMember(q, pl, k)) => k <= P
  BY OrderKinds
<1>4. IsRoute(q, pl, k) <=> k - P \in 1..R
  BY DEF IsRoute
<1>5. IsAux(q, pl, k) <=> k - P - R \in 1..A
  BY DEF IsAux
<1>6. IsMain(q, pl, k) => ~IsMember(q, pl, k)
  BY DEF IsMain, IsMember
<1> HIDE DEF P, R, A
<1>7. k - P \in 1..R => ~(k <= P) /\ ~(k - P - R \in 1..A)
  BY <1>1, <1>2
<1>8. k - P - R \in 1..A => ~(k <= P)
  BY <1>1, <1>2
<1>9. QED
  BY <1>3, <1>4, <1>5, <1>6, <1>7, <1>8 DEF P

\* What is asked for is sound; only the main chain is the proxy; of the rest none has
\* a full configuration; an endpoint is always built.
Ordered(q, pl, k) ==
    LET r == Order(q, pl, k)
    IN  /\ Sound(r) /\ r.hops \in HopList
        /\ r.proxy => IsMain(q, pl, k)
        /\ k <= Len(pl) => r.hops = pl[k]
        /\ ~(k <= Len(pl)) => Range(r.hops) \cap Terminal = {}
        /\ IsRoute(q, pl, k) =>
             r.hops = q.routes[k - Len(pl)] /\ Range(r.hops) \subseteq HopsOf(q.routes)
        /\ IsAux(q, pl, k) =>
             r.hops = q.auxes[k - Len(pl) - Len(q.routes)] /\ ~Refused(r.hops) /\ ~ToXray(r.hops)

LEMMA OrderFacts ==
  ASSUME NEW q, NEW pl, Fine(q, pl), NEW k \in 1..Count(q, pl)
  PROVE  Ordered(q, pl, k)
<1> DEFINE r == Order(q, pl, k)
<1>1. pl \in Seq(HopList)
  BY DEF Fine
<1>2. CASE IsMain(q, pl, k)
  <2>1. k \in 1..Len(pl) /\ r = MainOf(q, pl) /\ k = 1 /\ ~IsRoute(q, pl, k) /\ ~IsAux(q, pl, k)
    <3>1. k \in 1..Len(pl) /\ r = MainOf(q, pl) /\ k = 1
      BY <1>2, OrderKinds DEF IsMain
    <3>2. ~IsRoute(q, pl, k) /\ ~IsAux(q, pl, k)
      BY <1>2, OneKind
    <3>3. QED
      BY <3>1, <3>2
  <2>2. Sound(MainOf(q, pl)) /\ MainOf(q, pl).hops = pl[1]
    BY <1>2, MainFacts DEF IsMain
  <2>3. k <= Len(pl) /\ pl[k] \in HopList
    BY <1>1, <2>1
  <2>4. QED
    BY <1>2, <2>1, <2>2, <2>3 DEF Ordered
<1>3. CASE IsMember(q, pl, k)
  <2>1. k \in 1..Len(pl) /\ r = MemberOf(pl, k) /\ ~IsRoute(q, pl, k) /\ ~IsAux(q, pl, k)
    <3>1. k \in 1..Len(pl) /\ r = MemberOf(pl, k)
      BY <1>3, OrderKinds
    <3>2. ~IsRoute(q, pl, k) /\ ~IsAux(q, pl, k)
      BY <1>3, OneKind
    <3>3. QED
      BY <3>1, <3>2
  <2>2. Sound(r) /\ r.hops = pl[k] /\ ~r.proxy
    <3>1. Plainly(r, pl[k], <<"pool", k - 1>>, 0, Last(pl[k]) \in FullXray)
      BY <2>1, MemberFacts
    <3> HIDE DEF r
    <3>2. QED
      BY <3>1 DEF Plainly
  <2>3. k <= Len(pl) /\ pl[k] \in HopList
    BY <1>1, <2>1
  <2>4. QED
    BY <2>1, <2>2, <2>3 DEF Ordered
<1>4. CASE IsRoute(q, pl, k)
  <2> DEFINE i == k - Len(pl)
  <2>1. r = RouteOf(q, i) /\ i \in 1..Len(q.routes) /\ ~IsAux(q, pl, k) /\ ~(k <= Len(pl))
    <3>1. r = RouteOf(q, i) /\ i \in 1..Len(q.routes)
      BY <1>4, OrderKinds DEF IsRoute
    <3>2. ~IsAux(q, pl, k) /\ ~(k <= Len(pl))
      BY <1>4, OneKind
    <3>3. QED
      BY <3>1, <3>2
  <2> HIDE DEF i
  <2>2. /\ Sound(r) /\ r.hops = q.routes[i] /\ ~r.proxy
        /\ q.routes[i] \in HopList /\ Range(q.routes[i]) \cap Terminal = {}
        /\ Range(q.routes[i]) \subseteq HopsOf(q.routes)
    BY <2>1, RouteFacts DEF Plainly
  <2>3. QED
    BY <2>1, <2>2 DEF i, Ordered
<1>5. CASE IsAux(q, pl, k)
  <2> DEFINE i == k - Len(pl) - Len(q.routes)
  <2>1. r = AuxOf(q, i) /\ i \in 1..Len(q.auxes) /\ ~IsRoute(q, pl, k) /\ ~(k <= Len(pl))
    <3>1. r = AuxOf(q, i) /\ i \in 1..Len(q.auxes)
      BY <1>5, OrderKinds DEF IsAux
    <3>2. ~IsRoute(q, pl, k) /\ ~(k <= Len(pl))
      BY <1>5, OneKind
    <3>3. QED
      BY <3>1, <3>2
  <2> HIDE DEF i
  <2>2. /\ Sound(r) /\ r.hops = q.auxes[i] /\ ~r.proxy
        /\ q.auxes[i] \in HopList /\ Range(q.auxes[i]) \cap Terminal = {}
        /\ ~Refused(q.auxes[i]) /\ ~ToXray(q.auxes[i])
    BY <2>1, AuxFacts DEF Plainly
  <2>3. QED
    BY <2>1, <2>2 DEF i, Ordered
<1>6. QED
  BY <1>2, <1>3, <1>4, <1>5, OrderKinds

LEMMA OrderHops ==
  ASSUME NEW q, NEW pl, Fine(q, pl), NEW k \in 1..Count(q, pl)
  PROVE  /\ Sound(Order(q, pl, k)) /\ Order(q, pl, k).hops \in HopList
         /\ Order(q, pl, k).proxy => IsMain(q, pl, k)
         /\ k <= Len(pl) => Order(q, pl, k).hops = pl[k]
         /\ IsRoute(q, pl, k) => Order(q, pl, k).hops = q.routes[k - Len(pl)]
         /\ IsAux(q, pl, k) => Order(q, pl, k).hops = q.auxes[k - Len(pl) - Len(q.routes)]
<1>1. Ordered(q, pl, k)
  BY OrderFacts
<1>2. QED
  BY <1>1 DEF Ordered

\* The numbers of their tags.
LEMMA KindTags ==
  ASSUME NEW q, NEW pl, Fine(q, pl), NEW k \in 1..Count(q, pl)
  PROVE  LET r == Order(q, pl, k)
         IN  /\ IsMain(q, pl, k) => r.prefix = <<"config">>
             /\ IsMember(q, pl, k) => r.prefix = <<"pool", k - 1>>
             /\ IsRoute(q, pl, k) => r.prefix = <<"route">> /\ r.start = HopsBefore(q.routes, k - Len(pl))
             /\ IsAux(q, pl, k) =>
                  r.prefix = <<"aux">> /\ r.start = HopsBefore(q.auxes, k - Len(pl) - Len(q.routes))
<1> DEFINE r == Order(q, pl, k)
<1>1. ASSUME IsMain(q, pl, k) PROVE r.prefix = <<"config">>
  <2>1. r = MainOf(q, pl) /\ q.what = "profile"
    BY <1>1, OrderKinds DEF IsMain
  <2>2. MainOf(q, pl).prefix = <<"config">>
    BY <2>1, MainFacts
  <2>3. QED
    BY <2>1, <2>2
<1>2. ASSUME IsMember(q, pl, k) PROVE r.prefix = <<"pool", k - 1>>
  <2>1. r = MemberOf(pl, k) /\ k \in 1..Len(pl)
    BY <1>2, OrderKinds
  <2>2. Plainly(MemberOf(pl, k), pl[k], <<"pool", k - 1>>, 0, Last(pl[k]) \in FullXray)
    BY <2>1, MemberFacts
  <2> HIDE DEF r
  <2>3. QED
    BY <2>1, <2>2 DEF Plainly
<1>3. ASSUME IsRoute(q, pl, k)
      PROVE  r.prefix = <<"route">> /\ r.start = HopsBefore(q.routes, k - Len(pl))
  <2> DEFINE i == k - Len(pl)
  <2>1. r = RouteOf(q, i) /\ i \in 1..Len(q.routes)
    BY <1>3, OrderKinds DEF IsRoute
  <2> HIDE DEF i, r
  <2>2. Plainly(RouteOf(q, i), q.routes[i], <<"route">>, HopsBefore(q.routes, i), FALSE)
    BY <2>1, RouteFacts
  <2>3. QED
    BY <2>1, <2>2 DEF Plainly, i
<1>4. ASSUME IsAux(q, pl, k)
      PROVE  r.prefix = <<"aux">> /\ r.start = HopsBefore(q.auxes, k - Len(pl) - Len(q.routes))
  <2> DEFINE i == k - Len(pl) - Len(q.routes)
  <2>1. r = AuxOf(q, i) /\ i \in 1..Len(q.auxes)
    BY <1>4, OrderKinds DEF IsAux
  <2> HIDE DEF i, r
  <2>2. Plainly(AuxOf(q, i), q.auxes[i], <<"aux">>, HopsBefore(q.auxes, i), FALSE)
    BY <2>1, AuxFacts
  <2>3. QED
    BY <2>1, <2>2 DEF Plainly, i
<1> HIDE DEF r
<1>5. QED
  BY <1>1, <1>2, <1>3, <1>4 DEF r

\* No two of them have a tag in common.
LEMMA ClaimsApart ==
  ASSUME NEW q, NEW pl, Fine(q, pl), NEW j \in 1..Count(q, pl), NEW k \in 1..Count(q, pl), j < k
  PROVE  Claim(Order(q, pl, j)) \cap Claim(Order(q, pl, k)) = {}
<1> DEFINE a == Order(q, pl, j)
           b == Order(q, pl, k)
           P == Len(pl)
           R == Len(q.routes)
<1>1. Sound(a) /\ Sound(b) /\ (b.proxy => IsMain(q, pl, k))
  BY OrderHops
<1>2. ~IsMain(q, pl, k) /\ P \in Nat /\ R \in Nat /\ Len(q.auxes) \in Nat
  <2>1. j \in Nat /\ j > 0
    BY DEF Count, Fine
  <2>2. k # 1
    BY <2>1
  <2>3. QED
    BY <2>2 DEF IsMain, Fine
<1> HIDE DEF a, b
<1>3. /\ IsMain(q, pl, j) => a.prefix = <<"config">>
      /\ IsMember(q, pl, j) => a.prefix = <<"pool", j - 1>>
      /\ IsRoute(q, pl, j) =>
           /\ a.prefix = <<"route">> /\ a.start = HopsBefore(q.routes, j - P)
           /\ a.hops = q.routes[j - P]
      /\ IsAux(q, pl, j) =>
           /\ a.prefix = <<"aux">> /\ a.start = HopsBefore(q.auxes, j - P - R)
           /\ a.hops = q.auxes[j - P - R]
  <2>1. /\ IsMain(q, pl, j) => a.prefix = <<"config">>
        /\ IsMember(q, pl, j) => a.prefix = <<"pool", j - 1>>
        /\ IsRoute(q, pl, j) => a.prefix = <<"route">> /\ a.start = HopsBefore(q.routes, j - P)
        /\ IsAux(q, pl, j) => a.prefix = <<"aux">> /\ a.start = HopsBefore(q.auxes, j - P - R)
    BY KindTags DEF a
  <2>2. Ordered(q, pl, j)
    BY OrderFacts
  <2>3. /\ IsRoute(q, pl, j) => a.hops = q.routes[j - P]
        /\ IsAux(q, pl, j) => a.hops = q.auxes[j - P - R]
    BY <2>2 DEF Ordered, a
  <2> HIDE DEF P, R
  <2>4. QED
    BY <2>1, <2>3
<1>4. /\ IsMember(q, pl, k) => b.prefix = <<"pool", k - 1>>
      /\ IsRoute(q, pl, k) => b.prefix = <<"route">> /\ b.start = HopsBefore(q.routes, k - P)
      /\ IsAux(q, pl, k) => b.prefix = <<"aux">> /\ b.start = HopsBefore(q.auxes, k - P - R)
  BY KindTags DEF b
<1>5. /\ IsMember(q, pl, j) => j - 1 \in Nat
      /\ IsMember(q, pl, k) => k - 1 \in Nat
  <2>1. (IsMember(q, pl, j) => j \in 1..P) /\ (IsMember(q, pl, k) => k \in 1..P)
    BY OrderKinds
  <2> HIDE DEF P
  <2>2. QED
    BY <1>2, <2>1
<1>10. j \in Int /\ k \in Int
  <2> DEFINE C == Count(q, pl)
  <2>1. C \in Int
    BY <1>2 DEF Count
  <2> HIDE DEF C
  <2>2. j \in 1..C /\ k \in 1..C
    BY DEF C
  <2>3. QED
    BY <2>1, <2>2
<1>11. /\ IsRoute(q, pl, j) => j - P \in 1..R
       /\ IsRoute(q, pl, k) => k - P \in 1..R
       /\ IsAux(q, pl, j) => j - P - R \in 1..Len(q.auxes)
       /\ IsAux(q, pl, k) => k - P - R \in 1..Len(q.auxes)
  BY DEF IsRoute, IsAux
<1> HIDE DEF P, R
<1>6. a.prefix # b.prefix \/ a.start + Len(a.hops) <= b.start
  <2>1. CASE IsRoute(q, pl, j) /\ IsRoute(q, pl, k)
    <3> DEFINE x == j - P
               y == k - P
    <3>1. x \in 1..R /\ y \in 1..R /\ x < y
      BY <1>2, <1>10, <1>11, <2>1
    <3>2. q.routes \in Seq(HopList)
      BY DEF Fine
    <3> HIDE DEF x, y
    <3>3. HopsBefore(q.routes, x) + Len(q.routes[x]) <= HopsBefore(q.routes, y)
      BY <3>1, <3>2, NumbersApart DEF R
    <3>4. QED
      BY <1>3, <1>4, <2>1, <3>3 DEF x, y
  <2>2. CASE IsAux(q, pl, j) /\ IsAux(q, pl, k)
    <3> DEFINE x == j - P - R
               y == k - P - R
               A == Len(q.auxes)
    <3>1. x \in 1..A /\ y \in 1..A /\ x < y
      BY <1>2, <1>10, <1>11, <2>2
    <3>2. q.auxes \in Seq(HopList)
      BY DEF Fine
    <3> HIDE DEF x, y
    <3>3. HopsBefore(q.auxes, x) + Len(q.auxes[x]) <= HopsBefore(q.auxes, y)
      BY <3>1, <3>2, NumbersApart
    <3>4. QED
      BY <1>3, <1>4, <2>2, <3>3 DEF x, y
  <2>3. CASE IsMember(q, pl, j) /\ IsMember(q, pl, k)
    <3>1. <<"pool", j - 1>> # <<"pool", k - 1>>
      BY <1>5, <1>10, <2>3, PrefixFacts
    <3>2. QED
      BY <1>3, <1>4, <2>3, <3>1
  <2>4. CASE IsMain(q, pl, j) /\ ~IsMember(q, pl, k)
    <3>1. IsRoute(q, pl, k) \/ IsAux(q, pl, k)
      BY <1>2, <2>4, OrderKinds
    <3>2. <<"config">> # <<"route">> /\ <<"config">> # <<"aux">>
      BY PrefixFacts
    <3>3. QED
      BY <1>3, <1>4, <2>4, <3>1, <3>2
  <2>5. CASE IsMain(q, pl, j) /\ IsMember(q, pl, k)
    BY <2>5 DEF IsMain, IsMember
  <2>6. CASE IsMember(q, pl, j) /\ ~IsMember(q, pl, k)
    <3>1. IsRoute(q, pl, k) \/ IsAux(q, pl, k)
      BY <1>2, <2>6, OrderKinds
    <3>2. <<"pool", j - 1>> # <<"route">> /\ <<"pool", j - 1>> # <<"aux">>
      BY <1>5, <2>6, PrefixFacts
    <3>3. QED
      BY <1>3, <1>4, <2>6, <3>1, <3>2
  <2>7. CASE IsRoute(q, pl, j) /\ ~IsRoute(q, pl, k)
    <3>1. IsMember(q, pl, k) \/ IsAux(q, pl, k)
      BY <1>2, <2>7, OrderKinds
    <3>2. IsAux(q, pl, k) => <<"route">> # <<"aux">>
      BY PrefixFacts
    <3>3. IsMember(q, pl, k) => <<"pool", k - 1>> # <<"route">>
      BY <1>5, PrefixFacts
    <3>4. QED
      BY <1>3, <1>4, <2>7, <3>1, <3>2, <3>3
  <2>8. CASE IsAux(q, pl, j) /\ ~IsAux(q, pl, k)
    <3>1. IsMember(q, pl, k) \/ IsRoute(q, pl, k)
      BY <1>2, <2>8, OrderKinds
    <3>2. IsRoute(q, pl, k) => <<"route">> # <<"aux">>
      BY PrefixFacts
    <3>3. IsMember(q, pl, k) => <<"pool", k - 1>> # <<"aux">>
      BY <1>5, PrefixFacts
    <3>4. QED
      BY <1>3, <1>4, <2>8, <3>1, <3>2, <3>3
  <2>9. QED
    BY <2>1, <2>2, <2>3, <2>4, <2>5, <2>6, <2>7, <2>8, OrderKinds
<1>7. ~b.proxy
  BY <1>1, <1>2 DEF b
<1>8. Claim(a) \cap Claim(b) = {}
  BY <1>1, <1>6, <1>7, ClaimsDisjoint DEF a, b
<1>9. QED
  BY <1>8 DEF a, b

\* The tags of the first n, and those of a group.
AllClaims(q, pl, n) == UNION {Claim(Order(q, pl, k)) : k \in 1..n}
GroupTags(g) == IF g THEN {Proxy, WarpBypass} ELSE {}
GroupIn(q, c) ==
    IF q.warp THEN {GroupOut(WarpBypass), WarpOut} \subseteq Range(c.sing)
    ELSE GroupOut(Proxy) \in Range(c.sing)

\* An outbound that is watched is that of a chain, or stands for the group behind WARP.
WatchedOf(q, pl, n, g, w) ==
    \/ \E k \in 1..n : w = Watched(Order(q, pl, k))
    \/ g /\ q.warp /\ w.tag = Proxy

\* The first n chains are laid out, and the group if there is one (g).
Laying(q, pl, c, n, g) ==
    /\ c.ports = 2 * n
    /\ Sane(c, AllClaims(q, pl, n) \cup GroupTags(g))
    /\ \A k \in 1..n : ~Refused(Order(q, pl, k).hops) /\ Laid(c, Order(q, pl, k), 2 * (k - 1))
    /\ c.xray # <<>> => \E k \in 1..n : ToXray(Order(q, pl, k).hops)
    /\ \A i \in DOMAIN c.watch : WatchedOf(q, pl, n, g, c.watch[i])
    /\ g => GroupIn(q, c)

LEMMA CountFacts ==
  ASSUME NEW q, NEW pl, Fine(q, pl)
  PROVE  Count(q, pl) \in Nat /\ Len(pl) \in Nat /\ Len(pl) > 0 /\ Len(q.routes) \in Nat
         /\ Len(q.auxes) \in Nat /\ Count(q, pl) = Len(pl) + Len(q.routes) + Len(q.auxes)
<1>1. Len(pl) \in Nat /\ Len(pl) > 0 /\ Len(q.routes) \in Nat /\ Len(q.auxes) \in Nat
  BY DEF Fine
<1> DEFINE P == Len(pl)
           R == Len(q.routes)
           A == Len(q.auxes)
<1>2. Count(q, pl) = P + R + A
  BY DEF Count
<1>3. P \in Nat /\ R \in Nat /\ A \in Nat
  BY <1>1
<1> HIDE DEF P, R, A
<1>4. Count(q, pl) \in Nat
  BY <1>2, <1>3
<1>5. QED
  BY <1>1, <1>2, <1>4 DEF P, R, A

\* The next chain has tags of its own.
LEMMA FreshTags ==
  ASSUME NEW q, NEW pl, Fine(q, pl), NEW n \in Nat, n + 1 \in 1..Count(q, pl), NEW g \in BOOLEAN,
         g => q.what # "profile"
  PROVE  /\ (AllClaims(q, pl, n) \cup GroupTags(g)) \cap Claim(Order(q, pl, n + 1)) = {}
         /\ AllClaims(q, pl, n + 1) = AllClaims(q, pl, n) \cup Claim(Order(q, pl, n + 1))
<1>1. Count(q, pl) \in Nat
  BY CountFacts
<1>2. 1..n+1 = 1..n \cup {n + 1} /\ \A k \in 1..n : k \in 1..Count(q, pl) /\ k < n + 1
  BY <1>1
<1>3. AllClaims(q, pl, n + 1) = AllClaims(q, pl, n) \cup Claim(Order(q, pl, n + 1))
  BY <1>2 DEF AllClaims
<1>4. \A k \in 1..n : Claim(Order(q, pl, k)) \cap Claim(Order(q, pl, n + 1)) = {}
  BY <1>2, ClaimsApart
<1>5. AllClaims(q, pl, n) \cap Claim(Order(q, pl, n + 1)) = {}
  BY <1>4 DEF AllClaims
<1>6. GroupTags(g) \cap Claim(Order(q, pl, n + 1)) = {}
  <2>1. CASE ~g
    BY <2>1 DEF GroupTags
  <2>2. CASE g
    <3>1. Sound(Order(q, pl, n + 1)) /\ ~Order(q, pl, n + 1).proxy
      BY <2>2, OrderHops DEF IsMain
    <3>2. Claim(Order(q, pl, n + 1)) \cap {Proxy, WarpBypass} = {}
      BY <3>1, ClaimUnnamed
    <3>3. QED
      BY <3>2 DEF GroupTags
  <2>3. QED
    BY <2>1, <2>2
<1>7. QED
  BY <1>3, <1>5, <1>6

\* One chain more is laid out beside those that are.
LEMMA LayNext ==
  ASSUME NEW q, NEW pl, Fine(q, pl), NEW W, NEW c \in Context(W), NEW n \in Nat,
         n + 1 \in 1..Count(q, pl), NEW g \in BOOLEAN, g => q.what # "profile",
         Laying(q, pl, c, n, g), ~Refused(Order(q, pl, n + 1).hops),
         Order(q, pl, n + 1).hops \in W
  PROVE  Laying(q, pl, Chain(c, Order(q, pl, n + 1)), n + 1, g)
<1> DEFINE r == Order(q, pl, n + 1)
           d == Chain(c, r)
           T == AllClaims(q, pl, n) \cup GroupTags(g)
<1>1. Sound(r) /\ r.hops \in HopList
  BY OrderHops
<1>2. T \cap Claim(r) = {} /\ AllClaims(q, pl, n + 1) \cup GroupTags(g) = T \cup Claim(r)
  BY FreshTags
<1>3. Sane(c, T) /\ c.ports = 2 * n
  BY DEF Laying
<1> HIDE DEF r
<1>4. ~Refused(r.hops) /\ r.hops \in W
  BY DEF r
<1> HIDE DEF T
<1>5. d \in Context(W) /\ Added(c, r, d)
  BY <1>1, <1>4, ChainFields
<1>6. Sane(d, T \cup Claim(r)) /\ Laid(d, r, c.ports) /\ Grows(c, d)
  BY <1>1, <1>2, <1>3, <1>4, ChainLays
<1> HIDE DEF d
<1>7. d.ports = 2 * (n + 1) /\ 2 * n = 2 * ((n + 1) - 1)
  <2>1. d.ports = c.ports + 2
    BY <1>5 DEF Added
  <2>2. QED
    BY <1>3, <2>1
<1>8. 1..n+1 = 1..n \cup {n + 1}
  OBVIOUS
<1>9. ASSUME NEW k \in 1..n+1
      PROVE  ~Refused(Order(q, pl, k).hops) /\ Laid(d, Order(q, pl, k), 2 * (k - 1))
  <2>1. CASE k \in 1..n
    <3>1. ~Refused(Order(q, pl, k).hops) /\ Laid(c, Order(q, pl, k), 2 * (k - 1))
      BY <2>1 DEF Laying
    <3>2. QED
      BY <1>3, <1>5, <1>6, <3>1, LaidGrows
  <2>2. CASE k = n + 1
    BY <1>3, <1>4, <1>6, <1>7, <2>2 DEF r
  <2>3. QED
    BY <1>8, <2>1, <2>2
<1>10. ASSUME d.xray # <<>> PROVE \E k \in 1..n+1 : ToXray(Order(q, pl, k).hops)
  <2> DEFINE s == c.xray
             t == XrayOuts(r, c.ports)
  <2>1. d.xray = s \o t /\ s \in Seq(OutType) /\ c.ports \in Nat
    BY <1>5 DEF Added, Context
  <2>2. t \in Seq(OutType) /\ (Len(t) > 0 => ToXray(r.hops))
    BY <1>1, <1>4, <2>1, XrayFacts
  <2> HIDE DEF s, t
  <2>3. s # <<>> \/ Len(t) > 0
    BY <1>10, <2>1, <2>2
  <2>4. CASE s # <<>>
    <3>1. \E k \in 1..n : ToXray(Order(q, pl, k).hops)
      BY <2>4 DEF Laying, s
    <3>2. QED
      BY <1>8, <3>1
  <2>5. CASE Len(t) > 0
    BY <1>8, <2>2, <2>5 DEF r
  <2>6. QED
    BY <2>3, <2>4, <2>5
<1>11. ASSUME NEW i \in DOMAIN d.watch PROVE WatchedOf(q, pl, n + 1, g, d.watch[i])
  <2> DEFINE X == [tag : Tags, hops : W]
             s == c.watch
             w == Watched(r)
  <2>1. d.watch = Append(s, w) /\ s \in Seq(X) /\ d.watch \in Seq(X)
    BY <1>5 DEF Added, Context
  <2>2. \A j \in DOMAIN s : WatchedOf(q, pl, n, g, s[j])
    BY DEF Laying
  <2> HIDE DEF s, w
  <2>3. (i \in DOMAIN s /\ d.watch[i] = s[i]) \/ d.watch[i] = w
    BY <2>1
  <2>4. CASE i \in DOMAIN s /\ d.watch[i] = s[i]
    <3>1. WatchedOf(q, pl, n, g, d.watch[i])
      BY <2>2, <2>4
    <3>2. QED
      BY <1>8, <3>1 DEF WatchedOf
  <2>5. CASE d.watch[i] = w
    BY <1>8, <2>5 DEF WatchedOf, w, r
  <2>6. QED
    BY <2>3, <2>4, <2>5
<1>12. g => GroupIn(q, d)
  <2>1. Range(c.sing) \subseteq Range(d.sing)
    BY <1>6 DEF Grows
  <2>2. QED
    BY <2>1 DEF Laying, GroupIn
<1>13. Sane(d, AllClaims(q, pl, n + 1) \cup GroupTags(g))
  BY <1>2, <1>6
<1>14. Laying(q, pl, d, n + 1, g)
  BY <1>7, <1>9, <1>10, <1>11, <1>12, <1>13 DEF Laying
<1>15. QED
  BY <1>14 DEF d, r

\* Nothing of it is in the slot, the full configurations, the pool or the inbounds.

LEMMA LayingStays ==
  ASSUME NEW q, NEW pl, NEW c, NEW d, NEW n, NEW g, Laying(q, pl, c, n, g),
         d.sing = c.sing, d.xray = c.xray, d.singToXray = c.singToXray,
         d.xrayIngress = c.xrayIngress, d.xrayToSing = c.xrayToSing,
         d.singIngress = c.singIngress, d.ports = c.ports, d.watch = c.watch
  PROVE  Laying(q, pl, d, n, g)
<1>1. \A T : Sane(c, T) => Sane(d, T)
  BY DEF Sane
<1>2. \A r, p : Laid(c, r, p) => Laid(d, r, p)
  BY DEF Laid
<1>3. GroupIn(q, c) => GroupIn(q, d)
  BY DEF GroupIn
<1>4. QED
  BY <1>1, <1>2, <1>3 DEF Laying

\* The group is laid out behind its members.
LEMMA GroupLays ==
  ASSUME NEW q, NEW pl, Fine(q, pl), NEW W, NEW c \in Context(W), NEW n \in 0..Count(q, pl),
         q.what # "profile", Laying(q, pl, c, n, FALSE),
         NEW d, NEW all, all.tag = Proxy,
         d.sing = (c.sing \o <<GroupOut(IF q.warp THEN WarpBypass ELSE Proxy)>>)
                    \o (IF q.warp THEN <<WarpOut>> ELSE <<>>),
         d.watch = IF q.warp THEN <<all>> ELSE c.watch,
         d.xray = c.xray, d.singToXray = c.singToXray,
         d.xrayIngress = c.xrayIngress, d.xrayToSing = c.xrayToSing,
         d.singIngress = c.singIngress, d.ports = c.ports
  PROVE  Laying(q, pl, d, n, TRUE) /\ d.sing \in Seq(OutType)
<1> DEFINE o == GroupOut(IF q.warp THEN WarpBypass ELSE Proxy)
           a == <<o>>
           b == IF q.warp THEN <<WarpOut>> ELSE <<>>
           e == a \o b
           G == {Proxy, WarpBypass}
           T == AllClaims(q, pl, n)
           s == c.sing
<1>1. Proxy \in Tags /\ WarpBypass \in Tags /\ Proxy # WarpBypass /\ NoTag \in Tags
  BY TagFacts
<1>2. {GroupOut(WarpBypass), GroupOut(Proxy), WarpOut} \subseteq OutType
  BY <1>1 DEF GroupOut, WarpOut, OutType, EndType, Hop
<1>3. GroupOut(WarpBypass).tag = WarpBypass /\ GroupOut(Proxy).tag = Proxy /\ WarpOut.tag = Proxy
  BY DEF GroupOut, WarpOut
<1>4. q.warp \in BOOLEAN /\ Count(q, pl) \in Nat
  BY CountFacts DEF Fine
<1>5. s \in Seq(OutType) /\ Sane(c, T \cup {})
  BY DEF Context, Laying, GroupTags
<1>6. T \cap G = {}
  <2> SUFFICES ASSUME NEW k \in 1..n PROVE Claim(Order(q, pl, k)) \cap G = {}
    BY DEF AllClaims
  <2>1. k \in 1..Count(q, pl)
    BY <1>4
  <2>2. Sound(Order(q, pl, k)) /\ ~Order(q, pl, k).proxy
    BY <2>1, OrderHops DEF IsMain
  <2>3. QED
    BY <2>2, ClaimUnnamed
<1> HIDE DEF T, s, G
<1>7. o \in OutType /\ o.tag \in G /\ a \in Seq(OutType) /\ Len(a) = 1 /\ a[1] = o
  BY <1>2, <1>3, <1>4 DEF G
<1>8. ASSUME q.warp PROVE Distinct(e, G) /\ {GroupOut(WarpBypass), WarpOut} \subseteq Range(e)
  <2>1. o = GroupOut(WarpBypass) /\ b = <<WarpOut>>
    BY <1>8
  <2> DEFINE w == WarpOut
  <2>2. w \in OutType /\ w.tag = Proxy /\ o.tag = WarpBypass
    BY <1>2, <1>3, <2>1
  <2> HIDE DEF w, o
  <2>3. b = <<w>> /\ b \in Seq(OutType) /\ Len(b) = 1 /\ b[1] = w
    BY <2>1, <2>2 DEF w
  <2> HIDE DEF a, b
  <2>4. Distinct(a, {WarpBypass})
    BY <1>7, <2>2 DEF Distinct
  <2>5. Distinct(b, {Proxy})
    BY <2>2, <2>3 DEF Distinct
  <2>6. Distinct(a \o b, {WarpBypass} \cup {Proxy})
    <3>1. {WarpBypass} \cap {Proxy} = {}
      BY <1>1
    <3>2. QED
      BY <2>4, <2>5, <3>1, DistinctConcat
  <2>7. {WarpBypass} \cup {Proxy} = G
    BY DEF G
  <2>8. Range(a) = {o} /\ Range(b) = {w}
    BY <1>7, <2>3 DEF Range
  <2>9. Range(a \o b) = {o, w}
    <3>1. Range(a \o b) = Range(a) \cup Range(b)
      BY <1>7, <2>3, LongerConcat
    <3>2. QED
      BY <2>8, <3>1
  <2>10. Distinct(e, G) /\ {GroupOut(WarpBypass), WarpOut} \subseteq Range(e)
    BY <2>1, <2>6, <2>7, <2>9 DEF w
  <2>11. QED
    BY <2>10
<1>9. ASSUME ~q.warp PROVE Distinct(e, G) /\ GroupOut(Proxy) \in Range(e)
  <2>1. o = GroupOut(Proxy) /\ b = <<>>
    BY <1>9
  <2>2. o.tag = Proxy
    BY <1>3, <2>1
  <2>3. e = a
    <3> HIDE DEF a
    <3>1. a \o <<>> = a
      BY <1>7, ConcatEmptySeq
    <3>2. QED
      BY <2>1, <3>1
  <2> HIDE DEF o, a
  <2>4. Distinct(a, G)
    BY <1>7 DEF Distinct
  <2>5. Range(a) = {o}
    BY <1>7 DEF Range
  <2> HIDE DEF e, b
  <2>6. Distinct(e, G) /\ GroupOut(Proxy) \in Range(e)
    BY <2>1, <2>3, <2>4, <2>5
  <2>7. QED
    BY <2>6 DEF e, b
<1>10. e \in Seq(OutType) /\ b \in Seq(OutType) /\ Distinct(e, G)
  <2>1. Distinct(e, G)
    <3> HIDE DEF e
    <3>1. QED
      BY <1>4, <1>8, <1>9
  <2>2. b \in Seq(OutType)
    BY <1>2, <1>4
  <2>3. QED
    BY <2>1, <2>2 DEF Distinct
<1>11. d.sing = s \o e
  <2>1. d.sing = (s \o a) \o b
    BY DEF s
  <2>2. s \in Seq(OutType) /\ a \in Seq(OutType) /\ b \in Seq(OutType)
    BY <1>5, <1>7, <1>10
  <2> HIDE DEF a, b
  <2>3. (s \o a) \o b = s \o (a \o b)
    BY <2>2, ConcatAssociative
  <2>4. QED
    BY <2>1, <2>3
<1> HIDE DEF e, o, a, b
<1>12. Distinct(s, T \cup {})
  BY <1>5 DEF Sane, s
<1>13. Distinct(d.sing, T \cup G)
  <2>1. Distinct(s, T)
    BY <1>12
  <2>2. Distinct(s \o e, T \cup G)
    BY <1>6, <1>10, <2>1, DistinctConcat
  <2>3. QED
    BY <1>11, <2>2
<1>14. Range(d.sing) = Range(s) \cup Range(e)
  BY <1>5, <1>10, <1>11, LongerConcat
<1>15. Sane(d, T \cup G)
  <2>1. Distinct(c.xray, T)
    <3>1. Distinct(c.xray, T \cup {}) /\ T \cup {} = T
      BY <1>5 DEF Sane
    <3>2. QED
      BY <3>1
  <2>2. Distinct(d.xray, T \cup G)
    BY <2>1 DEF Distinct
  <2>3. QED
    BY <1>5, <1>13, <2>2 DEF Sane
<1>16. GroupIn(q, d)
  <2>1. Range(e) \subseteq Range(d.sing)
    BY <1>14
  <2>2. CASE q.warp
    BY <1>8, <2>1, <2>2 DEF GroupIn
  <2>3. CASE ~q.warp
    BY <1>9, <2>1, <2>3 DEF GroupIn
  <2>4. QED
    BY <2>2, <2>3
<1>17. \A k \in 1..n : ~Refused(Order(q, pl, k).hops) /\ Laid(d, Order(q, pl, k), 2 * (k - 1))
  <2>1. \A r, p : Laid(c, r, p) => Laid(d, r, p)
    BY <1>14 DEF Laid, s
  <2>2. QED
    BY <2>1 DEF Laying
<1>18. \A i \in DOMAIN d.watch : WatchedOf(q, pl, n, TRUE, d.watch[i])
  <2>1. CASE q.warp
    <3>1. \A i \in DOMAIN d.watch : d.watch[i] = all
      BY <2>1
    <3>2. QED
      BY <2>1, <3>1 DEF WatchedOf
  <2>2. CASE ~q.warp
    <3>1. d.watch = c.watch
      BY <2>2
    <3>2. QED
      BY <3>1 DEF Laying, WatchedOf
  <2>3. QED
    BY <1>4, <2>1, <2>2
<1>19. /\ d.ports = 2 * n
       /\ d.xray # <<>> => \E k \in 1..n : ToXray(Order(q, pl, k).hops)
  BY DEF Laying
<1>20. Sane(d, AllClaims(q, pl, n) \cup GroupTags(TRUE))
  BY <1>15 DEF T, G, GroupTags
<1>21. Laying(q, pl, d, n, TRUE)
  BY <1>16, <1>17, <1>18, <1>19, <1>20 DEF Laying
<1>22. QED
  BY <1>13, <1>21 DEF Distinct

-----------------------------------------------------------------------------
(* A configuration that is finished                                            *)

\* A chain is carried from the tag that it is known by.
LEMMA EntryCarried ==
  ASSUME NEW T, NEW r, NEW p, Stands(T, r, p)
  PROVE  /\ Carries(EntryTag(r), r.hops)
         /\ EntryTag(r) = TagAt(r, 1)
         /\ Carries(TagAt(r, 1), SubSeq(r.hops, 1, Len(r.hops)))
<1>1. Sound(r) /\ ~Refused(r.hops) /\ r.hops \in HopList /\ r.hops \in Seq(Hop)
  BY DEF Stands, Sound, AskType, HopList
<1>2. 1 <= Leads(r.hops) + One(ToXray(r.hops))
  <2> DEFINE l == Leads(r.hops)
             x == Xrays(r.hops)
             t == Tails(r.hops)
             n == Len(r.hops)
  <2>1. /\ l \in Nat /\ x \in Nat /\ t \in Nat /\ l + x + t = n /\ n > 0
        /\ ToXray(r.hops) <=> x > 0
        /\ t > 0 => x > 0
    BY <1>1, SplitFacts
  <2>2. One(ToXray(r.hops)) = IF ToXray(r.hops) THEN 1 ELSE 0
    BY DEF One
  <2> HIDE DEF l, x, t, n
  <2>3. QED
    BY <2>1, <2>2 DEF l
<1>3. Carries(TagAt(r, 1), SubSeq(r.hops, 1, Len(r.hops)))
  BY <1>2, ChainCarried
<1>4. SubSeq(r.hops, 1, Len(r.hops)) = r.hops
  BY <1>1
<1>5. EntryTag(r) = TagAt(r, 1)
  BY <1>1, WatchedFacts
<1>6. QED
  BY <1>3, <1>4, <1>5

\* What leaves WARP goes through the hops behind it.
LEMMA WarpCarried ==
  ASSUME NEW T, NEW r, NEW p, Stands(T, r, p), r.warp
  PROVE  Carries(WarpBypass, Tail(r.hops))
<1>1. /\ Sound(r) /\ ~Refused(r.hops) /\ r.hops \in HopList /\ r.hops \in Seq(Hop)
      /\ Len(r.hops) >= 2 /\ r.hops[1] = Warp
  BY DEF Stands, Sound, AskType, HopList
<1>2. 2 <= Leads(r.hops) + One(ToXray(r.hops))
  <2> DEFINE l == Leads(r.hops)
             x == Xrays(r.hops)
             t == Tails(r.hops)
             n == Len(r.hops)
  <2>1. /\ l \in Nat /\ x \in Nat /\ t \in Nat /\ l + x + t = n /\ n > 0
        /\ ToXray(r.hops) <=> x > 0
        /\ t > 0 => x > 0
        /\ \A i \in 1..x : XrayHops(r.hops)[i] = r.hops[l + i] /\ XrayHops(r.hops)[i] \in Xray
    BY <1>1, SplitFacts
  <2>2. One(ToXray(r.hops)) = IF ToXray(r.hops) THEN 1 ELSE 0
    BY DEF One
  <2>3. Warp \notin Xray
    BY ChainAssumption
  <2>4. n >= 2
    BY <1>1
  <2> HIDE DEF l, x, t, n
  <2>5. CASE x = 0
    BY <2>1, <2>2, <2>4, <2>5 DEF l
  <2>6. CASE x > 0
    <3>1. r.hops[l + 1] \in Xray
      BY <2>1, <2>6
    <3>2. l # 0
      BY <1>1, <2>3, <3>1
    <3>3. l >= 1
      BY <2>1, <3>2
    <3>4. QED
      BY <2>1, <2>2, <2>6, <3>3 DEF l
  <2>7. QED
    BY <2>1, <2>5, <2>6
<1>3. Carries(TagAt(r, 2), SubSeq(r.hops, 2, Len(r.hops)))
  BY <1>2, ChainCarried
<1>4. Tail(r.hops) = SubSeq(r.hops, 2, Len(r.hops))
  BY <1>1
<1>5. TagAt(r, 2) = WarpBypass
  BY DEF TagAt
<1>6. QED
  BY <1>3, <1>4, <1>5

\* What enters at the outbound that is watched goes through the last hops.
LEMMA WatchedCarried ==
  ASSUME NEW T, NEW r, NEW p, Stands(T, r, p)
  PROVE  /\ Watched(r).hops = r.hops
         /\ \E n \in DOMAIN r.hops : Carries(Watched(r).tag, SubSeq(r.hops, n, Len(r.hops)))
<1>1. Sound(r) /\ ~Refused(r.hops) /\ r.hops \in HopList /\ r.hops \in Seq(Hop) /\ r.hops # <<>>
  BY DEF Stands, Sound, AskType, HopList
<1>2. /\ Watched(r).hops = r.hops
      /\ Watched(r).tag = IF Tails(r.hops) = 0 THEN TagAt(r, 1) ELSE TagAt(r, Leads(r.hops) + 2)
  BY <1>1, WatchedFacts
<1>3. DOMAIN r.hops = 1..Len(r.hops) /\ 1 \in DOMAIN r.hops
  BY <1>1
<1>4. CASE Tails(r.hops) = 0
  <2>1. Carries(TagAt(r, 1), SubSeq(r.hops, 1, Len(r.hops)))
    BY EntryCarried
  <2>2. QED
    BY <1>2, <1>3, <1>4, <2>1
<1>5. CASE Tails(r.hops) # 0
  <2>1. PICK n \in 1..Len(r.hops) :
          Carries(TagAt(r, Leads(r.hops) + 2), SubSeq(r.hops, n, Len(r.hops)))
    BY <1>5, TailCarried
  <2>2. QED
    BY <1>2, <1>3, <1>5, <2>1
<1>6. QED
  BY <1>4, <1>5

\* Which chains are built at each step; g: the group is.
Progress(f, b, q, pl, n, g) ==
    \/ f = "main" /\ q.what = "profile" /\ b = 0 /\ n = 0 /\ g = FALSE
    \/ f = "members" /\ q.what = "selector" /\ b \in 0..Len(pl)-1 /\ n = b /\ g = FALSE
    \/ f = "group" /\ q.what = "selector" /\ b = 0 /\ n = Len(pl) /\ g = FALSE
    \/ f = "routes" /\ b \in 0..Len(q.routes)-1 /\ n = Len(pl) + b /\ g = (q.what = "selector")
    \/ /\ f = "auxes" /\ b \in 0..Len(q.auxes)-1
       /\ n = Len(pl) + Len(q.routes) + b /\ g = (q.what = "selector")
    \/ f \in {"bridges", "xray", "done"} /\ b = 0 /\ n = Count(q, pl) /\ g = (q.what = "selector")

\* Their full configurations are served.
KeptAll(q, pl, c, n) == \A k \in 1..n : KeptUp(c, Order(q, pl, k), 2 * (k - 1))

\* The members of a selector are known by their entries.
Pooled(q, pl, c, n) ==
    /\ n <= Len(pl) => Len(c.pool) = n
    /\ Len(pl) <= n => Len(c.pool) = Len(pl)
    /\ \A i \in 1..Len(c.pool) : c.pool[i] = EntryTag(Order(q, pl, i))

\* The inbounds of the bridges, once they are built.
Doors(c, f) ==
    /\ f \in {"xray", "done"} =>
         c.singIn = {[port |-> c.xrayToSing[i], out |-> c.singIngress[i]] : i \in DOMAIN c.xrayToSing}
    /\ f = "done" /\ c.xray # <<>> =>
         c.xrayIn = {[port |-> c.singToXray[i], out |-> c.xrayIngress[i]] : i \in DOMAIN c.singToXray}

Begun(q, pl, c, f, b, n, g) ==
    /\ Progress(f, b, q, pl, n, g)
    /\ Laying(q, pl, c, n, g)
    /\ q.what = "selector" => Pooled(q, pl, c, n)
    /\ Doors(c, f)

\* The tags that rules are given.
MapOf(q) ==
    [i \in DOMAIN q.routes |-> Tag(<<"route">>, HopsBefore(q.routes, i))]
      \o [i \in DOMAIN q.auxes |-> Tag(<<"aux">>, HopsBefore(q.auxes, i))]

\* The rules know the chains behind the main ones by their entries.
LEMMA MapFacts ==
  ASSUME NEW q, NEW pl, Fine(q, pl), NEW i \in DOMAIN MapOf(q)
  PROVE  /\ i + Len(pl) \in 1..Count(q, pl)
         /\ MapOf(q)[i] = EntryTag(Order(q, pl, i + Len(pl)))
         /\ (q.routes \o q.auxes)[i] = Order(q, pl, i + Len(pl)).hops
<1> DEFINE P == Len(pl)
           R == Len(q.routes)
           A == Len(q.auxes)
           s == [j \in DOMAIN q.routes |-> Tag(<<"route">>, HopsBefore(q.routes, j))]
           t == [j \in DOMAIN q.auxes |-> Tag(<<"aux">>, HopsBefore(q.auxes, j))]
           k == i + P
<1>1. P \in Nat /\ P > 0 /\ R \in Nat /\ A \in Nat /\ Count(q, pl) = P + R + A
  BY CountFacts
<1>2. q.routes \in Seq(HopList) /\ q.auxes \in Seq(HopList)
  BY DEF Fine
<1>3. DOMAIN s = 1..R /\ DOMAIN t = 1..A
  BY <1>2
<1>4. /\ s \in Seq(Range(s)) /\ t \in Seq(Range(t)) /\ Len(s) = R /\ Len(t) = A
  <2>1. (\A j \in 1..R : s[j] \in Range(s)) /\ \A j \in 1..A : t[j] \in Range(t)
    BY <1>3 DEF Range
  <2>2. s \in [1..R -> Range(s)] /\ t \in [1..A -> Range(t)]
    BY <1>3, <2>1
  <2> HIDE DEF s, t, R, A
  <2>3. QED
    BY <1>1, <1>3, <2>2
<1>5. MapOf(q) = s \o t
  BY DEF MapOf
<1>6. /\ DOMAIN (s \o t) = 1..R+A
      /\ \A j \in 1..R : (s \o t)[j] = s[j]
      /\ \A j \in R+1..R+A : (s \o t)[j] = t[j - R]
  <2> HIDE DEF s, t, R, A
  <2>1. DOMAIN (s \o t) = 1..R+A
    BY <1>1, <1>4
  <2>2. ASSUME NEW j \in 1..R PROVE (s \o t)[j] = s[j]
    BY <1>1, <1>4
  <2>3. ASSUME NEW j \in R+1..R+A PROVE (s \o t)[j] = t[j - R]
    <3>1. j \in 1..R+A /\ j > R
      BY <1>1
    <3>2. QED
      BY <1>1, <1>4, <3>1
  <2>4. QED
    BY <2>1, <2>2, <2>3
<1>7. i \in 1..R+A
  BY <1>5, <1>6
<1>8. k \in 1..Count(q, pl) /\ k - P = i /\ k - P - R = i - R /\ (i > R => i \in R+1..R+A)
      /\ (~(i > R) => i \in 1..R) /\ (i \in R+1..R+A => i - R \in 1..A)
  <2> HIDE DEF P, R, A
  <2>1. QED
    BY <1>1, <1>7 DEF P
<1>9. (q.routes \o q.auxes)[i] = IF i \in 1..R THEN q.routes[i] ELSE q.auxes[i - R]
  BY <1>2, <1>7, <1>8
<1>10. CASE i \in 1..R
  <2>1. IsRoute(q, pl, k)
    BY <1>8, <1>10 DEF IsRoute
  <2> HIDE DEF k
  <2>3. Order(q, pl, k) = RouteOf(q, i)
    <3>1. k \in 1..Count(q, pl) /\ k - Len(pl) = i
      BY <1>8
    <3> HIDE DEF P, R, A, s, t
    <3>2. Order(q, pl, k) = RouteOf(q, k - Len(pl))
      BY <2>1, <3>1, OrderKinds
    <3>3. QED
      BY <3>1, <3>2
  <2>4. Plainly(RouteOf(q, i), q.routes[i], <<"route">>, HopsBefore(q.routes, i), FALSE)
    BY <1>10, RouteFacts
  <2>2. RouteOf(q, i).hops = q.routes[i]
    BY <2>4 DEF Plainly
  <2>5. EntryTag(RouteOf(q, i)) = Tag(<<"route">>, HopsBefore(q.routes, i))
    BY <2>4 DEF Plainly, EntryTag
  <2>6. MapOf(q)[i] = Tag(<<"route">>, HopsBefore(q.routes, i))
    BY <1>3, <1>5, <1>6, <1>10
  <2>7. QED
    BY <1>8, <1>9, <1>10, <2>2, <2>3, <2>5, <2>6 DEF k
<1>11. CASE i > R
  <2> DEFINE j == i - R
  <2>0. j \in 1..A /\ i \in R+1..R+A /\ ~(i \in 1..R)
    <3> HIDE DEF R, A
    <3>1. QED
      BY <1>1, <1>8, <1>11
  <2>1. IsAux(q, pl, k)
    BY <1>8, <1>11 DEF IsAux
  <2> HIDE DEF k
  <2>3. Order(q, pl, k) = AuxOf(q, j)
    <3>1. k \in 1..Count(q, pl) /\ k - Len(pl) - Len(q.routes) = j
      BY <1>8
    <3> HIDE DEF P, R, A, s, t, j
    <3>2. Order(q, pl, k) = AuxOf(q, k - Len(pl) - Len(q.routes))
      BY <2>1, <3>1, OrderKinds
    <3>3. QED
      BY <3>1, <3>2
  <2>6. MapOf(q)[i] = Tag(<<"aux">>, HopsBefore(q.auxes, j))
    BY <1>3, <1>5, <1>6, <2>0
  <2> HIDE DEF j
  <2>4. Plainly(AuxOf(q, j), q.auxes[j], <<"aux">>, HopsBefore(q.auxes, j), FALSE)
    BY <2>0, AuxFacts
  <2>2. AuxOf(q, j).hops = q.auxes[j]
    BY <2>4 DEF Plainly
  <2>5. EntryTag(AuxOf(q, j)) = Tag(<<"aux">>, HopsBefore(q.auxes, j))
    BY <2>4 DEF Plainly, EntryTag
  <2>7. QED
    BY <1>8, <1>9, <2>0, <2>2, <2>3, <2>5, <2>6 DEF j, k
<1>12. QED
  BY <1>8, <1>10, <1>11

\* Once everything is built, everything is carried.
LEMMA Finished ==
  ASSUME Fine(req, planned), req.what \in {"profile", "selector"}, outboundMap = MapOf(req),
         NEW n, NEW g, Begun(req, planned, context, "done", built, n, g),
         KeptAll(req, planned, context, n)
  PROVE  EntriesCarried /\ RulesCarried /\ WatchedIsPassed
<1> DEFINE O(k) == Order(req, planned, k)
           N == Count(req, planned)
           T == AllClaims(req, planned, n) \cup GroupTags(g)
<1>1. n = N /\ g = (req.what = "selector") /\ N \in Nat
  BY CountFacts DEF Begun, Progress
<1>2. Ready(T)
  BY DEF Begun, Laying, Doors, Ready
<1>3. ASSUME NEW k \in 1..N PROVE Stands(T, O(k), 2 * (k - 1))
  <2>1. Sound(O(k))
    BY OrderHops
  <2>2. 2 * (k - 1) \in Nat
    BY <1>1
  <2>3. ~Refused(O(k).hops) /\ Laid(context, O(k), 2 * (k - 1)) /\ KeptUp(context, O(k), 2 * (k - 1))
    BY <1>1 DEF Begun, Laying, KeptAll
  <2>4. QED
    BY <1>2, <2>1, <2>2, <2>3 DEF Stands
<1>4. ASSUME NEW k \in 1..N PROVE Carries(EntryTag(O(k)), O(k).hops)
  BY <1>3, EntryCarried
<1>5. /\ Len(planned) \in Nat /\ Len(planned) > 0 /\ planned \in Seq(HopList)
      /\ \A k \in 1..Len(planned) : k \in 1..N /\ k <= Len(planned)
  <2> DEFINE P == Len(planned)
             R == Len(req.routes)
             A == Len(req.auxes)
  <2>1. P \in Nat /\ P > 0 /\ R \in Nat /\ A \in Nat /\ N = P + R + A
    BY CountFacts
  <2>2. planned \in Seq(HopList)
    BY DEF Fine
  <2> HIDE DEF P, R, A, N
  <2>3. \A k \in 1..P : k \in 1..N /\ k <= P
    BY <2>1
  <2>4. QED
    BY <2>1, <2>2, <2>3 DEF P
<1>6. g => /\ req.warp => Carries(Proxy, <<Warp, "pool">>)
           /\ ~req.warp => Carries(Proxy, <<"pool">>)
  <2>1. Distinct(context["sing"], T)
    BY <1>2 DEF Ready, Sane
  <2>2. g => GroupIn(req, context)
    BY DEF Begun, Laying
  <2>3. QED
    BY <2>1, <2>2, GroupCarried DEF GroupIn
<1>7. EntriesCarried
  <2>1. CASE req.what = "profile"
    <3>1. 1 \in 1..Len(planned) /\ 1 \in 1..N /\ IsMain(req, planned, 1)
      BY <1>5, <2>1 DEF IsMain
    <3>2. O(1) = MainOf(req, planned) /\ O(1).hops = planned[1]
      <4>1. O(1) = MainOf(req, planned)
        BY <3>1, OrderKinds
      <4>2. O(1).hops = planned[1]
        <5>1. Ordered(req, planned, 1)
          BY <3>1, OrderFacts
        <5>2. QED
          BY <1>5, <3>1, <5>1 DEF Ordered
      <4>3. QED
        BY <4>1, <4>2
    <3>3. O(1).proxy = TRUE /\ O(1).warp = req.warp
      <4>1. MainOf(req, planned).proxy = TRUE /\ MainOf(req, planned).warp = req.warp
        BY <2>1, MainFacts
      <4> HIDE DEF O
      <4>2. QED
        BY <3>2, <4>1
    <3>4. EntryTag(O(1)) = Proxy
      BY <3>3 DEF EntryTag
    <3>5. Carries(Proxy, planned[1])
      BY <1>4, <3>1, <3>2, <3>4
    <3>6. req.warp => Carries(WarpBypass, Tail(planned[1]))
      BY <1>3, <3>1, <3>2, <3>3, WarpCarried
    <3>7. QED
      BY <2>1, <3>5, <3>6 DEF EntriesCarried
  <2>2. CASE req.what = "selector"
    <3>1. Carries(Proxy, (IF req.warp THEN <<Warp>> ELSE <<>>) \o <<"pool">>)
      <4>1. <<Warp>> \o <<"pool">> = <<Warp, "pool">> /\ <<>> \o <<"pool">> = <<"pool">>
        <5> DEFINE p == "pool"
                   w == Warp
        <5>1. <<>> \o <<p>> = <<p>>
          OBVIOUS
        <5>2. <<w>> \o <<p>> = <<w, p>>
          <6>1. <<w>> \in Seq({w, p}) /\ p \in {w, p}
            OBVIOUS
          <6>2. Append(<<w>>, p) = <<w>> \o <<p>>
            BY <6>1, AppendIsConcat
          <6>3. QED
            BY <6>2, TwoLong
        <5>3. QED
          BY <5>1, <5>2
      <4>2. CASE req.warp
        BY <1>1, <1>6, <2>2, <4>1, <4>2
      <4>3. CASE ~req.warp
        BY <1>1, <1>6, <2>2, <4>1, <4>3
      <4>4. QED
        BY <4>2, <4>3
    <3>2. ASSUME NEW i \in DOMAIN planned PROVE Carries(context.pool[i], planned[i])
      <4>1. i \in 1..Len(planned) /\ i \in 1..N
        BY <1>5
      <4>2. Len(context.pool) = Len(planned) /\ context.pool[i] = EntryTag(O(i))
        <5>1. Pooled(req, planned, context, n) /\ Len(planned) <= n
          BY <1>1, <1>5, <2>2, CountFacts DEF Begun
        <5>2. QED
          BY <4>1, <5>1 DEF Pooled
      <4>3. O(i).hops = planned[i]
        <5>1. Ordered(req, planned, i)
          BY <4>1, OrderFacts
        <5>2. QED
          BY <1>5, <4>1, <5>1 DEF Ordered
      <4>4. QED
        BY <1>4, <4>1, <4>2, <4>3
    <3>3. QED
      BY <2>2, <3>1, <3>2 DEF EntriesCarried
  <2>3. QED
    BY <2>1, <2>2
<1>8. RulesCarried
  <2> SUFFICES ASSUME NEW i \in DOMAIN outboundMap
               PROVE  Carries(outboundMap[i], (req.routes \o req.auxes)[i])
    BY DEF RulesCarried
  <2> DEFINE k == i + Len(planned)
  <2>1. k \in 1..N /\ outboundMap[i] = EntryTag(O(k)) /\ (req.routes \o req.auxes)[i] = O(k).hops
    BY MapFacts
  <2> HIDE DEF k
  <2>2. QED
    BY <1>4, <2>1
<1>9. WatchedIsPassed
  <2> SUFFICES ASSUME NEW i \in DOMAIN context.watch
               PROVE  \/ \E m \in DOMAIN context.watch[i].hops :
                           Carries(context.watch[i].tag,
                                   SubSeq(context.watch[i].hops, m, Len(context.watch[i].hops)))
                      \/ Carries(context.watch[i].tag, <<Warp, "pool">>)
    BY DEF WatchedIsPassed
  <2> DEFINE w == context.watch[i]
  <2>1. WatchedOf(req, planned, n, g, w)
    BY DEF Begun, Laying
  <2> HIDE DEF w
  <2>2. CASE \E k \in 1..n : w = Watched(O(k))
    <3>1. PICK k \in 1..N : w = Watched(O(k))
      BY <1>1, <2>2
    <3>2. Stands(T, O(k), 2 * (k - 1))
      BY <1>3
    <3> DEFINE r == O(k)
    <3> HIDE DEF O, T
    <3>3. /\ Watched(r).hops = r.hops
          /\ \E m \in DOMAIN r.hops : Carries(Watched(r).tag, SubSeq(r.hops, m, Len(r.hops)))
      BY <3>2, WatchedCarried
    <3>4. QED
      BY <3>1, <3>3 DEF w
  <2>3. CASE g /\ req.warp /\ w.tag = Proxy
    BY <1>6, <2>3 DEF w
  <2>4. QED
    BY <2>1, <2>2, <2>3 DEF WatchedOf
<1>10. QED
  BY <1>7, <1>8, <1>9

-----------------------------------------------------------------------------
(* What is planned                                                             *)

LEMMA WithProxiesFacts ==
  ASSUME req \in Request, NEW hops \in Seq(Hop)
  PROVE  /\ Maybe(req.landing) \in Seq(Hop) /\ Maybe(req.front) \in Seq(Hop)
         /\ WithProxies(hops) \in Seq(Hop)
         /\ Len(WithProxies(hops)) >= Len(hops)
<1> DEFINE a == Maybe(req.landing)
           b == Maybe(req.front)
<1>1. req.landing \in Hop \cup {NoHop} /\ req.front \in Hop \cup {NoHop}
  BY DEF Request
<1>2. a \in Seq(Hop) /\ b \in Seq(Hop)
  BY <1>1 DEF Maybe
<1>3. WithProxies(hops) = (a \o hops) \o b
  BY DEF WithProxies
<1> HIDE DEF a, b
<1>4. (a \o hops) \o b \in Seq(Hop) /\ Len((a \o hops) \o b) >= Len(hops)
  <2>1. a \o hops \in Seq(Hop) /\ Len(a \o hops) = Len(a) + Len(hops)
    BY <1>2
  <2> DEFINE s == a \o hops
  <2> HIDE DEF s
  <2>2. s \o b \in Seq(Hop) /\ Len(s \o b) = Len(s) + Len(b)
    BY <1>2, <2>1 DEF s
  <2>3. Len(a) \in Nat /\ Len(b) \in Nat /\ Len(hops) \in Nat
    BY <1>2
  <2>4. QED
    BY <2>1, <2>2, <2>3 DEF s
<1>5. QED
  BY <1>2, <1>3, <1>4 DEF a, b

LEMMA ReverseFacts ==
  ASSUME NEW s \in HopList
  PROVE  Reverse(s) \in HopList /\ Len(Reverse(s)) = Len(s)
<1>1. s \in Seq(Hop) /\ Len(s) \in Nat /\ Len(s) > 0
  BY DEF HopList
<1>2. Reverse(s) \in [1..Len(s) -> Hop]
  <2>1. \A i \in 1..Len(s) : Len(s) - i + 1 \in 1..Len(s)
    BY <1>1
  <2>2. QED
    BY <1>1, <2>1 DEF Reverse
<1>3. Reverse(s) \in Seq(Hop) /\ Len(Reverse(s)) = Len(s)
  BY <1>1, <1>2
<1>4. QED
  BY <1>1, <1>3 DEF HopList

\* A list of hops with the proxies of its group around it.
LEMMA AroundFacts ==
  ASSUME req \in Request, NEW hops \in HopList
  PROVE  WithProxies(hops) \in HopList
<1>1. hops \in Seq(Hop) /\ Len(hops) \in Nat /\ Len(hops) > 0
  BY DEF HopList
<1>2. WithProxies(hops) \in Seq(Hop) /\ Len(WithProxies(hops)) >= Len(hops)
  BY <1>1, WithProxiesFacts
<1>3. WithProxies(hops) # <<>>
  BY <1>1, <1>2
<1>4. QED
  BY <1>2, <1>3 DEF HopList

\* What a request is planned to be.
Planning(q, pl) ==
    /\ pl \in Seq(HopList)
    /\ Len(pl) <= Len(q.chains)
    /\ q.what = "profile" =>
         Len(pl) = 1 /\ (q.warp => Len(pl[1]) >= 2 /\ pl[1][1] = Warp)

LEMMA ProfilePlans ==
  ASSUME req \in Wanted, req.what = "profile"
  PROVE  Planning(req, Plans)
<1> DEFINE h == WithProxies(Reverse(req.chains[1]))
           w == IF req.warp THEN <<Warp>> ELSE <<>>
           l == w \o h
<1>1. req \in Request /\ Len(req.chains) = 1 /\ req.chains \in Seq(HopList) /\ req.warp \in BOOLEAN
  BY ChainAssumption DEF Request
<1>2. req.chains[1] \in HopList
  BY <1>1
<1>3. h \in HopList
  BY <1>1, <1>2, ReverseFacts, AroundFacts
<1>4. Plans = <<l>>
  BY DEF Plans
<1> HIDE DEF h
<1>5. h \in Seq(Hop) /\ Len(h) \in Nat /\ Len(h) > 0
  BY <1>3 DEF HopList
<1>6. l \in HopList /\ (req.warp => Len(l) >= 2 /\ l[1] = Warp)
  <2>1. CASE ~req.warp
    <3>1. l = h
      BY <1>5, <2>1
    <3>2. QED
      BY <1>3, <2>1, <3>1
  <2>2. CASE req.warp
    <3> DEFINE x == Warp
    <3>1. x \in Hop /\ w = <<x>>
      BY <2>2 DEF Hop
    <3> HIDE DEF x
    <3>2. w \in Seq(Hop) /\ Len(w) = 1 /\ w[1] = x
      BY <3>1
    <3> HIDE DEF w
    <3>3. l \in Seq(Hop) /\ Len(l) = Len(w) + Len(h) /\ l[1] = w[1]
      <4>1. 1 \in 1..Len(w) /\ w \in Seq(Hop) /\ h \in Seq(Hop)
        BY <1>5, <3>2
      <4>2. w \o h \in Seq(Hop) /\ Len(w \o h) = Len(w) + Len(h)
        BY <4>1
      <4>3. \A i \in 1..Len(w) : (w \o h)[i] = w[i]
        BY <4>1
      <4>4. QED
        BY <4>1, <4>2, <4>3
    <3> HIDE DEF l
    <3>4. l # <<>> /\ Len(l) >= 2
      BY <1>5, <3>2, <3>3
    <3>5. QED
      BY <3>2, <3>3, <3>4 DEF x, HopList
  <2>3. QED
    BY <1>1, <2>1, <2>2
<1> HIDE DEF l
<1>7. <<l>> \in Seq(HopList) /\ Len(<<l>>) = 1 /\ <<l>>[1] = l
  BY <1>6
<1>8. QED
  BY <1>1, <1>4, <1>6, <1>7 DEF Planning

LEMMA SelectorPlans ==
  ASSUME req \in Wanted, req.what = "selector"
  PROVE  /\ Planning(req, Plans)
         /\ \A i \in 1..Len(Plans) : \E m \in Hop : Fits(m) /\ Plans[i] = WithProxies(<<m>>)
<1> DEFINE cs == req.chains
           F == {member \in Range(cs) : Fits(member[1])}
           fit == Filter(cs, F)
           n == Len(fit)
<1>1. req \in Request /\ cs \in Seq(HopList) /\ \A i \in DOMAIN cs : Len(cs[i]) = 1
  BY ChainAssumption DEF Request
<1>2. fit \in Seq(HopList) /\ ToSet(fit) = ToSet(cs) \cap F /\ n <= Len(cs)
  BY <1>1, FilterFacts, FilterShort
<1>3. Plans = [i \in DOMAIN fit |-> WithProxies(fit[i])]
  BY DEF Plans
<1>4. ASSUME NEW i \in 1..n
      PROVE  /\ fit[i] \in HopList
             /\ \E m \in Hop : Fits(m) /\ fit[i] = <<m>>
  <2> DEFINE h == fit[i]
  <2> HIDE DEF fit
  <2>1. h \in HopList /\ h \in ToSet(fit)
    BY <1>2, <1>4 DEF ToSet
  <2>2. h \in F
    BY <1>2, <2>1
  <2>3. Fits(h[1]) /\ Len(h) = 1
    BY <1>1, <2>2 DEF Range
  <2>4. h \in Seq(Hop)
    BY <2>1 DEF HopList
  <2> HIDE DEF h
  <2>5. h[1] \in Hop /\ h = <<h[1]>>
    BY <2>3, <2>4
  <2>6. QED
    BY <2>1, <2>3, <2>5 DEF h
<1> HIDE DEF fit
<1>5. DOMAIN fit = 1..n /\ n \in Nat
  BY <1>2
<1>6. \A i \in 1..n : WithProxies(fit[i]) \in HopList
  BY <1>1, <1>4, AroundFacts
<1>7. Plans \in Seq(HopList) /\ Len(Plans) = n
  BY <1>3, <1>5, <1>6
<1>8. \A i \in 1..n : Plans[i] = WithProxies(fit[i])
  BY <1>3, <1>5
<1>9. QED
  BY <1>2, <1>4, <1>7, <1>8 DEF Planning

LEMMA TestPlans ==
  ASSUME req \in Wanted, req.what = "test"
  PROVE  /\ Planning(req, Plans)
         /\ Len(Plans) = Len(req.chains)
         /\ \A i \in 1..Len(Plans) : Plans[i] = Tested(req.chains[i])
<1> DEFINE cs == req.chains
           n == Len(cs)
<1>1. req \in Request /\ cs \in Seq(HopList) /\ n \in Nat /\ DOMAIN cs = 1..n
  BY ChainAssumption DEF Request
<1>2. Plans = [i \in 1..n |-> Tested(cs[i])]
  BY <1>1 DEF Plans
<1> HIDE DEF n
<1>3. ASSUME NEW i \in 1..n PROVE Tested(cs[i]) \in HopList
  <2>1. cs[i] \in HopList
    BY <1>1 DEF n
  <2>2. WithProxies(Reverse(cs[i])) \in HopList
    BY <1>1, <2>1, ReverseFacts, AroundFacts
  <2>3. QED
    BY <2>1, <2>2 DEF Tested
<1>4. Plans \in Seq(HopList) /\ Len(Plans) = n /\ \A i \in 1..n : Plans[i] = Tested(cs[i])
  BY <1>1, <1>2, <1>3
<1>5. QED
  BY <1>1, <1>4 DEF Planning, n

LEMMA ThreePlaces ==
  ASSUME NEW x \in {0, 1}, NEW y \in {0, 1}, NEW i \in 1..(x + 1 + y)
  PROVE  (x = 1 /\ i = 1) \/ i = x + 1 \/ (y = 1 /\ i = x + 1 + y)
OBVIOUS

\* A member that fits is built, unless the proxies of its group would fail any member.
LEMMA FitIsBuilt ==
  ASSUME req \in Request, NEW m \in Hop, Fits(m), Refused(WithProxies(<<m>>))
  PROVE  req.front \in FullXray \/ req.landing \in Terminal
<1> SUFFICES ASSUME req.front \notin FullXray, req.landing \notin Terminal PROVE FALSE
  OBVIOUS
<1> DEFINE a == Maybe(req.landing)
           b == Maybe(req.front)
           h == WithProxies(<<m>>)
<1>1. /\ m \notin Extra
      /\ m \in FullXray => req.front = NoHop /\ req.landing \notin Xray
      /\ m \notin FullXray => Cardinality(Crossings(h)) <= 2
  <2>1. Crossings(h) = {i \in DOMAIN h : InXray(h, i) # InXray(h, i - 1)}
    BY DEF Crossings
  <2>2. QED
    BY <2>1 DEF Fits
<1>2. NoHop \notin Hop /\ FullXray \cap Xray = {} /\ Hop = Sing \cup Xray \cup Terminal \cup {Warp}
  BY ChainAssumption DEF Terminal, Hop
<1>3. req.landing \in Hop \cup {NoHop} /\ req.front \in Hop \cup {NoHop}
  BY DEF Request
<1>4. h \in HopList /\ h \in Seq(Hop) /\ h = (a \o <<m>>) \o b /\ a \in Seq(Hop) /\ b \in Seq(Hop)
  <2>1. <<m>> \in HopList /\ <<m>> \in Seq(Hop)
    BY DEF HopList
  <2>2. QED
    BY <2>1, AroundFacts, WithProxiesFacts DEF WithProxies, HopList
<1>5. /\ a = IF req.landing = NoHop THEN <<>> ELSE <<req.landing>>
      /\ b = IF req.front = NoHop THEN <<>> ELSE <<req.front>>
  BY DEF Maybe
<1>6. /\ Len(a) = IF req.landing = NoHop THEN 0 ELSE 1
      /\ req.landing # NoHop => a[1] = req.landing
      /\ Len(b) = IF req.front = NoHop THEN 0 ELSE 1
      /\ req.front # NoHop => b[1] = req.front
  BY <1>5
<1> HIDE DEF a, b, h
<1>7. /\ Len(h) = Len(a) + 1 + Len(b)
      /\ h[Len(a) + 1] = m
      /\ Len(a) = 1 => h[1] = req.landing
      /\ Len(b) = 1 => h[Len(h)] = req.front
  <2> DEFINE s == a \o <<m>>
  <2>1. s \in Seq(Hop) /\ Len(s) = Len(a) + 1 /\ s[Len(a) + 1] = m /\ \A i \in 1..Len(a) : s[i] = a[i]
    BY <1>4, OneMore
  <2> HIDE DEF s
  <2>2. h = s \o b
    BY <1>4 DEF s
  <2>3. /\ Len(h) = Len(s) + Len(b) /\ \A i \in 1..Len(s) : h[i] = s[i]
        /\ \A i \in 1..Len(b) : h[Len(s) + i] = b[i]
    BY <1>4, <2>1, <2>2
  <2>4. Len(a) \in Nat /\ Len(b) \in Nat
    BY <1>4
  <2>5. Len(h) = Len(a) + 1 + Len(b) /\ h[Len(a) + 1] = m
    BY <2>1, <2>3, <2>4
  <2>6. Len(a) = 1 => h[1] = req.landing
    BY <1>6, <2>1, <2>3
  <2>7. Len(b) = 1 => h[Len(h)] = req.front
    BY <1>6, <2>1, <2>3, <2>4
  <2>8. QED
    BY <2>5, <2>6, <2>7
<1>8. Len(a) \in {0, 1} /\ Len(b) \in {0, 1}
  BY <1>6
<1>9. ASSUME NEW i \in DOMAIN h, h[i] \in Terminal PROVE i = Len(h)
  <2>1. i \in 1..Len(h)
    BY <1>4
  <2>2. CASE Len(a) = 1 /\ i = 1
    BY <1>7, <1>9, <2>2
  <2>3. CASE i = Len(a) + 1
    <3>1. m \in FullXray
      BY <1>1, <1>7, <1>9, <2>3 DEF Terminal
    <3>2. Len(b) = 0
      BY <1>1, <1>6, <3>1
    <3>3. QED
      BY <1>7, <1>8, <2>3, <3>2
  <2>4. CASE i = Len(a) + 1 + Len(b)
    BY <1>7, <2>4
  <2>5. i \in 1..(Len(a) + 1 + Len(b))
    BY <1>7, <2>1
  <2>6. QED
    BY <1>8, <2>2, <2>3, <2>4, <2>5, ThreePlaces
<1>10. h # <<>> /\ Last(h) = h[Len(h)]
  BY <1>4 DEF HopList, Last
<1>11. CASE m \in FullXray
  <2>1. Len(b) = 0 /\ req.landing \notin Xray /\ m \notin Xray
    BY <1>1, <1>2, <1>6, <1>11
  <2>2. ASSUME NEW i \in 1..Len(h) PROVE h[i] \notin Xray
    <3>1. i \in 1..(Len(a) + 1 + Len(b))
      BY <1>7
    <3>2. (Len(a) = 1 /\ i = 1) \/ i = Len(a) + 1 \/ (Len(b) = 1 /\ i = Len(a) + 1 + Len(b))
      <4> DEFINE la == Len(a)
                 lb == Len(b)
      <4>1. la \in {0, 1} /\ lb \in {0, 1} /\ i \in 1..(la + 1 + lb)
        BY <1>8, <3>1
      <4> HIDE DEF la, lb
      <4>2. (la = 1 /\ i = 1) \/ i = la + 1 \/ (lb = 1 /\ i = la + 1 + lb)
        BY <4>1, ThreePlaces
      <4>3. QED
        BY <4>2 DEF la, lb
    <3>3. QED
      BY <1>7, <2>1, <3>2
  <2>3. Crossings(h) = {}
    <3> SUFFICES ASSUME NEW i \in Crossings(h) PROVE FALSE
      OBVIOUS
    <3>1. i \in 1..Len(h) /\ ((h[i] \in Xray) # (i > 1 /\ h[i - 1] \in Xray))
      BY <1>4, CrossingFacts
    <3>2. h[i] \notin Xray
      BY <2>2, <3>1
    <3>3. i > 1 /\ h[i - 1] \in Xray
      BY <3>1, <3>2
    <3>4. i - 1 \in 1..Len(h)
      BY <1>4, <3>1, <3>3
    <3>5. QED
      BY <2>2, <3>3, <3>4
  <2>4. ~ToXray(h) /\ Cardinality(Crossings(h)) = 0
    BY <2>3, FS_EmptySet DEF ToXray
  <2>5. QED
    BY <1>9, <2>4 DEF Refused, h
<1>12. CASE m \notin FullXray
  <2>1. Last(h) \notin FullXray
    <3>1. CASE Len(b) = 1
      BY <1>7, <1>10, <3>1
    <3>2. CASE Len(b) = 0
      <4>1. h[Len(h)] = m
        BY <1>7, <1>8, <3>2
      <4>2. QED
        BY <1>10, <1>12, <4>1
    <3>3. QED
      BY <1>8, <3>1, <3>2
  <2>2. Cardinality(Crossings(h)) \in Nat /\ Cardinality(Crossings(h)) <= 2
    BY <1>1, <1>4, <1>12, CrossingFacts, FS_CardinalityType
  <2>3. QED
    BY <1>9, <2>1, <2>2 DEF Refused, h
<1>13. QED
  BY <1>11, <1>12

-----------------------------------------------------------------------------
(* The inductive invariant                                                     *)

\* The two configurations and their bridges are the same in both.
SameLayout(c, d) ==
    /\ d.sing = c.sing /\ d.xray = c.xray /\ d.singToXray = c.singToXray
    /\ d.xrayIngress = c.xrayIngress /\ d.xrayToSing = c.xrayToSing
    /\ d.singIngress = c.singIngress /\ d.ports = c.ports

Errors == {"none", "invalid", "refused", "mismatch"}

LEMMA ErrorContext ==
  ASSUME NEW W, NEW c \in Context(W), NEW e \in Errors
  PROVE  LET d == [c EXCEPT !.error = e]
         IN  /\ d \in Context(W) /\ SameLayout(c, d) /\ d.error = e /\ d.watch = c.watch
             /\ d.slot = c.slot /\ d.fulls = c.fulls /\ d.pool = c.pool
             /\ d.singIn = c.singIn /\ d.xrayIn = c.xrayIn
<1> DEFINE d == [c EXCEPT !.error = e]
<1>1. d \in Context(W)
  BY DEF Context, Errors
<1>2. /\ SameLayout(c, d) /\ d.error = e /\ d.watch = c.watch
      /\ d.slot = c.slot /\ d.fulls = c.fulls /\ d.pool = c.pool
      /\ d.singIn = c.singIn /\ d.xrayIn = c.xrayIn
  BY DEF Context, SameLayout
<1>3. QED
  BY <1>1, <1>2

LEMMA DrainedContext ==
  ASSUME NEW W, NEW c \in Context(W)
  PROVE  LET d == Drained(c)
         IN  /\ d \in Context(W) /\ SameLayout(c, d) /\ d.error = c.error /\ d.watch = c.watch
             /\ d.slot = {} /\ d.fulls = c.fulls \cup c.slot /\ d.pool = c.pool
             /\ d.singIn = c.singIn /\ d.xrayIn = c.xrayIn
<1> DEFINE d == Drained(c)
<1>1. d \in Context(W)
  BY DEF Context, Drained
<1>2. /\ SameLayout(c, d) /\ d.error = c.error /\ d.watch = c.watch
      /\ d.slot = {} /\ d.fulls = c.fulls \cup c.slot /\ d.pool = c.pool
      /\ d.singIn = c.singIn /\ d.xrayIn = c.xrayIn
  BY DEF Context, SameLayout, Drained
<1>3. QED
  BY <1>1, <1>2

LEMMA PoolContext ==
  ASSUME NEW W, NEW c \in Context(W), NEW t \in Tags
  PROVE  LET d == [c EXCEPT !.pool = Append(@, t)]
         IN  /\ d \in Context(W) /\ SameLayout(c, d) /\ d.error = c.error /\ d.watch = c.watch
             /\ d.slot = c.slot /\ d.fulls = c.fulls /\ d.pool = Append(c.pool, t)
             /\ d.singIn = c.singIn /\ d.xrayIn = c.xrayIn
<1> DEFINE p == Append(c.pool, t)
           d == [c EXCEPT !.pool = p]
<1>1. p \in Seq(Tags)
  BY DEF Context
<1> HIDE DEF p
<1>2. d \in Context(W)
  BY <1>1 DEF Context
<1>3. /\ SameLayout(c, d) /\ d.error = c.error /\ d.watch = c.watch
      /\ d.slot = c.slot /\ d.fulls = c.fulls /\ d.pool = p
      /\ d.singIn = c.singIn /\ d.xrayIn = c.xrayIn
  BY DEF Context, SameLayout
<1>4. QED
  BY <1>2, <1>3 DEF p

\* The places that may be reached by the bridges are those of ports.
LEMMA DoorsTyped ==
  ASSUME NEW ps \in Seq(Nat), NEW ins \in Seq(Tags), Len(ps) = Len(ins)
  PROVE  {[port |-> ps[i], out |-> ins[i]] : i \in DOMAIN ps} \in SUBSET [port : Nat, out : Tags]
OBVIOUS

LEMMA EmptyTyped ==
  ASSUME NEW W
  PROVE  EmptyContext \in Context(W)
<1>1. /\ <<>> \in Seq(OutType) /\ <<>> \in Seq(Nat) /\ <<>> \in Seq(Tags)
      /\ <<>> \in Seq([tag : Tags, hops : W])
  OBVIOUS
<1>2. QED
  BY <1>1 DEF EmptyContext, Context

\* What is watched may be a chain, or the members of a selector in a row.
Watchable(pl) == Seq(Hop) \cup {FlattenSeq(pl)}

Phases == {"plan", "main", "members", "group", "candidates", "routes", "auxes", "bridges", "xray", "done"}

Typed(q, f, b, pl, c) ==
    /\ q \in Wanted /\ f \in Phases
    /\ b \in 0..(Len(q.chains) + Len(q.routes) + Len(q.auxes))
    /\ pl \in Seq(HopList) /\ Len(pl) <= Len(q.chains)
    /\ c \in Context(Watchable(pl))
    /\ f # "done" => c.error = "none"
    /\ f = "plan" => b = 0 /\ pl = <<>> /\ c = EmptyContext

\* Bridges come in pairs, and no two full configurations keep their own inbounds.
Bridged(q, c) ==
    /\ Coupled(c.singToXray, c.xrayIngress, c.ports)
    /\ Coupled(c.xrayToSing, c.singIngress, c.ports)
    /\ c.error # "mismatch"
    /\ \A f \in c.fulls : f.own = FALSE
    /\ q.what = "selector" => c.slot = {}

\* What is planned can be built; a full configuration is tested by itself.
PlannedAs(q, f, pl, m, c) ==
    f # "plan" /\ c.error # "invalid" =>
      /\ Fine(q, pl) /\ m = MapOf(q)
      /\ q.what = "selector" =>
           \A i \in 1..Len(pl) : Refused(pl[i]) => q.front \in FullXray \/ q.landing \in Terminal
      /\ q.what = "test" =>
           /\ Len(pl) = Len(q.chains)
           /\ \A i \in 1..Len(pl) :
                 Len(q.chains[i]) = 1 /\ q.chains[i][1] \in FullXray => pl[i] = q.chains[i]

Taken(q, pl) ==
    q.what = "profile" /\ Last(pl[1]) \in FullXray /\ HopsOf(q.routes) \cap Xray # {}

\* Some of the chains are laid out, and served.
LaidOut(q, f, b, pl, c) ==
    f # "plan" /\ c.error = "none" /\ q.what # "test" =>
      \E n \in Nat, g \in BOOLEAN :
         /\ Begun(q, pl, c, f, b, n, g)
         /\ f # "done" \/ ~Taken(q, pl) => KeptAll(q, pl, c, n)

TestedAt(q, f, b, pl, c) ==
    f # "plan" /\ c.error = "none" /\ q.what = "test" =>
      \/ f = "candidates" /\ b \in 0..Len(pl)-1
      \/ f \in {"bridges", "xray", "done"} /\ b = 0

Excused(q, c) ==
    c.error = "refused" /\ q.what = "selector" =>
      \/ q.front \in FullXray \/ q.landing \in Terminal
      \/ \E i \in DOMAIN q.routes : Refused(q.routes[i])

ConfigInv ==
    /\ Typed(req, phase, built, planned, context)
    /\ Bridged(req, context)
    /\ PlannedAs(req, phase, planned, outboundMap, context)
    /\ LaidOut(req, phase, built, planned, context)
    /\ TestedAt(req, phase, built, planned, context)
    /\ Excused(req, context)

LEMMA SamePairs ==
  ASSUME NEW q, NEW c, NEW d, Bridged(q, c), SameLayout(c, d), d.error # "mismatch",
         d.fulls = c.fulls, d.slot = c.slot \/ d.slot = {}
  PROVE  Bridged(q, d)
BY DEF Bridged, SameLayout

\* The first chain comes after the plan.
LEMMA NothingLaid ==
  ASSUME NEW q, NEW pl, Fine(q, pl)
  PROVE  Laying(q, pl, EmptyContext, 0, FALSE) /\ KeptAll(q, pl, EmptyContext, 0)
         /\ Pooled(q, pl, EmptyContext, 0) /\ Bridged(q, EmptyContext)
<1> DEFINE e == <<>>
           c == EmptyContext
<1>1. /\ c.sing = e /\ c.xray = e /\ c.singToXray = e /\ c.xrayToSing = e /\ c.singIngress = e
      /\ c.xrayIngress = e /\ c.slot = {} /\ c.fulls = {} /\ c.pool = e /\ c.watch = e /\ c.ports = 0
      /\ c.error = "none"
  BY DEF EmptyContext
<1>2. e \in Seq(OutType) /\ e \in Seq(Nat) /\ e \in Seq(Tags) /\ Len(e) = 0 /\ DOMAIN e = {}
  OBVIOUS
<1> HIDE DEF e, c
<1>3. 1..0 = {}
  OBVIOUS
<1>4. Distinct(e, AllClaims(q, pl, 0) \cup GroupTags(FALSE)) /\ Coupled(e, e, 0)
  BY <1>2, <1>3 DEF Distinct, Coupled
<1>5. Sane(c, AllClaims(q, pl, 0) \cup GroupTags(FALSE))
  BY <1>1, <1>4 DEF Sane
<1>6. Laying(q, pl, c, 0, FALSE)
  BY <1>1, <1>2, <1>3, <1>5 DEF Laying, e
<1>7. KeptAll(q, pl, c, 0)
  BY <1>3 DEF KeptAll
<1>8. Pooled(q, pl, c, 0)
  BY <1>1, <1>2, <1>3, CountFacts DEF Pooled
<1>9. Bridged(q, c)
  BY <1>1, <1>4 DEF Bridged
<1>10. QED
  BY <1>6, <1>7, <1>8, <1>9 DEF c

\* What passes the checks of a plan.
LEMMA PlanIsFine ==
  ASSUME req \in Wanted, NEW pl, Planning(req, pl), pl # <<>>,
         <<>> \notin Range(req.routes) \cup Range(req.auxes),
         HopsOf(req.routes) \cap Terminal = {},
         HopsOf(req.auxes) \cap (Terminal \cup Xray \cup UsedProfiles) = {}
  PROVE  Fine(req, pl)
<1>1. /\ req.routes \in Seq(Seq(Hop)) /\ req.auxes \in Seq(Seq(Hop)) /\ req.warp \in BOOLEAN
      /\ req.what \in {"profile", "selector", "test"}
  BY ChainAssumption DEF Request
<1>2. req.routes \in Seq(HopList) /\ req.auxes \in Seq(HopList)
  <2>1. ASSUME NEW s \in Seq(Seq(Hop)), <<>> \notin Range(s) PROVE s \in Seq(HopList)
    <3>1. \A i \in 1..Len(s) : s[i] \in Seq(Hop) /\ s[i] \in Range(s)
      BY DEF Range
    <3>2. \A i \in 1..Len(s) : s[i] \in HopList
      BY <2>1, <3>1 DEF HopList
    <3>3. QED
      BY <3>2
  <2>2. QED
    BY <1>1, <2>1
<1>3. HopsOf(req.auxes) \cap (Terminal \cup Xray) = {}
  OBVIOUS
<1>4. pl \in Seq(HopList) /\ Len(pl) > 0
  <2>1. pl \in Seq(HopList)
    BY DEF Planning
  <2>2. Len(pl) \in Nat /\ Len(pl) # 0
    BY <2>1
  <2>3. QED
    BY <2>1, <2>2
<1>5. QED
  BY <1>1, <1>2, <1>3, <1>4 DEF Fine, Planning

LEMMA PlanKeeps ==
  ASSUME ConfigInv, Plan
  PROVE  ConfigInv'
<1> DEFINE pl == planned'
           bad == \/ <<>> \in Range(req.routes) \cup Range(req.auxes)
                  \/ HopsOf(req.routes) \cap Terminal # {}
                  \/ HopsOf(req.auxes) \cap (Terminal \cup Xray \cup UsedProfiles) # {}
                  \/ \E i, j \in DOMAIN req.auxes :
                         i # j /\ Range(req.auxes[i]) \cap Range(req.auxes[j]) # {}
                  \/ pl = <<>>
<1>1. /\ phase = "plan" /\ req \in Wanted /\ built = 0 /\ context = EmptyContext
      /\ req' = req /\ built' = 0 /\ pl = Plans /\ outboundMap' = MapOf(req)
      /\ context' = IF bad THEN [context EXCEPT !.error = "invalid"] ELSE context
      /\ phase' = IF bad THEN "done"
                  ELSE CASE req.what = "profile"  -> "main"
                         [] req.what = "selector" -> "members"
                         [] req.what = "test"     -> "candidates"
  BY DEF ConfigInv, Typed, Plan, MapOf
<1>2. req \in Request /\ req.what \in {"profile", "selector", "test"}
  BY <1>1, ChainAssumption DEF Request
<1>3. Planning(req, pl)
  BY <1>1, <1>2, ProfilePlans, SelectorPlans, TestPlans
<1>4. EmptyContext \in Context(Watchable(pl)) /\ EmptyContext.error = "none"
  BY EmptyTyped DEF EmptyContext
<1>5. 0 \in 0..(Len(req.chains) + Len(req.routes) + Len(req.auxes))
  <2> DEFINE x == Len(req.chains)
             y == Len(req.routes)
             z == Len(req.auxes)
  <2>1. x \in Nat /\ y \in Nat /\ z \in Nat
    BY <1>2 DEF Request
  <2> HIDE DEF x, y, z
  <2>2. 0 \in 0..(x + y + z)
    BY <2>1
  <2>3. QED
    BY <2>2 DEF x, y, z
<1>6. pl \in Seq(HopList) /\ Len(pl) <= Len(req.chains)
  BY <1>3 DEF Planning
<1>7. CASE bad
  <2> DEFINE d == [EmptyContext EXCEPT !.error = "invalid"]
  <2> HIDE DEF bad
  <2>1. context' = d /\ phase' = "done"
    BY <1>1, <1>7
  <2>2. d \in Context(Watchable(pl)) /\ SameLayout(EmptyContext, d) /\ d.error = "invalid"
        /\ d.fulls = EmptyContext.fulls /\ d.slot = EmptyContext.slot
    <3>1. "invalid" \in Errors
      BY DEF Errors
    <3>2. QED
      BY <1>4, <3>1, ErrorContext
  <2> HIDE DEF d
  <2>3. Typed(req, "done", 0, pl, d)
    BY <1>1, <1>5, <1>6, <2>2 DEF Typed, Phases
  <2>4. Bridged(req, d)
    <3>1. Coupled(EmptyContext.singToXray, EmptyContext.xrayIngress, EmptyContext.ports)
          /\ Coupled(EmptyContext.xrayToSing, EmptyContext.singIngress, EmptyContext.ports)
          /\ EmptyContext.fulls = {} /\ EmptyContext.slot = {}
      BY <1>1 DEF ConfigInv, Bridged, EmptyContext
    <3>2. QED
      BY <2>2, <3>1 DEF Bridged, SameLayout
  <2>5. PlannedAs(req, "done", pl, outboundMap', d)
    BY <2>2 DEF PlannedAs
  <2>6. LaidOut(req, "done", 0, pl, d) /\ TestedAt(req, "done", 0, pl, d) /\ Excused(req, d)
    BY <2>2 DEF LaidOut, TestedAt, Excused
  <2>7. QED
    BY <1>1, <2>1, <2>3, <2>4, <2>5, <2>6 DEF ConfigInv
<1>8. CASE ~bad
  <2>1. /\ pl # <<>> /\ <<>> \notin Range(req.routes) \cup Range(req.auxes)
        /\ HopsOf(req.routes) \cap Terminal = {}
        /\ HopsOf(req.auxes) \cap (Terminal \cup Xray \cup UsedProfiles) = {}
    BY <1>8
  <2>2. context' = EmptyContext
    BY <1>1, <1>8
  <2>3. /\ req.what = "profile" => phase' = "main"
        /\ req.what = "selector" => phase' = "members"
        /\ req.what = "test" => phase' = "candidates"
    BY <1>1, <1>8
  <2> HIDE DEF bad
  <2> DEFINE c == EmptyContext
  <2>4. Fine(req, pl)
    BY <1>1, <1>3, <2>1, PlanIsFine
  <2>5. Laying(req, pl, c, 0, FALSE) /\ KeptAll(req, pl, c, 0) /\ Pooled(req, pl, c, 0) /\ Bridged(req, c)
    BY <2>4, NothingLaid
  <2>6. Typed(req, phase', 0, pl, c)
    BY <1>1, <1>2, <1>4, <1>5, <1>6, <2>3 DEF Typed, Phases
  <2>7. PlannedAs(req, phase', pl, outboundMap', c)
    <3>1. req.what = "selector" =>
            \A i \in 1..Len(pl) : Refused(pl[i]) => req.front \in FullXray \/ req.landing \in Terminal
      BY <1>1, <1>2, SelectorPlans, FitIsBuilt
    <3>2. ASSUME req.what = "test"
          PROVE  /\ Len(pl) = Len(req.chains)
                 /\ \A i \in 1..Len(pl) :
                      Len(req.chains[i]) = 1 /\ req.chains[i][1] \in FullXray => pl[i] = req.chains[i]
      BY <1>1, <3>2, TestPlans DEF Tested
    <3>3. QED
      BY <1>1, <2>4, <3>1, <3>2 DEF PlannedAs
  <2>8. LaidOut(req, phase', 0, pl, c)
    <3> SUFFICES ASSUME req.what # "test"
                 PROVE  Begun(req, pl, c, phase', 0, 0, FALSE) /\ KeptAll(req, pl, c, 0)
      BY DEF LaidOut
    <3>1. Len(pl) \in Nat /\ Len(pl) > 0
      BY <2>4, CountFacts
    <3>2. 0 \in 0..Len(pl)-1
      BY <3>1
    <3>3. Progress(phase', 0, req, pl, 0, FALSE)
      BY <1>2, <2>3, <3>2 DEF Progress
    <3>4. Doors(c, phase')
      BY <1>2, <2>3 DEF Doors
    <3>5. QED
      BY <2>5, <3>3, <3>4 DEF Begun
  <2>9. TestedAt(req, phase', 0, pl, c)
    <3>1. Len(pl) \in Nat /\ Len(pl) > 0
      BY <2>4, CountFacts
    <3>2. 0 \in 0..Len(pl)-1
      BY <3>1
    <3>3. QED
      BY <2>3, <3>2 DEF TestedAt
  <2>10. Excused(req, c)
    BY <1>4 DEF Excused
  <2>11. QED
    BY <1>1, <2>2, <2>5, <2>6, <2>7, <2>8, <2>9, <2>10 DEF ConfigInv
<1>9. QED
  BY <1>7, <1>8

\* What is built next.
LEMMA AfterProgress ==
  ASSUME Fine(req, planned), NEW g, g = (req.what = "selector")
  PROVE  /\ Progress(After("group"), 0, req, planned, Len(planned), g)
         /\ Progress(After("routes"), 0, req, planned, Len(planned) + Len(req.routes), g)
         /\ {After("group"), After("routes")} \subseteq {"routes", "auxes", "bridges"}
<1> DEFINE P == Len(planned)
           R == Len(req.routes)
           A == Len(req.auxes)
<1>1. P \in Nat /\ R \in Nat /\ A \in Nat /\ Count(req, planned) = P + R + A
  BY CountFacts
<1>2. req.routes \in Seq(HopList) /\ req.auxes \in Seq(HopList)
  BY DEF Fine
<1>3. (req.routes = <<>> <=> R = 0) /\ (req.auxes = <<>> <=> A = 0)
  BY <1>2
<1>4. /\ After("group") = IF R # 0 THEN "routes" ELSE IF A # 0 THEN "auxes" ELSE "bridges"
      /\ After("routes") = IF A # 0 THEN "auxes" ELSE "bridges"
  BY <1>3 DEF After
<1> HIDE DEF P, R, A
<1>5. (R # 0 => 0 \in 0..R-1) /\ (A # 0 => 0 \in 0..A-1) /\ P + 0 = P /\ P + R + 0 = P + R
  BY <1>1
<1>6. Progress(After("routes"), 0, req, planned, P + R, g)
  <2>1. CASE A # 0
    BY <1>4, <1>5, <2>1 DEF Progress, P, R, A
  <2>2. CASE A = 0
    <3>1. P + R = Count(req, planned)
      BY <1>1, <2>2
    <3>2. QED
      BY <1>4, <2>2, <3>1 DEF Progress
  <2>3. QED
    BY <2>1, <2>2
<1>7. Progress(After("group"), 0, req, planned, P, g)
  <2>1. CASE R # 0
    BY <1>4, <1>5, <2>1 DEF Progress, P, R, A
  <2>2. CASE R = 0
    <3>1. P + R = P /\ After("group") = After("routes")
      BY <1>1, <1>4, <2>2
    <3>2. QED
      BY <1>6, <3>1
  <2>3. QED
    BY <2>1, <2>2
<1>8. {After("group"), After("routes")} \subseteq {"routes", "auxes", "bridges"}
  BY <1>4
<1>9. QED
  BY <1>6, <1>7, <1>8 DEF P, R

\* A count of chains, routes or auxes is in its bounds.
LEMMA SmallBuilt ==
  ASSUME req \in Request, NEW x \in Nat,
         x <= Len(req.chains) \/ x <= Len(req.routes) \/ x <= Len(req.auxes)
  PROVE  x \in 0..(Len(req.chains) + Len(req.routes) + Len(req.auxes))
<1> DEFINE a == Len(req.chains)
           b == Len(req.routes)
           c == Len(req.auxes)
<1>1. a \in Nat /\ b \in Nat /\ c \in Nat /\ (x <= a \/ x <= b \/ x <= c)
  BY DEF Request
<1> HIDE DEF a, b, c
<1>2. x \in 0..(a + b + c)
  BY <1>1
<1>3. QED
  BY <1>2 DEF a, b, c

\* A chain more is refused, or laid out.
Grown(q, pl, c, n, g, d) ==
    LET r == Order(q, pl, n + 1)
    IN  /\ d \in Context(Watchable(pl)) /\ d.error = "none"
        /\ Laying(q, pl, d, n + 1, g)
        /\ Coupled(d.singToXray, d.xrayIngress, d.ports)
        /\ Coupled(d.xrayToSing, d.singIngress, d.ports)
        /\ d.fulls = c.fulls /\ d.pool = c.pool
        /\ d.slot = IF Range(r.hops) \cap FullXray = {} THEN c.slot
                    ELSE {[port |-> 2 * n + 1, own |-> ~r.sole]}

LEMMA NextChain ==
  ASSUME NEW q, NEW pl, Fine(q, pl), NEW c \in Context(Watchable(pl)), c.error = "none",
         NEW n \in Nat, n + 1 \in 1..Count(q, pl), NEW g \in BOOLEAN, g => q.what # "profile",
         Laying(q, pl, c, n, g), Bridged(q, c), ~Refused(Order(q, pl, n + 1).hops)
  PROVE  Grown(q, pl, c, n, g, Chain(c, Order(q, pl, n + 1)))
<1> DEFINE r == Order(q, pl, n + 1)
           d == Chain(c, r)
           W == Watchable(pl)
<1>1. Sound(r) /\ r.hops \in HopList
  BY OrderHops
<1>2. r.hops \in W
  BY <1>1 DEF HopList, Watchable
<1>3. Laying(q, pl, d, n + 1, g)
  BY <1>2, LayNext
<1> HIDE DEF r
<1>4. ~Refused(r.hops)
  BY DEF r
<1>5. d \in Context(W) /\ Added(c, r, d)
  BY <1>1, <1>2, <1>4, ChainFields
<1>6. Coupled(c.singToXray, c.xrayIngress, c.ports) /\ Coupled(c.xrayToSing, c.singIngress, c.ports)
  BY DEF Bridged
<1>7. Coupled(d.singToXray, d.xrayIngress, c.ports + 2) /\ Coupled(d.xrayToSing, d.singIngress, c.ports + 2)
  BY <1>1, <1>2, <1>4, <1>6, ChainPairs
<1>8. c.ports = 2 * n
  BY DEF Laying
<1> HIDE DEF d, W
<1>9. d.ports = c.ports + 2 /\ d.fulls = c.fulls /\ d.pool = c.pool /\ d.error = "none"
      /\ d.slot = IF Range(r.hops) \cap FullXray = {} THEN c.slot
                  ELSE {[port |-> 2 * n + 1, own |-> ~r.sole]}
  BY <1>5, <1>8 DEF Added
<1>10. QED
  BY <1>3, <1>5, <1>7, <1>9 DEF Grown, r, d, W

\* What is served stays so, if a chain of no full configuration is built.
LEMMA PlainKept ==
  ASSUME NEW q, NEW pl, NEW c, NEW n \in Nat, KeptAll(q, pl, c, n), NEW d,
         Range(Order(q, pl, n + 1).hops) \cap FullXray = {}, c.slot \cup c.fulls \subseteq d.slot \cup d.fulls
  PROVE  KeptAll(q, pl, d, n + 1)
<1>1. ASSUME NEW k \in 1..n+1 PROVE KeptUp(d, Order(q, pl, k), 2 * (k - 1))
  <2>1. CASE k \in 1..n
    <3>1. KeptUp(c, Order(q, pl, k), 2 * (k - 1))
      BY <2>1 DEF KeptAll
    <3>2. QED
      BY <3>1 DEF KeptUp
  <2>2. CASE k = n + 1
    BY <2>2 DEF KeptUp
  <2>3. QED
    BY <2>1, <2>2
<1>2. QED
  BY <1>1 DEF KeptAll

\* The next chain has a full configuration, which is served on its own port.
LEMMA FullKept ==
  ASSUME NEW q, NEW pl, NEW c, NEW n \in Nat, KeptAll(q, pl, c, n), NEW d,
         c.fulls \subseteq d.slot \cup d.fulls, n = 0 \/ c.slot = {},
         NEW own, [port |-> 2 * n + 1, own |-> own] \in d.slot \cup d.fulls
  PROVE  KeptAll(q, pl, d, n + 1)
<1>1. ASSUME NEW k \in 1..n+1 PROVE KeptUp(d, Order(q, pl, k), 2 * (k - 1))
  <2>1. CASE k \in 1..n
    <3>1. KeptUp(c, Order(q, pl, k), 2 * (k - 1)) /\ c.slot = {}
      BY <2>1 DEF KeptAll
    <3>2. QED
      BY <3>1 DEF KeptUp
  <2>2. CASE k = n + 1
    <3>1. 2 * (k - 1) + 1 = 2 * n + 1
      BY <2>2
    <3>2. QED
      BY <3>1 DEF KeptUp
  <2>3. QED
    BY <2>1, <2>2
<1>2. QED
  BY <1>1 DEF KeptAll

\* A step after the plan keeps the invariant, if it keeps what it builds.
LEMMA StepKeeps ==
  ASSUME ConfigInv, phase \notin {"plan", "done"}, UNCHANGED <<req, outboundMap, planned>>,
         context' \in Context(Watchable(planned)), Bridged(req, context'),
         phase' \in Phases \ {"plan"}, phase' # "done" => context'.error = "none",
         built' \in 0..(Len(req.chains) + Len(req.routes) + Len(req.auxes)),
         LaidOut(req, phase', built', planned, context'),
         TestedAt(req, phase', built', planned, context'), Excused(req, context')
  PROVE  ConfigInv'
<1>1. req' = req /\ outboundMap' = outboundMap /\ planned' = planned
  OBVIOUS
<1>2. context.error = "none" /\ phase # "plan"
  BY DEF ConfigInv, Typed
<1>3. Typed(req, phase', built', planned, context')
  BY DEF ConfigInv, Typed
<1>4. PlannedAs(req, phase', planned, outboundMap, context')
  BY <1>2 DEF ConfigInv, PlannedAs
<1>5. QED
  BY <1>1, <1>3, <1>4 DEF ConfigInv

\* What holds before a step that builds.
LEMMA Underway ==
  ASSUME ConfigInv, phase \notin {"plan", "done"}
  PROVE  /\ req \in Request /\ Fine(req, planned) /\ context \in Context(Watchable(planned))
         /\ context.error = "none" /\ built \in Nat /\ Bridged(req, context)
         /\ planned \in Seq(HopList) /\ Len(planned) <= Len(req.chains)
         /\ req.what \in {"profile", "selector", "test"}
<1>1. Typed(req, phase, built, planned, context) /\ Bridged(req, context)
  BY DEF ConfigInv
<1>2. /\ req \in Wanted /\ context \in Context(Watchable(planned)) /\ context.error = "none"
      /\ planned \in Seq(HopList) /\ Len(planned) <= Len(req.chains)
      /\ built \in 0..(Len(req.chains) + Len(req.routes) + Len(req.auxes))
  BY <1>1 DEF Typed
<1>3. req \in Request
  BY <1>2, ChainAssumption
<1>4. Fine(req, planned)
  BY <1>2 DEF ConfigInv, PlannedAs
<1>5. built \in Nat
  BY <1>2
<1>6. req.what \in {"profile", "selector", "test"}
  BY <1>3 DEF Request
<1>7. QED
  BY <1>1, <1>2, <1>3, <1>4, <1>5, <1>6

\* What a started configuration has by then.
LEMMA UnderwayBegun ==
  ASSUME ConfigInv, phase \notin {"plan", "done"}, req.what # "test"
  PROVE  \E n \in Nat, g \in BOOLEAN :
            /\ Begun(req, planned, context, phase, built, n, g)
            /\ KeptAll(req, planned, context, n)
<1>1. context.error = "none"
  BY Underway
<1>2. QED
  BY <1>1 DEF ConfigInv, LaidOut

\* The phases of a test are its own.
LEMMA NotTested ==
  ASSUME ConfigInv, phase \in {"main", "members", "group", "routes", "auxes"}
  PROVE  req.what # "test"
<1>1. context.error = "none"
  BY Underway
<1>2. QED
  BY <1>1 DEF ConfigInv, TestedAt

\* The first chain of n to build, after `built` others.
LEMMA BuiltFacts ==
  ASSUME req \in Request, built \in Nat, NEW n \in Nat, NEW c, NEW f, Built(c, n, f),
         n = 1 \/ n <= Len(req.chains) \/ n <= Len(req.routes) \/ n <= Len(req.auxes)
  PROVE  /\ built' \in 0..(Len(req.chains) + Len(req.routes) + Len(req.auxes))
         /\ context' = c /\ UNCHANGED <<req, outboundMap, planned>>
         /\ c.error # "none" => phase' = "done"
         /\ c.error = "none" /\ built + 1 < n => phase' = phase /\ built' = built + 1
         /\ c.error = "none" /\ ~(built + 1 < n) => phase' = f /\ built' = 0
<1>1. /\ context' = c /\ built' = IF built + 1 < n THEN built + 1 ELSE 0
      /\ phase' = IF c.error # "none" THEN "done" ELSE IF built + 1 < n THEN phase ELSE f
      /\ UNCHANGED <<req, outboundMap, planned>>
  BY DEF Built
<1>2. built' \in 0..(Len(req.chains) + Len(req.routes) + Len(req.auxes))
  <2> DEFINE x == IF built + 1 < n THEN built + 1 ELSE 0
             a == Len(req.chains)
             b == Len(req.routes)
             d == Len(req.auxes)
  <2>1. a \in Nat /\ b \in Nat /\ d \in Nat
    BY DEF Request
  <2>2. n = 1 \/ n <= a \/ n <= b \/ n <= d
    OBVIOUS
  <2> HIDE DEF a, b, d
  <2>3. x \in Nat /\ (x <= a \/ x <= b \/ x <= d)
    BY <2>1, <2>2
  <2> HIDE DEF x
  <2>4. x \in 0..(Len(req.chains) + Len(req.routes) + Len(req.auxes))
    BY <2>3, SmallBuilt DEF a, b, d
  <2>5. QED
    BY <1>1, <2>4 DEF x
<1>3. QED
  BY <1>1, <1>2

\* A step that fails keeps the invariant.
LEMMA FailKeeps ==
  ASSUME ConfigInv, phase \notin {"plan", "done"}, UNCHANGED <<req, outboundMap, planned>>,
         context' \in Context(Watchable(planned)), Bridged(req, context'), phase' = "done",
         context'.error # "none", Excused(req, context'),
         built' \in 0..(Len(req.chains) + Len(req.routes) + Len(req.auxes))
  PROVE  ConfigInv'
<1>1. LaidOut(req, phase', built', planned, context') /\ TestedAt(req, phase', built', planned, context')
  BY DEF LaidOut, TestedAt
<1>2. phase' \in Phases \ {"plan"}
  BY DEF Phases
<1>3. QED
  BY <1>1, <1>2, StepKeeps

LEMMA RefusedContext ==
  ASSUME NEW W, NEW c \in Context(W), NEW r, Refused(r.hops), NEW q, Bridged(q, c)
  PROVE  LET d == Chain(c, r)
         IN  /\ d \in Context(W) /\ d.error = "refused" /\ Bridged(q, d)
             /\ d.slot = c.slot /\ d.fulls = c.fulls /\ SameLayout(c, d)
<1> DEFINE d == [c EXCEPT !.error = "refused"]
<1>1. Chain(c, r) = d
  BY DEF Chain
<1>2. d \in Context(W) /\ SameLayout(c, d) /\ d.error = "refused" /\ d.slot = c.slot /\ d.fulls = c.fulls
  <2>1. "refused" \in Errors
    BY DEF Errors
  <2>2. QED
    BY <2>1, ErrorContext
<1> HIDE DEF d
<1>3. Bridged(q, d)
  BY <1>2, SamePairs
<1>4. QED
  BY <1>1, <1>2, <1>3

\* The chain of a profile comes first.
LEMMA MainKeeps ==
  ASSUME ConfigInv, Main
  PROVE  ConfigInv'
<1> DEFINE r == MainChain
           d == Chain(context, r)
<1>1. /\ phase = "main" /\ req \in Request /\ Fine(req, planned) /\ context \in Context(Watchable(planned))
      /\ context.error = "none" /\ built \in Nat /\ Bridged(req, context) /\ req.what # "test"
  BY Underway, NotTested DEF Main
<1>2. PICK n \in Nat, g \in BOOLEAN : /\ Begun(req, planned, context, phase, built, n, g)
                                      /\ KeptAll(req, planned, context, n)
  BY <1>1, UnderwayBegun
<1>3. req.what = "profile" /\ built = 0 /\ n = 0 /\ g = FALSE /\ Laying(req, planned, context, n, g)
  BY <1>1, <1>2 DEF Begun, Progress
<1>4. Len(planned) = 1 /\ 0 + 1 \in 1..Count(req, planned) /\ r = Order(req, planned, 0 + 1)
  <2>1. Len(planned) = 1 /\ Count(req, planned) \in Nat /\ Count(req, planned) >= 1
    <3>1. Len(planned) = 1
      BY <1>1, <1>3 DEF Fine
    <3> DEFINE R == Len(req.routes)
               A == Len(req.auxes)
    <3>2. R \in Nat /\ A \in Nat /\ Count(req, planned) = 1 + R + A
      BY <1>1, <3>1, CountFacts
    <3> HIDE DEF R, A
    <3>3. QED
      BY <3>1, <3>2
  <2>2. MainOf(req, planned) = r
    BY DEF MainOf, MainChain
  <2>3. QED
    BY <1>3, <2>1, <2>2 DEF Order
<1>5. Built(d, 1, After("group"))
  BY DEF Main
<1>6. /\ built' \in 0..(Len(req.chains) + Len(req.routes) + Len(req.auxes))
      /\ context' = d /\ UNCHANGED <<req, outboundMap, planned>>
      /\ d.error # "none" => phase' = "done"
      /\ d.error = "none" => phase' = After("group") /\ built' = 0
  <2> DEFINE one == 1
             f == After("group")
  <2>1. ~(built + 1 < one) /\ one \in Nat /\ one = 1
    BY <1>3
  <2>2. Built(d, one, f)
    BY <1>5
  <2> HIDE DEF d, one, f
  <2>3. /\ built' \in 0..(Len(req.chains) + Len(req.routes) + Len(req.auxes))
        /\ context' = d /\ UNCHANGED <<req, outboundMap, planned>>
        /\ d.error # "none" => phase' = "done"
        /\ d.error = "none" /\ ~(built + 1 < one) => phase' = f /\ built' = 0
    BY <1>1, <2>1, <2>2, BuiltFacts
  <2>4. QED
    BY <2>1, <2>3 DEF f
<1> HIDE DEF r
<1>7. CASE Refused(r.hops)
  <2>1. d \in Context(Watchable(planned)) /\ d.error = "refused" /\ Bridged(req, d)
    BY <1>1, <1>7, RefusedContext
  <2> HIDE DEF d
  <2>2. Excused(req, d)
    BY <1>3 DEF Excused
  <2>3. QED
    BY <1>1, <1>6, <2>1, <2>2, FailKeeps
<1>8. CASE ~Refused(r.hops)
  <2>1. Grown(req, planned, context, 0, FALSE, d)
    BY <1>1, <1>3, <1>4, <1>8, NextChain
  <2> HIDE DEF d
  <2>2. /\ d \in Context(Watchable(planned)) /\ d.error = "none" /\ Laying(req, planned, d, 0 + 1, FALSE)
        /\ Coupled(d.singToXray, d.xrayIngress, d.ports) /\ Coupled(d.xrayToSing, d.singIngress, d.ports)
        /\ d.fulls = context.fulls
        /\ d.slot = IF Range(r.hops) \cap FullXray = {} THEN context.slot
                    ELSE {[port |-> 2 * 0 + 1, own |-> ~r.sole]}
    BY <1>4, <2>1 DEF Grown
  <2>3. Bridged(req, d)
    BY <1>1, <1>3, <2>2 DEF Bridged
  <2>4. KeptAll(req, planned, d, 0 + 1)
    <3>1. CASE Range(r.hops) \cap FullXray = {}
      <4>1. d.slot = context.slot /\ KeptAll(req, planned, context, 0)
        BY <1>2, <1>3, <2>2, <3>1
      <4>2. context.slot \cup context.fulls \subseteq d.slot \cup d.fulls
        BY <2>2, <4>1
      <4>3. Range(Order(req, planned, 0 + 1).hops) \cap FullXray = {}
        BY <1>4, <3>1
      <4>4. QED
        BY <4>1, <4>2, <4>3, PlainKept
    <3>2. CASE Range(r.hops) \cap FullXray # {}
      <4> DEFINE own == ~r.sole
      <4>1. [port |-> 2 * 0 + 1, own |-> own] \in d.slot \cup d.fulls
        BY <2>2, <3>2
      <4> HIDE DEF own
      <4>2. KeptAll(req, planned, context, 0) /\ context.fulls \subseteq d.slot \cup d.fulls
        BY <1>2, <1>3, <2>2
      <4>3. QED
        BY <4>1, <4>2, FullKept
    <3>3. QED
      BY <3>1, <3>2
  <2>5. phase' = After("group") /\ built' = 0
    BY <1>6, <2>2
  <2>6. /\ Progress(After("group"), 0, req, planned, 1, FALSE)
        /\ After("group") \in {"routes", "auxes", "bridges"}
    BY <1>1, <1>3, <1>4, AfterProgress
  <2>7. 0 + 1 = 1
    OBVIOUS
  <2>8. LaidOut(req, phase', built', planned, context')
    <3>1. Doors(d, After("group"))
      BY <2>6 DEF Doors
    <3>2. Begun(req, planned, d, After("group"), 0, 1, FALSE)
      BY <1>3, <2>2, <2>6, <2>7, <3>1 DEF Begun
    <3>3. KeptAll(req, planned, d, 1)
      BY <2>4, <2>7
    <3>4. QED
      BY <1>6, <2>5, <3>2, <3>3 DEF LaidOut
  <2>9. TestedAt(req, phase', built', planned, context')
    BY <1>3 DEF TestedAt
  <2>10. Excused(req, d)
    BY <2>2 DEF Excused
  <2>11. phase' \in Phases \ {"plan"}
    BY <2>5, <2>6 DEF Phases
  <2>12. QED
    BY <1>1, <1>6, <2>2, <2>3, <2>8, <2>9, <2>10, <2>11, StepKeeps
<1>9. QED
  BY <1>7, <1>8

\* The chain of a route or an endpoint is laid out behind the others.
LEMMA PlainKeeps ==
  ASSUME ConfigInv, phase \in {"routes", "auxes"}, NEW n \in Nat, NEW g \in BOOLEAN,
         g = (req.what = "selector"), n + 1 \in 1..Count(req, planned), Len(planned) <= n,
         Begun(req, planned, context, phase, built, n, g), KeptAll(req, planned, context, n),
         ~Refused(Order(req, planned, n + 1).hops),
         context' = Chain(context, Order(req, planned, n + 1)),
         UNCHANGED <<req, outboundMap, planned>>,
         built' \in 0..(Len(req.chains) + Len(req.routes) + Len(req.auxes)),
         phase' \in {"routes", "auxes", "bridges"},
         Progress(phase', built', req, planned, n + 1, g)
  PROVE  ConfigInv'
<1> DEFINE r == Order(req, planned, n + 1)
           d == Chain(context, r)
<1>1. /\ req \in Request /\ Fine(req, planned) /\ context \in Context(Watchable(planned))
      /\ context.error = "none" /\ Bridged(req, context) /\ req.what # "test"
  BY Underway, NotTested
<1>2. Laying(req, planned, context, n, g) /\ (req.what = "selector" => Pooled(req, planned, context, n))
  BY DEF Begun
<1>3. Range(r.hops) \cap FullXray = {}
  <2>1. Ordered(req, planned, n + 1)
    BY <1>1, OrderFacts
  <2>2. Len(planned) \in Nat /\ ~(n + 1 <= Len(planned))
    <3>1. Len(planned) \in Nat
      BY <1>1, CountFacts
    <3>2. QED
      BY <3>1
  <2>3. QED
    BY <2>1, <2>2 DEF Ordered, Terminal
<1>4. Grown(req, planned, context, n, g, d)
  BY <1>1, <1>2, NextChain
<1>5. context' = d
  OBVIOUS
<1> HIDE DEF d
<1>6. /\ d \in Context(Watchable(planned)) /\ d.error = "none" /\ Laying(req, planned, d, n + 1, g)
      /\ Coupled(d.singToXray, d.xrayIngress, d.ports) /\ Coupled(d.xrayToSing, d.singIngress, d.ports)
      /\ d.fulls = context.fulls /\ d.pool = context.pool /\ d.slot = context.slot
  BY <1>3, <1>4 DEF Grown
<1>7. Bridged(req, d)
  BY <1>1, <1>6 DEF Bridged
<1>8. KeptAll(req, planned, d, n + 1)
  <2>1. context.slot \cup context.fulls \subseteq d.slot \cup d.fulls
    BY <1>6
  <2>2. Range(Order(req, planned, n + 1).hops) \cap FullXray = {}
    BY <1>3
  <2>3. QED
    BY <2>1, <2>2, PlainKept
<1> HIDE DEF r
<1>9. req.what = "selector" => Pooled(req, planned, d, n + 1)
  <2> DEFINE P == Len(planned)
             m == n + 1
  <2>1. P \in Nat /\ P <= n
    BY <1>1, CountFacts
  <2> HIDE DEF P
  <2>2. ~(m <= P)
    BY <2>1
  <2> HIDE DEF m
  <2>3. QED
    BY <1>2, <1>6, <2>1, <2>2 DEF Pooled, P, m
<1>10. Doors(d, phase')
  BY DEF Doors
<1>11. Begun(req, planned, d, phase', built', n + 1, g)
  BY <1>6, <1>9, <1>10 DEF Begun
<1>12. LaidOut(req, phase', built', planned, context')
  <2>1. n + 1 \in Nat
    OBVIOUS
  <2>2. QED
    BY <1>5, <1>8, <1>11, <2>1 DEF LaidOut
<1>13. TestedAt(req, phase', built', planned, context') /\ Excused(req, context')
  BY <1>1, <1>5, <1>6 DEF TestedAt, Excused
<1>14. phase' \in Phases \ {"plan"}
  BY DEF Phases
<1>15. QED
  BY <1>5, <1>6, <1>7, <1>12, <1>13, <1>14, StepKeeps

LEMMA RouteKeeps ==
  ASSUME ConfigInv, Route
  PROVE  ConfigInv'
<1> DEFINE r == RouteChain(built + 1)
           d == Chain(context, r)
           P == Len(planned)
           R == Len(req.routes)
           f == After("routes")
<1>1. /\ phase = "routes" /\ req \in Request /\ Fine(req, planned)
      /\ context \in Context(Watchable(planned))
      /\ context.error = "none" /\ built \in Nat /\ Bridged(req, context) /\ req.what # "test"
  BY Underway, NotTested DEF Route
<1>2. PICK n \in Nat, g \in BOOLEAN : /\ Begun(req, planned, context, phase, built, n, g)
                                      /\ KeptAll(req, planned, context, n)
  BY <1>1, UnderwayBegun
<1>3. built \in 0..R-1 /\ n = P + built /\ g = (req.what = "selector")
  BY <1>1, <1>2 DEF Begun, Progress
<1>4. P \in Nat /\ R \in Nat /\ Len(req.auxes) \in Nat /\ Count(req, planned) = P + R + Len(req.auxes)
  BY <1>1, CountFacts
<1>5. r = RouteOf(req, built + 1) /\ Built(d, R, f)
  BY DEF RouteOf, RouteChain, Route
<1> DEFINE A == Len(req.auxes)
<1> HIDE DEF P, R, A
<1>6. /\ n + 1 \in 1..Count(req, planned) /\ P <= n /\ n + 1 - P = built + 1 /\ built + 1 \in 1..R
      /\ n + 1 - P \in 1..R
  <2> DEFINE N == Count(req, planned)
  <2>1. N = P + R + A /\ A \in Nat
    BY <1>4 DEF A
  <2> HIDE DEF N
  <2>2. n + 1 \in 1..N
    BY <1>3, <1>4, <2>1
  <2>3. P <= n /\ n + 1 - P = built + 1 /\ built + 1 \in 1..R
    BY <1>3, <1>4
  <2>4. QED
    BY <2>2, <2>3 DEF N
<1>7. r = Order(req, planned, n + 1)
  <2> DEFINE k == n + 1
  <2>a. k \in 1..Count(req, planned)
    BY <1>6
  <2>b. k = n + 1
    OBVIOUS
  <2> HIDE DEF k
  <2>1. k - P \in 1..R /\ k - P = built + 1 /\ k \in 1..Count(req, planned)
    <3>1. k - P = built + 1 /\ built + 1 \in 1..R
      BY <1>3, <1>4, <2>b
    <3>2. QED
      BY <2>a, <3>1
  <2>2. IsRoute(req, planned, k)
    BY <2>1 DEF IsRoute, P, R
  <2>3. Order(req, planned, k) = RouteOf(req, k - P)
    BY <1>1, <2>1, <2>2, OrderKinds DEF P
  <2>4. QED
    BY <1>5, <2>1, <2>3 DEF k
<1> HIDE DEF d, f
<1>8. /\ built' \in 0..(Len(req.chains) + Len(req.routes) + Len(req.auxes))
      /\ context' = d /\ UNCHANGED <<req, outboundMap, planned>>
      /\ d.error # "none" => phase' = "done"
      /\ d.error = "none" /\ built + 1 < R => phase' = phase /\ built' = built + 1
      /\ d.error = "none" /\ ~(built + 1 < R) => phase' = f /\ built' = 0
  <2>1. R <= Len(req.routes)
    BY <1>4 DEF R
  <2>2. QED
    BY <1>1, <1>4, <1>5, <2>1, BuiltFacts
<1> HIDE DEF r
<1>9. CASE Refused(r.hops)
  <2>1. d \in Context(Watchable(planned)) /\ d.error = "refused" /\ Bridged(req, d)
    BY <1>1, <1>9, RefusedContext DEF d
  <2>2. Excused(req, d)
    <3>1. built + 1 \in DOMAIN req.routes
      BY <1>1, <1>6 DEF Request, R
    <3>2. r.hops = req.routes[built + 1]
      BY <1>5 DEF RouteOf, Asked
    <3>3. QED
      BY <1>9, <3>1, <3>2 DEF Excused
  <2>3. QED
    BY <1>1, <1>8, <2>1, <2>2, FailKeeps
<1>10. CASE ~Refused(r.hops)
  <2>1. d.error = "none"
    <3>1. Grown(req, planned, context, n, g, d)
      BY <1>1, <1>2, <1>3, <1>6, <1>7, <1>10, NextChain DEF Begun, d
    <3>2. QED
      BY <3>1 DEF Grown
  <2>2. /\ Progress(phase', built', req, planned, n + 1, g)
        /\ phase' \in {"routes", "auxes", "bridges"}
    <3>1. CASE built + 1 < R
      <4>1. phase' = "routes" /\ built' = built + 1
        BY <1>1, <1>8, <2>1, <3>1
      <4>2. built + 1 \in 0..R-1 /\ n + 1 = P + (built + 1)
        BY <1>3, <1>4, <3>1
      <4>3. QED
        BY <1>3, <4>1, <4>2 DEF Progress, P, R
    <3>2. CASE ~(built + 1 < R)
      <4>1. phase' = f /\ built' = 0
        BY <1>8, <2>1, <3>2
      <4>2. n + 1 = P + R
        BY <1>3, <1>4, <3>2
      <4>3. Progress(f, 0, req, planned, P + R, g) /\ f \in {"routes", "auxes", "bridges"}
        BY <1>1, <1>3, AfterProgress DEF P, R, f
      <4>4. QED
        BY <4>1, <4>2, <4>3
    <3>3. QED
      BY <3>1, <3>2
  <2>3. context' = Chain(context, Order(req, planned, n + 1))
    BY <1>7, <1>8 DEF d
  <2>4. QED
    BY <1>1, <1>2, <1>3, <1>6, <1>7, <1>8, <1>10, <2>2, <2>3, PlainKeeps DEF P
<1>11. QED
  BY <1>9, <1>10

LEMMA AuxKeeps ==
  ASSUME ConfigInv, Aux
  PROVE  ConfigInv'
<1> DEFINE r == AuxChain(built + 1)
           d == Chain(context, r)
           P == Len(planned)
           R == Len(req.routes)
           A == Len(req.auxes)
           f == "bridges"
<1>1. /\ phase = "auxes" /\ req \in Request /\ Fine(req, planned)
      /\ context \in Context(Watchable(planned))
      /\ context.error = "none" /\ built \in Nat /\ Bridged(req, context) /\ req.what # "test"
  BY Underway, NotTested DEF Aux
<1>2. PICK n \in Nat, g \in BOOLEAN : /\ Begun(req, planned, context, phase, built, n, g)
                                      /\ KeptAll(req, planned, context, n)
  BY <1>1, UnderwayBegun
<1>3. built \in 0..A-1 /\ n = P + R + built /\ g = (req.what = "selector")
  BY <1>1, <1>2 DEF Begun, Progress
<1>4. P \in Nat /\ R \in Nat /\ A \in Nat /\ Count(req, planned) = P + R + A
  BY <1>1, CountFacts
<1>5. r = AuxOf(req, built + 1) /\ Built(d, A, f)
  BY DEF AuxOf, AuxChain, Aux
<1> HIDE DEF P, R, A
<1>6. /\ n + 1 \in 1..Count(req, planned) /\ P <= n /\ n + 1 - P - R = built + 1
      /\ n + 1 - P - R \in 1..A
  BY <1>3, <1>4
<1>7. r = Order(req, planned, n + 1) /\ ~Refused(r.hops)
  <2> DEFINE k == n + 1
  <2>a. k \in 1..Count(req, planned)
    BY <1>6
  <2>b. k = n + 1
    OBVIOUS
  <2> HIDE DEF k
  <2>1. k - P - R \in 1..A /\ k - P - R = built + 1 /\ k \in 1..Count(req, planned)
    <3>1. k - P - R = built + 1 /\ built + 1 \in 1..A
      BY <1>3, <1>4, <2>b
    <3>2. QED
      BY <2>a, <3>1
  <2>2. IsAux(req, planned, k)
    BY <2>1 DEF IsAux, P, R, A
  <2>3. Order(req, planned, k) = AuxOf(req, k - P - R) /\ Ordered(req, planned, k)
    BY <1>1, <2>1, <2>2, OrderKinds, OrderFacts DEF P, R
  <2>4. ~Refused(Order(req, planned, k).hops)
    BY <2>2, <2>3 DEF Ordered
  <2>5. r = Order(req, planned, k)
    BY <1>5, <2>1, <2>3
  <2>6. QED
    BY <2>4, <2>5 DEF k
<1> HIDE DEF d, f
<1>8. /\ built' \in 0..(Len(req.chains) + Len(req.routes) + Len(req.auxes))
      /\ context' = d /\ UNCHANGED <<req, outboundMap, planned>>
      /\ d.error = "none" /\ built + 1 < A => phase' = phase /\ built' = built + 1
      /\ d.error = "none" /\ ~(built + 1 < A) => phase' = f /\ built' = 0
  <2>1. A <= Len(req.auxes) /\ A \in Nat
    BY <1>4 DEF A
  <2>2. req \in Request /\ built \in Nat /\ Built(d, A, f)
    BY <1>1, <1>5
  <2>3. QED
    BY <2>1, <2>2, BuiltFacts
<1> HIDE DEF r
<1>9. d.error = "none"
  <2>1. Grown(req, planned, context, n, g, d)
    BY <1>1, <1>2, <1>3, <1>6, <1>7, NextChain DEF Begun, d
  <2>2. QED
    BY <2>1 DEF Grown
<1>10. /\ Progress(phase', built', req, planned, n + 1, g)
       /\ phase' \in {"routes", "auxes", "bridges"}
  <2>1. CASE built + 1 < A
    <3>1. phase' = "auxes" /\ built' = built + 1
      BY <1>1, <1>8, <1>9, <2>1
    <3>2. built + 1 \in 0..A-1 /\ n + 1 = P + R + (built + 1)
      BY <1>3, <1>4, <2>1
    <3>3. QED
      BY <1>3, <3>1, <3>2 DEF Progress, P, R, A
  <2>2. CASE ~(built + 1 < A)
    <3>1. phase' = "bridges" /\ built' = 0
      BY <1>8, <1>9, <2>2 DEF f
    <3>2. n + 1 = Count(req, planned)
      BY <1>3, <1>4, <2>2
    <3>3. QED
      BY <1>3, <3>1, <3>2 DEF Progress
  <2>3. QED
    BY <2>1, <2>2
<1>11. context' = Chain(context, Order(req, planned, n + 1))
  BY <1>7, <1>8 DEF d
<1>12. QED
  BY <1>1, <1>2, <1>3, <1>6, <1>7, <1>8, <1>10, <1>11, PlainKeeps DEF P

\* The full configuration of a chain is its last hop.
LEMMA FullHops ==
  ASSUME NEW hops \in HopList, ~Refused(hops), Range(hops) \cap FullXray # {}
  PROVE  Last(hops) \in FullXray /\ ~ToXray(hops)
<1>1. hops \in Seq(Hop) /\ DOMAIN hops = 1..Len(hops)
  BY DEF HopList
<1>2. PICK i \in 1..Len(hops) : hops[i] \in FullXray
  BY <1>1 DEF Range
<1>3. i = Len(hops) /\ ~ToXray(hops)
  BY <1>2, FullIsLast
<1>4. QED
  BY <1>2, <1>3 DEF Last

\* A member is known by a tag, and its full configuration is an instance of its own.
Joined(d, e, t) ==
    /\ SameLayout(d, e) /\ e.error = d.error /\ e.watch = d.watch
    /\ e.slot = {} /\ e.fulls = d.fulls \cup d.slot /\ e.pool = Append(d.pool, t)
    /\ e.singIn = d.singIn /\ e.xrayIn = d.xrayIn

LEMMA JoinedContext ==
  ASSUME NEW W, NEW d \in Context(W), NEW t \in Tags
  PROVE  /\ [Drained(d) EXCEPT !.pool = Append(@, t)] \in Context(W)
         /\ Joined(d, [Drained(d) EXCEPT !.pool = Append(@, t)], t)
<1> DEFINE c == Drained(d)
           e == [c EXCEPT !.pool = Append(@, t)]
<1>1. /\ c \in Context(W) /\ SameLayout(d, c) /\ c.error = d.error /\ c.watch = d.watch
      /\ c.slot = {} /\ c.fulls = d.fulls \cup d.slot /\ c.pool = d.pool
      /\ c.singIn = d.singIn /\ c.xrayIn = d.xrayIn
  BY DrainedContext
<1> HIDE DEF c
<1>2. /\ e \in Context(W) /\ SameLayout(c, e) /\ e.error = c.error /\ e.watch = c.watch
      /\ e.slot = c.slot /\ e.fulls = c.fulls /\ e.pool = Append(c.pool, t)
      /\ e.singIn = c.singIn /\ e.xrayIn = c.xrayIn
  BY <1>1, PoolContext
<1> HIDE DEF e
<1>3. SameLayout(d, e)
  BY <1>1, <1>2 DEF SameLayout
<1>4. QED
  BY <1>1, <1>2, <1>3 DEF Joined, c, e

\* One member more is known by its entry.
LEMMA PooledNext ==
  ASSUME NEW q, NEW pl, NEW c, c.pool \in Seq(Tags), NEW n \in Nat, Len(pl) \in Nat, n < Len(pl),
         Pooled(q, pl, c, n), EntryTag(Order(q, pl, n + 1)) \in Tags,
         NEW d, d.pool = Append(c.pool, EntryTag(Order(q, pl, n + 1)))
  PROVE  Pooled(q, pl, d, n + 1)
<1> DEFINE P == Len(pl)
           s == c.pool
           t == EntryTag(Order(q, pl, n + 1))
           m == n + 1
           u == Append(s, t)
<1>1. s \in Seq(Tags) /\ t \in Tags /\ P \in Nat /\ n < P
  OBVIOUS
<1>2. Len(s) = n /\ \A i \in 1..Len(s) : s[i] = EntryTag(Order(q, pl, i))
  BY DEF Pooled
<1>3. t = EntryTag(Order(q, pl, m))
  OBVIOUS
<1> HIDE DEF P, s, t
<1>4. Len(u) = n + 1 /\ u[n + 1] = t /\ \A i \in 1..n : u[i] = s[i]
  BY <1>1, <1>2
<1> HIDE DEF u
<1>5. ASSUME NEW i \in 1..n+1 PROVE u[i] = EntryTag(Order(q, pl, i))
  <2>1. CASE i \in 1..n
    BY <1>2, <1>4, <2>1
  <2>2. CASE i = n + 1
    BY <1>3, <1>4, <2>2
  <2>3. QED
    BY <2>1, <2>2
<1>6. m = n + 1 /\ (P <= m => m = P)
  BY <1>1
<1> HIDE DEF m
<1>7. d.pool = u
  BY DEF u, s, t, m
<1>8. Pooled(q, pl, d, m)
  BY <1>4, <1>5, <1>6, <1>7 DEF Pooled, P
<1>9. QED
  BY <1>8 DEF m

LEMMA MemberKeeps ==
  ASSUME ConfigInv, Member
  PROVE  ConfigInv'
<1> DEFINE r == MemberChain(built + 1)
           t == EntryTag(r)
           d == Chain(context, r)
           e == [Drained(d) EXCEPT !.pool = Append(@, t)]
           P == Len(planned)
           W == Watchable(planned)
           f == "group"
<1>1. /\ phase = "members" /\ req \in Request /\ Fine(req, planned) /\ context \in Context(W)
      /\ context.error = "none" /\ built \in Nat /\ Bridged(req, context) /\ req.what # "test"
      /\ P <= Len(req.chains)
  BY Underway, NotTested DEF Member
<1>2. PICK n \in Nat, g \in BOOLEAN : /\ Begun(req, planned, context, phase, built, n, g)
                                      /\ KeptAll(req, planned, context, n)
  BY <1>1, UnderwayBegun
<1>3. /\ req.what = "selector" /\ built \in 0..P-1 /\ n = built /\ g = FALSE
      /\ Laying(req, planned, context, n, FALSE) /\ Pooled(req, planned, context, n)
  BY <1>1, <1>2 DEF Begun, Progress
<1>4. P \in Nat
  BY <1>1, CountFacts
<1>5. Built(e, P, f)
  BY DEF Member
<1>6. r = MemberOf(planned, built + 1)
  BY DEF MemberOf, MemberChain
<1>7. context.slot = {} /\ context.pool \in Seq(Tags)
  BY <1>1, <1>3 DEF Bridged, Context
<1> HIDE DEF P, W, f
<1>8. n + 1 \in 1..P /\ n < P /\ built = n /\ n + 1 \in 1..Count(req, planned)
  <2> DEFINE R == Len(req.routes)
             A == Len(req.auxes)
             N == Count(req, planned)
  <2>1. R \in Nat /\ A \in Nat /\ N = P + R + A
    BY <1>1, CountFacts DEF P
  <2> HIDE DEF R, A, N
  <2>2. n + 1 \in 1..P /\ n < P /\ built = n /\ n + 1 \in 1..N
    BY <1>3, <1>4, <2>1
  <2>3. QED
    BY <2>2 DEF N
<1> HIDE DEF d, e
<1>9. /\ r = Order(req, planned, n + 1)
      /\ Plainly(r, planned[n + 1], <<"pool", n + 1 - 1>>, 0, Last(planned[n + 1]) \in FullXray)
  <2> DEFINE k == n + 1
  <2>1. k \in 1..P /\ k \in 1..Count(req, planned) /\ r = MemberOf(planned, k)
    BY <1>6, <1>8
  <2> HIDE DEF k, r
  <2>2. IsMember(req, planned, k)
    BY <1>3, <2>1 DEF IsMember, P
  <2>3. Order(req, planned, k) = MemberOf(planned, k)
    BY <1>1, <2>1, <2>2, OrderKinds
  <2>4. Plainly(MemberOf(planned, k), planned[k], <<"pool", k - 1>>, 0, Last(planned[k]) \in FullXray)
    BY <1>1, <2>1, MemberFacts DEF P
  <2>5. QED
    BY <2>1, <2>3, <2>4 DEF k
<1>10. d = Chain(context, r)
  BY DEF d
<1>11. e = [Drained(d) EXCEPT !.pool = Append(@, t)]
  BY DEF e
<1> HIDE DEF r
<1>12. Sound(r) /\ r.hops = planned[n + 1] /\ r.sole = (Last(planned[n + 1]) \in FullXray)
  BY <1>9 DEF Plainly
<1>13. r.hops \in HopList /\ t \in Tags
  <2>1. r \in AskType
    BY <1>12 DEF Sound
  <2>2. r.prefix \in Tags \ {<<>>} /\ r.start \in Nat /\ r.hops \in HopList
    BY <2>1 DEF AskType
  <2>3. QED
    BY <2>2, TagFacts DEF EntryTag
<1> HIDE DEF t
<1>14. /\ built' \in 0..(Len(req.chains) + Len(req.routes) + Len(req.auxes))
       /\ context' = e /\ UNCHANGED <<req, outboundMap, planned>>
       /\ e.error # "none" => phase' = "done"
       /\ e.error = "none" /\ built + 1 < P => phase' = phase /\ built' = built + 1
       /\ e.error = "none" /\ ~(built + 1 < P) => phase' = f /\ built' = 0
  BY <1>1, <1>4, <1>5, BuiltFacts
<1>15. CASE Refused(r.hops)
  <2>1. /\ d \in Context(W) /\ d.error = "refused" /\ Bridged(req, d) /\ d.slot = {}
    BY <1>1, <1>7, <1>10, <1>15, RefusedContext
  <2>2. e \in Context(W) /\ Joined(d, e, t)
    BY <1>11, <1>13, <2>1, JoinedContext
  <2>3. Bridged(req, e) /\ e.error = "refused"
    <3>1. SameLayout(d, e) /\ e.error = "refused" /\ e.fulls = d.fulls /\ e.slot = {}
      BY <2>1, <2>2 DEF Joined
    <3>2. QED
      BY <2>1, <3>1, SamePairs
  <2>4. Excused(req, e)
    <3>1. \A i \in 1..P : Refused(planned[i]) => req.front \in FullXray \/ req.landing \in Terminal
      BY <1>1, <1>3 DEF ConfigInv, PlannedAs, P
    <3>2. QED
      BY <1>8, <1>12, <1>15, <3>1 DEF Excused
  <2>5. QED
    BY <1>1, <1>14, <2>2, <2>3, <2>4, FailKeeps DEF W
<1>16. CASE ~Refused(r.hops)
  <2>1. Grown(req, planned, context, n, FALSE, d)
    BY <1>1, <1>3, <1>8, <1>9, <1>10, <1>16, NextChain DEF W
  <2>2. /\ d \in Context(W) /\ d.error = "none" /\ Laying(req, planned, d, n + 1, FALSE)
        /\ Coupled(d.singToXray, d.xrayIngress, d.ports) /\ Coupled(d.xrayToSing, d.singIngress, d.ports)
        /\ d.fulls = context.fulls /\ d.pool = context.pool
        /\ d.slot = IF Range(r.hops) \cap FullXray = {} THEN {}
                    ELSE {[port |-> 2 * n + 1, own |-> ~r.sole]}
    BY <1>7, <1>9, <2>1 DEF Grown, W
  <2>3. e \in Context(W) /\ Joined(d, e, t)
    BY <1>11, <1>13, <2>2, JoinedContext
  <2>4. /\ SameLayout(d, e) /\ e.error = "none" /\ e.watch = d.watch /\ e.slot = {}
        /\ e.fulls = context.fulls \cup d.slot /\ e.pool = Append(context.pool, t)
    BY <2>2, <2>3 DEF Joined
  <2>5. \A x \in d.slot : x.own = FALSE
    <3>1. CASE Range(r.hops) \cap FullXray = {}
      BY <2>2, <3>1
    <3>2. CASE Range(r.hops) \cap FullXray # {}
      <4> DEFINE own == ~r.sole
      <4>1. own = FALSE
        BY <1>12, <1>13, <1>16, <3>2, FullHops
      <4>2. d.slot = {[port |-> 2 * n + 1, own |-> own]}
        BY <2>2, <3>2
      <4> HIDE DEF own
      <4>3. QED
        BY <4>1, <4>2
    <3>3. QED
      BY <3>1, <3>2
  <2>6. Bridged(req, e)
    BY <1>1, <2>2, <2>4, <2>5 DEF Bridged, SameLayout
  <2>7. Laying(req, planned, e, n + 1, FALSE)
    BY <2>2, <2>4, LayingStays DEF SameLayout
  <2>8. Pooled(req, planned, e, n + 1)
    BY <1>3, <1>4, <1>7, <1>8, <1>9, <1>13, <2>4, PooledNext DEF P, t
  <2>9. KeptAll(req, planned, e, n + 1)
    <3>1. CASE Range(r.hops) \cap FullXray = {}
      <4>1. context.slot \cup context.fulls \subseteq e.slot \cup e.fulls
        BY <1>7, <2>4
      <4>2. Range(Order(req, planned, n + 1).hops) \cap FullXray = {}
        BY <1>9, <3>1
      <4>3. QED
        BY <1>2, <4>1, <4>2, PlainKept
    <3>2. CASE Range(r.hops) \cap FullXray # {}
      <4> DEFINE own == ~r.sole
      <4>1. [port |-> 2 * n + 1, own |-> own] \in e.slot \cup e.fulls
        BY <2>2, <2>4, <3>2
      <4> HIDE DEF own
      <4>2. context.fulls \subseteq e.slot \cup e.fulls
        BY <2>4
      <4>3. QED
        BY <1>2, <1>7, <4>1, <4>2, FullKept
    <3>3. QED
      BY <3>1, <3>2
  <2>10. /\ Progress(phase', built', req, planned, n + 1, FALSE)
         /\ phase' \in {"members", "group"}
    <3>1. CASE built + 1 < P
      <4>1. phase' = "members" /\ built' = built + 1
        BY <1>1, <1>14, <2>4, <3>1
      <4>2. built + 1 \in 0..P-1 /\ n + 1 = built + 1
        BY <1>3, <1>4, <3>1
      <4>3. QED
        BY <1>3, <4>1, <4>2 DEF Progress, P
    <3>2. CASE ~(built + 1 < P)
      <4>1. phase' = "group" /\ built' = 0
        BY <1>14, <2>4, <3>2 DEF f
      <4>2. n + 1 = P
        BY <1>3, <1>4, <3>2
      <4>3. QED
        BY <1>3, <4>1, <4>2 DEF Progress, P
    <3>3. QED
      BY <3>1, <3>2
  <2>11. LaidOut(req, phase', built', planned, context')
    <3>1. Doors(e, phase')
      BY <2>10 DEF Doors
    <3>2. Begun(req, planned, e, phase', built', n + 1, FALSE)
      BY <2>7, <2>8, <2>10, <3>1 DEF Begun
    <3>3. n + 1 \in Nat
      OBVIOUS
    <3>4. QED
      BY <1>14, <2>9, <3>2, <3>3 DEF LaidOut
  <2>12. TestedAt(req, phase', built', planned, context') /\ Excused(req, context')
    BY <1>1, <1>14, <2>4 DEF TestedAt, Excused
  <2>13. phase' \in Phases \ {"plan"} /\ (phase' # "done" => context'.error = "none")
    BY <1>14, <2>4, <2>10 DEF Phases
  <2>14. QED
    BY <1>1, <1>14, <2>3, <2>6, <2>11, <2>12, <2>13, StepKeeps DEF W
<1>17. QED
  BY <1>15, <1>16

\* The group of a selector, as it changes the context.
GroupAll(pl) == [tag |-> Proxy, hops |-> FlattenSeq(pl)]
Grouped(q, pl, c) ==
    [c EXCEPT !.sing = @ \o <<GroupOut(IF q.warp THEN WarpBypass ELSE Proxy)>>
                         \o (IF q.warp THEN <<WarpOut>> ELSE <<>>),
              !.watch = IF q.warp THEN <<GroupAll(pl)>> ELSE @]

GroupAdded(q, pl, c, d) ==
    /\ d.sing = (c.sing \o <<GroupOut(IF q.warp THEN WarpBypass ELSE Proxy)>>)
                  \o (IF q.warp THEN <<WarpOut>> ELSE <<>>)
    /\ d.watch = IF q.warp THEN <<GroupAll(pl)>> ELSE c.watch
    /\ d.xray = c.xray /\ d.singToXray = c.singToXray
    /\ d.xrayIngress = c.xrayIngress /\ d.xrayToSing = c.xrayToSing
    /\ d.singIngress = c.singIngress /\ d.ports = c.ports /\ d.error = c.error
    /\ d.slot = c.slot /\ d.fulls = c.fulls /\ d.pool = c.pool
    /\ d.sing \in Seq(OutType) => d \in Context(Watchable(pl))

LEMMA GroupFields ==
  ASSUME NEW q, NEW pl, NEW c \in Context(Watchable(pl)),
         NEW d, d = Grouped(q, pl, c)
  PROVE  GroupAdded(q, pl, c, d)
<1> DEFINE s == (c.sing \o <<GroupOut(IF q.warp THEN WarpBypass ELSE Proxy)>>)
                  \o (IF q.warp THEN <<WarpOut>> ELSE <<>>)
           W == Watchable(pl)
           w == IF q.warp THEN <<GroupAll(pl)>> ELSE c.watch
<1>1. w \in Seq([tag : Tags, hops : W])
  <2> DEFINE all == GroupAll(pl)
  <2>1. all \in [tag : Tags, hops : W]
    <3>1. FlattenSeq(pl) \in W /\ Proxy \in Tags
      BY TagFacts DEF Watchable
    <3> HIDE DEF W
    <3>2. QED
      BY <3>1 DEF GroupAll
  <2>2. c.watch \in Seq([tag : Tags, hops : W])
    BY DEF Context
  <2> HIDE DEF all, W
  <2>3. <<all>> \in Seq([tag : Tags, hops : W])
    BY <2>1
  <2>4. QED
    BY <2>2, <2>3 DEF all
<1>2. d = [c EXCEPT !.sing = s, !.watch = w]
  BY DEF Grouped
<1> HIDE DEF s, w, W
<1>3. /\ d.sing = s /\ d.watch = w
      /\ d.xray = c.xray /\ d.singToXray = c.singToXray
      /\ d.xrayIngress = c.xrayIngress /\ d.xrayToSing = c.xrayToSing
      /\ d.singIngress = c.singIngress /\ d.ports = c.ports /\ d.error = c.error
      /\ d.slot = c.slot /\ d.fulls = c.fulls /\ d.pool = c.pool
  BY <1>2 DEF Context
<1>4. c \in Context(W)
  BY DEF W
<1>5. s \in Seq(OutType) => d \in Context(W)
  BY <1>1, <1>2, <1>4 DEF Context
<1>6. QED
  BY <1>3, <1>5 DEF s, w, W, GroupAdded

LEMMA GroupKeeps ==
  ASSUME ConfigInv, Group
  PROVE  ConfigInv'
<1> DEFINE d == Grouped(req, planned, context)
           W == Watchable(planned)
           P == Len(planned)
           f == After("group")
<1>1. /\ phase = "group" /\ req \in Request /\ Fine(req, planned) /\ context \in Context(W)
      /\ context.error = "none" /\ built \in Nat /\ Bridged(req, context) /\ req.what # "test"
  BY Underway, NotTested DEF Group
<1>2. PICK n \in Nat, g \in BOOLEAN : /\ Begun(req, planned, context, phase, built, n, g)
                                      /\ KeptAll(req, planned, context, n)
  BY <1>1, UnderwayBegun
<1>3. /\ req.what = "selector" /\ built = 0 /\ n = P /\ Laying(req, planned, context, n, FALSE)
      /\ Pooled(req, planned, context, n)
  BY <1>1, <1>2 DEF Begun, Progress
<1>4. Built(d, 1, f)
  BY DEF Group, Grouped, GroupOut, WarpOut, GroupAll
<1>5. P \in 0..Count(req, planned)
  <2> DEFINE R == Len(req.routes)
             A == Len(req.auxes)
             N == Count(req, planned)
  <2>1. P \in Nat /\ R \in Nat /\ A \in Nat /\ N = P + R + A
    BY <1>1, CountFacts
  <2> HIDE DEF P, R, A, N
  <2>2. P \in 0..N
    BY <2>1
  <2>3. QED
    BY <2>2 DEF N
<1> DEFINE e == d
           all == GroupAll(planned)
<1>6. e = Grouped(req, planned, context) /\ all.tag = Proxy
  BY DEF GroupAll
<1> HIDE DEF d, e
<1>7. /\ e.sing = (context.sing \o <<GroupOut(IF req.warp THEN WarpBypass ELSE Proxy)>>)
                    \o (IF req.warp THEN <<WarpOut>> ELSE <<>>)
      /\ e.watch = IF req.warp THEN <<all>> ELSE context.watch
      /\ e.xray = context.xray /\ e.singToXray = context.singToXray
      /\ e.xrayIngress = context.xrayIngress /\ e.xrayToSing = context.xrayToSing
      /\ e.singIngress = context.singIngress /\ e.ports = context.ports /\ e.error = context.error
      /\ e.slot = context.slot /\ e.fulls = context.fulls /\ e.pool = context.pool
      /\ e.sing \in Seq(OutType) => e \in Context(W)
  <2>1. GroupAdded(req, planned, context, e)
    BY <1>1, <1>6, GroupFields
  <2>2. QED
    BY <2>1 DEF GroupAdded
<1> HIDE DEF all
<1>8. Laying(req, planned, e, n, TRUE) /\ e.sing \in Seq(OutType)
  <2>1. n \in 0..Count(req, planned) /\ req.what # "profile"
    BY <1>3, <1>5
  <2>2. QED
    BY <1>1, <1>3, <1>6, <1>7, <2>1, GroupLays
<1>9. /\ built' \in 0..(Len(req.chains) + Len(req.routes) + Len(req.auxes))
      /\ context' = e /\ UNCHANGED <<req, outboundMap, planned>>
      /\ phase' = f /\ built' = 0
  <2> DEFINE one == 1
  <2>1. ~(built + 1 < one) /\ one \in Nat /\ one = 1
    BY <1>3
  <2>2. Built(e, one, f) /\ e.error = "none"
    BY <1>1, <1>4, <1>7 DEF e
  <2> HIDE DEF one, f
  <2>3. /\ built' \in 0..(Len(req.chains) + Len(req.routes) + Len(req.auxes))
        /\ context' = e /\ UNCHANGED <<req, outboundMap, planned>>
        /\ e.error = "none" /\ ~(built + 1 < one) => phase' = f /\ built' = 0
    BY <1>1, <2>1, <2>2, BuiltFacts
  <2>4. QED
    BY <2>1, <2>2, <2>3 DEF f
<1>10. Progress(f, 0, req, planned, n, TRUE) /\ f \in {"routes", "auxes", "bridges"}
  BY <1>1, <1>3, AfterProgress
<1> HIDE DEF f
<1>11. Bridged(req, e)
  BY <1>1, <1>7 DEF Bridged
<1>12. LaidOut(req, phase', built', planned, context')
  <2>1. Doors(e, f)
    BY <1>10 DEF Doors
  <2>2. Pooled(req, planned, e, n)
    BY <1>3, <1>7 DEF Pooled
  <2>3. Begun(req, planned, e, phase', built', n, TRUE)
    BY <1>8, <1>9, <1>10, <2>1, <2>2 DEF Begun
  <2>4. KeptAll(req, planned, e, n)
    BY <1>2, <1>7 DEF KeptAll, KeptUp
  <2>5. QED
    BY <1>9, <2>3, <2>4 DEF LaidOut
<1>13. TestedAt(req, phase', built', planned, context') /\ Excused(req, context')
  BY <1>1, <1>7, <1>9 DEF TestedAt, Excused
<1>14. phase' \in Phases \ {"plan"} /\ context'.error = "none" /\ context' \in Context(W)
  BY <1>1, <1>7, <1>8, <1>9, <1>10 DEF Phases
<1>15. QED
  BY <1>1, <1>9, <1>11, <1>12, <1>13, <1>14, StepKeeps

\* Nothing is built but what leads to the bridges and the configuration of Xray.
LEMMA Finishing ==
  ASSUME ConfigInv, phase \in {"bridges", "xray"}
  PROVE  /\ built = 0
         /\ req.what # "test" =>
              \E n \in Nat, g \in BOOLEAN :
                 /\ Begun(req, planned, context, phase, 0, n, g) /\ n = Count(req, planned)
                 /\ g = (req.what = "selector") /\ KeptAll(req, planned, context, n)
<1>1. context.error = "none"
  BY Underway
<1>2. CASE req.what = "test"
  BY <1>1, <1>2 DEF ConfigInv, TestedAt
<1>3. CASE req.what # "test"
  <2>1. PICK n \in Nat, g \in BOOLEAN : /\ Begun(req, planned, context, phase, built, n, g)
                                        /\ KeptAll(req, planned, context, n)
    BY <1>3, UnderwayBegun
  <2>2. built = 0 /\ n = Count(req, planned) /\ g = (req.what = "selector")
    BY <2>1 DEF Begun, Progress
  <2>3. QED
    BY <2>1, <2>2
<1>4. QED
  BY <1>2, <1>3

\* The same chains stand in a context of the same outbounds and bridges.
LEMMA StillBegun ==
  ASSUME NEW q, NEW pl, NEW c, NEW f, NEW n, NEW g, Begun(q, pl, c, f, 0, n, g),
         NEW d, SameLayout(c, d), d.watch = c.watch, d.pool = c.pool,
         NEW h, Progress(h, 0, q, pl, n, g), Doors(d, h)
  PROVE  Begun(q, pl, d, h, 0, n, g)
<1>1. Laying(q, pl, c, n, g) /\ (q.what = "selector" => Pooled(q, pl, c, n))
  BY DEF Begun
<1>2. Laying(q, pl, d, n, g)
  BY <1>1, LayingStays DEF SameLayout
<1>3. q.what = "selector" => Pooled(q, pl, d, n)
  BY <1>1 DEF Pooled
<1>4. QED
  BY <1>2, <1>3 DEF Begun

LEMMA WaysBackKeeps ==
  ASSUME ConfigInv, WaysBack
  PROVE  ConfigInv'
<1> DEFINE ps == context.xrayToSing
           ins == context.singIngress
           S == {[port |-> ps[i], out |-> IF req.what = "test" THEN NoTag ELSE ins[i]] : i \in DOMAIN ps}
           d == [context EXCEPT !.singIn = S]
           W == Watchable(planned)
<1>1. /\ phase = "bridges" /\ req \in Request /\ Fine(req, planned) /\ context \in Context(W)
      /\ context.error = "none" /\ built \in Nat /\ Bridged(req, context) /\ built = 0
  BY Underway, Finishing DEF WaysBack
<1>2. ps \in Seq(Nat) /\ ins \in Seq(Tags) /\ Len(ps) = Len(ins)
  BY <1>1 DEF Bridged, Coupled
<1>3. Built(d, 1, "xray")
  BY <1>2 DEF WaysBack
<1> HIDE DEF W
<1>4. S \in SUBSET [port : Nat, out : Tags]
  <2>1. CASE req.what = "test"
    <3> HIDE DEF ps
    <3>1. S = {[port |-> ps[i], out |-> NoTag] : i \in DOMAIN ps}
      BY <2>1
    <3>2. NoTag \in Tags
      BY TagFacts
    <3>3. QED
      BY <1>2, <3>1, <3>2
  <2>2. CASE req.what # "test"
    <3> HIDE DEF ps, ins
    <3>1. S = {[port |-> ps[i], out |-> ins[i]] : i \in DOMAIN ps}
      BY <2>2
    <3>2. {[port |-> ps[i], out |-> ins[i]] : i \in DOMAIN ps} \in SUBSET [port : Nat, out : Tags]
      BY <1>2, DoorsTyped
    <3>3. QED
      BY <3>1, <3>2
  <2>3. QED
    BY <2>1, <2>2
<1>5. req.what # "test" =>
        S = {[port |-> context.xrayToSing[i], out |-> context.singIngress[i]]
               : i \in DOMAIN context.xrayToSing}
  OBVIOUS
<1> HIDE DEF S, ps, ins
<1>6. /\ d \in Context(W) /\ SameLayout(context, d) /\ d.error = "none" /\ d.watch = context.watch
      /\ d.slot = context.slot /\ d.fulls = context.fulls /\ d.pool = context.pool
      /\ d.singIn = S
  <2>1. d \in Context(W)
    BY <1>1, <1>4 DEF Context
  <2>2. SameLayout(context, d) /\ d.watch = context.watch /\ d.error = context.error
        /\ d.slot = context.slot /\ d.fulls = context.fulls /\ d.pool = context.pool
        /\ d.singIn = S
    BY <1>1 DEF Context, SameLayout
  <2>3. QED
    BY <1>1, <2>1, <2>2
<1> HIDE DEF d
<1>7. /\ built' \in 0..(Len(req.chains) + Len(req.routes) + Len(req.auxes))
      /\ context' = d /\ UNCHANGED <<req, outboundMap, planned>>
      /\ phase' = "xray" /\ built' = 0
  <2> DEFINE one == 1
             f == "xray"
  <2>1. ~(built + 1 < one) /\ one \in Nat /\ one = 1
    BY <1>1
  <2>2. Built(d, one, f) /\ req \in Request /\ built \in Nat
    BY <1>1, <1>3
  <2> HIDE DEF one, f
  <2>3. /\ built' \in 0..(Len(req.chains) + Len(req.routes) + Len(req.auxes))
        /\ context' = d /\ UNCHANGED <<req, outboundMap, planned>>
        /\ d.error = "none" /\ ~(built + 1 < one) => phase' = f /\ built' = 0
    BY <2>1, <2>2, BuiltFacts
  <2>4. QED
    BY <1>6, <2>1, <2>3 DEF f
<1>8. Bridged(req, d)
  <2>1. d.error # "mismatch"
    BY <1>6
  <2>2. QED
    BY <1>1, <1>6, <2>1, SamePairs
<1>9. LaidOut(req, phase', built', planned, context')
  <2> SUFFICES ASSUME req.what # "test"
               PROVE  \E n \in Nat, g \in BOOLEAN :
                         /\ Begun(req, planned, d, "xray", 0, n, g) /\ KeptAll(req, planned, d, n)
    BY <1>7 DEF LaidOut
  <2>1. PICK n \in Nat, g \in BOOLEAN :
           /\ Begun(req, planned, context, phase, 0, n, g) /\ n = Count(req, planned)
           /\ g = (req.what = "selector") /\ KeptAll(req, planned, context, n)
    BY <1>1, Finishing
  <2>2. Progress("xray", 0, req, planned, n, g)
    BY <2>1 DEF Progress
  <2>3. Doors(d, "xray")
    BY <1>5, <1>6 DEF Doors, SameLayout
  <2>4. Begun(req, planned, d, "xray", 0, n, g)
    BY <1>6, <2>1, <2>2, <2>3, StillBegun
  <2>5. KeptAll(req, planned, d, n)
    BY <1>6, <2>1 DEF KeptAll, KeptUp
  <2>6. QED
    BY <2>4, <2>5
<1>10. TestedAt(req, phase', built', planned, context') /\ Excused(req, context')
  BY <1>6, <1>7 DEF TestedAt, Excused
<1>11. phase' \in Phases \ {"plan"}
  BY <1>7 DEF Phases
<1>12. QED
  BY <1>1, <1>6, <1>7, <1>8, <1>9, <1>10, <1>11, StepKeeps DEF W

\* What enters Xray has a hop of Xray.
LEMMA NoXrayHop ==
  ASSUME NEW hops \in HopList, Range(hops) \cap Xray = {}
  PROVE  ~ToXray(hops)
<1>1. \A i \in DOMAIN hops : hops[i] \notin Xray
  BY DEF Range
<1>2. QED
  BY <1>1 DEF ToXray, Crossings, InXray

\* The configuration of Xray takes the slot of nobody, but in the case left out.
LEMMA SlotFree ==
  ASSUME Fine(req, planned), req.what = "profile", ~Taken(req, planned), context.xray # <<>>,
         NEW n \in Nat, NEW g, n = Count(req, planned), Laying(req, planned, context, n, g)
  PROVE  \A k \in 1..n : Range(Order(req, planned, k).hops) \cap FullXray = {}
<1>1. ASSUME NEW k \in 1..n
      PROVE  /\ Ordered(req, planned, k)
             /\ k \in 1..Count(req, planned) /\ ~Refused(Order(req, planned, k).hops)
  BY <1>1, OrderFacts DEF Laying
<1>2. ASSUME NEW k \in 1..n
      PROVE  /\ IsMain(req, planned, k) \/ IsRoute(req, planned, k) \/ IsAux(req, planned, k)
             /\ IsMain(req, planned, k) => k <= Len(planned) /\ k = 1
             /\ k <= Len(planned) => k = 1
  <2>1. k \in 1..Count(req, planned)
    BY <1>1
  <2>2. QED
    BY <2>1, OrderKinds DEF IsMember, IsMain
<1>3. CASE Last(planned[1]) \in FullXray
  <2>1. HopsOf(req.routes) \cap Xray = {}
    BY <1>3 DEF Taken
  <2>2. PICK k \in 1..n : ToXray(Order(req, planned, k).hops)
    BY DEF Laying
  <2> DEFINE r == Order(req, planned, k)
  <2>3. /\ r.hops \in HopList /\ ~Refused(r.hops)
        /\ k <= Len(planned) => r.hops = planned[k]
        /\ IsRoute(req, planned, k) => Range(r.hops) \subseteq HopsOf(req.routes)
        /\ IsAux(req, planned, k) => ~ToXray(r.hops)
    BY <1>1 DEF Ordered
  <2> HIDE DEF r
  <2>4. ToXray(r.hops)
    BY <2>2 DEF r
  <2>5. CASE IsMain(req, planned, k)
    <3>1. r.hops = planned[1]
      BY <1>2, <2>3, <2>5
    <3>2. Last(r.hops) \in FullXray /\ r.hops # <<>>
      BY <1>3, <2>3, <3>1 DEF HopList
    <3>3. QED
      BY <2>3, <2>4, <3>2 DEF Refused
  <2>6. CASE IsRoute(req, planned, k)
    <3>1. Range(r.hops) \cap Xray = {}
      BY <2>1, <2>3, <2>6
    <3>2. QED
      BY <2>3, <2>4, <3>1, NoXrayHop
  <2>7. CASE IsAux(req, planned, k)
    BY <2>3, <2>4, <2>7
  <2>8. QED
    BY <1>2, <2>5, <2>6, <2>7
<1>4. CASE Last(planned[1]) \notin FullXray
  <2> SUFFICES ASSUME NEW k \in 1..n
               PROVE  Range(Order(req, planned, k).hops) \cap FullXray = {}
    OBVIOUS
  <2> DEFINE r == Order(req, planned, k)
  <2>1. /\ r.hops \in HopList /\ ~Refused(r.hops)
        /\ k <= Len(planned) => r.hops = planned[k]
        /\ ~(k <= Len(planned)) => Range(r.hops) \cap Terminal = {}
    BY <1>1 DEF Ordered
  <2> HIDE DEF r
  <2>2. CASE k <= Len(planned)
    <3>1. r.hops = planned[1]
      BY <1>2, <2>1, <2>2
    <3>2. Range(r.hops) \cap FullXray = {}
      BY <1>4, <2>1, <3>1, FullHops
    <3>3. QED
      BY <3>2 DEF r
  <2>3. CASE ~(k <= Len(planned))
    BY <2>1, <2>3 DEF Terminal, r
  <2>4. QED
    BY <2>2, <2>3
<1>5. QED
  BY <1>3, <1>4

LEMMA XrayKeeps ==
  ASSUME ConfigInv, XrayConfig
  PROVE  ConfigInv'
<1> DEFINE ps == context.singToXray
           ins == context.xrayIngress
           S == {[port |-> ps[i], out |-> ins[i]] : i \in DOMAIN ps}
           d == IF context.xray = <<>> THEN context
                ELSE [context EXCEPT !.slot = {}, !.xrayIn = S]
           W == Watchable(planned)
<1>1. /\ phase = "xray" /\ req \in Request /\ Fine(req, planned) /\ context \in Context(W)
      /\ context.error = "none" /\ built \in Nat /\ Bridged(req, context) /\ built = 0
      /\ req.what \in {"profile", "selector", "test"}
  BY Underway, Finishing DEF XrayConfig
<1>2. ps \in Seq(Nat) /\ ins \in Seq(Tags) /\ Len(ps) = Len(ins)
  BY <1>1 DEF Bridged, Coupled
<1>3. Built(d, 1, "done")
  <2>1. Len(ins) = Len(ps)
    BY <1>2
  <2>2. QED
    BY <2>1 DEF XrayConfig
<1> HIDE DEF W
<1>4. S \in SUBSET [port : Nat, out : Tags]
  <2> HIDE DEF ps, ins
  <2>1. QED
    BY <1>2, DoorsTyped
<1>5. S = {[port |-> context.singToXray[i], out |-> context.xrayIngress[i]]
               : i \in DOMAIN context.singToXray}
  OBVIOUS
<1> HIDE DEF S, ps, ins
<1>6. /\ d \in Context(W) /\ SameLayout(context, d) /\ d.error = "none" /\ d.watch = context.watch
      /\ d.fulls = context.fulls /\ d.pool = context.pool /\ d.singIn = context.singIn
      /\ context.xray # <<>> => d.slot = {} /\ d.xrayIn = S
      /\ context.xray = <<>> => d = context
      /\ d.slot = context.slot \/ d.slot = {}
  <2>1. CASE context.xray = <<>>
    BY <1>1, <2>1 DEF SameLayout
  <2>2. CASE context.xray # <<>>
    <3> DEFINE e == [context EXCEPT !.slot = {}, !.xrayIn = S]
    <3>1. e \in Context(W)
      BY <1>1, <1>4 DEF Context
    <3>2. /\ SameLayout(context, e) /\ e.error = context.error /\ e.watch = context.watch
          /\ e.fulls = context.fulls /\ e.pool = context.pool /\ e.singIn = context.singIn
          /\ e.slot = {} /\ e.xrayIn = S
      BY <1>1 DEF Context, SameLayout
    <3>3. d = e
      BY <2>2
    <3> HIDE DEF d, e
    <3>4. QED
      BY <1>1, <2>2, <3>1, <3>2, <3>3
  <2>3. QED
    BY <2>1, <2>2
<1> HIDE DEF d
<1>7. /\ built' \in 0..(Len(req.chains) + Len(req.routes) + Len(req.auxes))
      /\ context' = d /\ UNCHANGED <<req, outboundMap, planned>>
      /\ phase' = "done" /\ built' = 0
  <2> DEFINE one == 1
             f == "done"
  <2>1. ~(built + 1 < one) /\ one \in Nat /\ one = 1
    BY <1>1
  <2>2. Built(d, one, f) /\ req \in Request /\ built \in Nat
    BY <1>1, <1>3
  <2> HIDE DEF one, f
  <2>3. /\ built' \in 0..(Len(req.chains) + Len(req.routes) + Len(req.auxes))
        /\ context' = d /\ UNCHANGED <<req, outboundMap, planned>>
        /\ d.error = "none" /\ ~(built + 1 < one) => phase' = f /\ built' = 0
    BY <2>1, <2>2, BuiltFacts
  <2>4. QED
    BY <1>6, <2>1, <2>3 DEF f
<1>8. Bridged(req, d)
  <2>1. d.error # "mismatch"
    BY <1>6
  <2>2. QED
    BY <1>1, <1>6, <2>1, SamePairs
<1>9. LaidOut(req, phase', built', planned, context')
  <2> SUFFICES ASSUME req.what # "test"
               PROVE  \E n \in Nat, g \in BOOLEAN :
                         /\ Begun(req, planned, d, "done", 0, n, g)
                         /\ ~Taken(req, planned) => KeptAll(req, planned, d, n)
    BY <1>7 DEF LaidOut
  <2>1. PICK n \in Nat, g \in BOOLEAN :
           /\ Begun(req, planned, context, phase, 0, n, g) /\ n = Count(req, planned)
           /\ g = (req.what = "selector") /\ KeptAll(req, planned, context, n)
    BY <1>1, Finishing
  <2>2. Progress("done", 0, req, planned, n, g)
    BY <2>1 DEF Progress
  <2>3. Doors(d, "done")
    <3>1. Doors(context, "xray")
      BY <1>1, <2>1 DEF Begun
    <3>2. QED
      BY <1>5, <1>6, <3>1 DEF Doors, SameLayout
  <2>4. Begun(req, planned, d, "done", 0, n, g)
    BY <1>6, <2>1, <2>2, <2>3, StillBegun
  <2>5. ASSUME ~Taken(req, planned) PROVE KeptAll(req, planned, d, n)
    <3>1. CASE d.slot = context.slot
      BY <1>6, <2>1, <3>1 DEF KeptAll, KeptUp
    <3>2. CASE d.slot # context.slot
      <4>1. context.xray # <<>> /\ context.slot # {}
        BY <1>6, <3>2
      <4>2. req.what = "profile"
        BY <1>1, <4>1 DEF Bridged
      <4>3. Laying(req, planned, context, n, g)
        BY <2>1 DEF Begun
      <4>4. \A k \in 1..n : Range(Order(req, planned, k).hops) \cap FullXray = {}
        BY <1>1, <2>1, <2>5, <4>1, <4>2, <4>3, SlotFree
      <4>5. QED
        BY <4>4 DEF KeptAll, KeptUp
    <3>3. QED
      BY <3>1, <3>2
  <2>6. QED
    BY <2>4, <2>5
<1>10. TestedAt(req, phase', built', planned, context') /\ Excused(req, context')
  BY <1>6, <1>7 DEF TestedAt, Excused
<1>11. phase' \in Phases \ {"plan"}
  BY <1>7 DEF Phases
<1>12. QED
  BY <1>1, <1>6, <1>7, <1>8, <1>9, <1>10, <1>11, StepKeeps DEF W

\* A full configuration that is tested by itself is not refused.
LEMMA AloneIsBuilt ==
  ASSUME NEW hops \in HopList, Len(hops) = 1, hops[1] \in FullXray
  PROVE  ~Refused(hops) /\ Range(hops) \cap FullXray # {}
<1>1. hops \in Seq(Hop) /\ hops[1] \notin Xray /\ DOMAIN hops = {1}
  BY ChainAssumption DEF HopList, Terminal
<1>2. Range(hops) = {hops[1]}
  BY <1>1 DEF Range
<1>3. Crossings(hops) = {}
  <2> SUFFICES ASSUME NEW i \in Crossings(hops) PROVE FALSE
    OBVIOUS
  <2>1. i \in 1..Len(hops) /\ ((hops[i] \in Xray) # (i > 1 /\ hops[i - 1] \in Xray))
    BY <1>1, CrossingFacts
  <2>2. i = 1
    BY <2>1
  <2>3. QED
    BY <1>1, <2>1, <2>2
<1>4. Cardinality(Crossings(hops)) = 0 /\ ~ToXray(hops)
  BY <1>3, FS_EmptySet DEF ToXray
<1>5. \A i \in DOMAIN hops : i = Len(hops)
  BY <1>1
<1>6. QED
  BY <1>2, <1>4, <1>5 DEF Refused

\* What is built of a candidate.
Probed(q, c, r, W, d) ==
    /\ d \in Context(W) /\ d.error = "none" /\ d.fulls = c.fulls
    /\ Coupled(d.singToXray, d.xrayIngress, d.ports) /\ Coupled(d.xrayToSing, d.singIngress, d.ports)
    /\ Range(r.hops) \cap FullXray # {} => d.slot = {[port |-> c.ports + 1, own |-> ~r.sole]}

LEMMA ProbedChain ==
  ASSUME NEW q, NEW W, NEW c \in Context(W), c.error = "none", Bridged(q, c),
         NEW r, Sound(r), ~Refused(r.hops), r.hops \in W
  PROVE  Probed(q, c, r, W, Chain(c, r))
<1> DEFINE d == Chain(c, r)
<1>1. d \in Context(W) /\ Added(c, r, d)
  BY ChainFields
<1>2. Coupled(c.singToXray, c.xrayIngress, c.ports) /\ Coupled(c.xrayToSing, c.singIngress, c.ports)
  BY DEF Bridged
<1>3. Coupled(d.singToXray, d.xrayIngress, c.ports + 2) /\ Coupled(d.xrayToSing, d.singIngress, c.ports + 2)
  BY <1>2, ChainPairs
<1> HIDE DEF d
<1>4. d.ports = c.ports + 2 /\ d.fulls = c.fulls /\ d.error = "none"
      /\ (Range(r.hops) \cap FullXray # {} => d.slot = {[port |-> c.ports + 1, own |-> ~r.sole]})
  BY <1>1 DEF Added
<1>5. QED
  BY <1>1, <1>3, <1>4 DEF Probed, d

LEMMA CandidateKeeps ==
  ASSUME ConfigInv, Candidate
  PROVE  ConfigInv'
<1> DEFINE stored == req.chains[built + 1]
           hops   == planned[built + 1]
           alone  == Len(stored) = 1 /\ stored[1] \in FullXray
           word   == IF alone THEN "xrayfull" ELSE "proxy"
           prefix == <<word, built + 1>>
           r      == Asked(hops, prefix, 0, TRUE)
           s      == [r EXCEPT !.sole = TRUE]
           c      == IF alone THEN Drained(Chain(context, s)) ELSE Chain(context, r)
           d      == IF Skipped(stored) THEN [context EXCEPT !.pool = Append(@, NoTag)]
                     ELSE [c EXCEPT !.pool = Append(@, EntryTag(r))]
           P == Len(planned)
           W == Watchable(planned)
           f == "bridges"
<1>1. /\ phase = "candidates" /\ req \in Request /\ Fine(req, planned) /\ context \in Context(W)
      /\ context.error = "none" /\ built \in Nat /\ Bridged(req, context)
      /\ planned \in Seq(HopList) /\ P <= Len(req.chains)
  BY Underway DEF Candidate
<1>2. req.what = "test"
  <2> SUFFICES ASSUME req.what # "test" PROVE FALSE
    OBVIOUS
  <2>1. PICK n \in Nat, g \in BOOLEAN : Begun(req, planned, context, phase, built, n, g)
    BY <1>1, UnderwayBegun
  <2>2. QED
    BY <1>1, <2>1 DEF Begun, Progress
<1>3. built \in 0..P-1 /\ P \in Nat
  BY <1>1, <1>2, CountFacts DEF ConfigInv, TestedAt
<1>4. \A i \in 1..P :
         Len(req.chains[i]) = 1 /\ req.chains[i][1] \in FullXray => planned[i] = req.chains[i]
  BY <1>1, <1>2 DEF ConfigInv, PlannedAs
<1>5. Built(d, P, f)
  BY DEF Candidate
<1> HIDE DEF P, W, f
<1>6. built + 1 \in 1..P /\ built + 1 \in Nat
  BY <1>3
<1>7. hops \in HopList /\ hops \in W
  <2>1. built + 1 \in 1..Len(planned)
    BY <1>6 DEF P
  <2>2. hops \in HopList
    BY <1>1, <2>1
  <2> HIDE DEF hops
  <2>3. QED
    BY <2>2 DEF W, Watchable, HopList
<1>8. alone => Len(hops) = 1 /\ hops[1] \in FullXray
  BY <1>4, <1>6
<1>9. prefix \in Tags \ {<<>>}
  <2>1. word \in Word /\ built + 1 \in Word
    BY <1>6, Words
  <2> HIDE DEF word
  <2>2. QED
    BY <2>1, TwoWords
<1> HIDE DEF prefix, hops
<1>10. Plainly(r, hops, prefix, 0, FALSE) /\ Plainly(s, hops, prefix, 0, TRUE)
  <2>1. 0 \in Nat /\ TRUE \in BOOLEAN
    OBVIOUS
  <2>2. QED
    BY <1>7, <1>9, <2>1, AskedFacts
<1>11. d = IF Skipped(stored) THEN [context EXCEPT !.pool = Append(@, NoTag)]
           ELSE [c EXCEPT !.pool = Append(@, EntryTag(r))]
  OBVIOUS
<1>12. c = IF alone THEN Drained(Chain(context, s)) ELSE Chain(context, r)
  OBVIOUS
<1> HIDE DEF c, d, r, s, alone, stored
<1>13. EntryTag(r) \in Tags /\ NoTag \in Tags
  BY <1>9, <1>10, TagFacts DEF EntryTag, Plainly
<1>14. /\ Sound(r) /\ r.hops = hops /\ Sound(s) /\ s.hops = hops /\ s.sole = TRUE
  BY <1>10 DEF Plainly
<1>15. c \in Context(W) /\ Bridged(req, c) /\ c.error \in {"none", "refused"}
  <2>1. CASE alone
    <3> DEFINE e == Chain(context, s)
               own == ~s.sole
    <3>1. ~Refused(s.hops) /\ Range(s.hops) \cap FullXray # {}
      BY <1>7, <1>8, <1>14, <2>1, AloneIsBuilt
    <3>2. Probed(req, context, s, W, e)
      BY <1>1, <1>7, <1>14, <3>1, ProbedChain
    <3> HIDE DEF e
    <3>3. /\ e \in Context(W) /\ e.error = "none" /\ e.fulls = context.fulls
          /\ Coupled(e.singToXray, e.xrayIngress, e.ports) /\ Coupled(e.xrayToSing, e.singIngress, e.ports)
          /\ e.slot = {[port |-> context.ports + 1, own |-> own]}
      BY <3>1, <3>2 DEF Probed
    <3>4. own = FALSE
      BY <1>14
    <3> HIDE DEF own
    <3>5. c = Drained(e)
      BY <1>12, <2>1 DEF e
    <3>6. /\ c \in Context(W) /\ SameLayout(e, c) /\ c.error = "none" /\ c.slot = {}
          /\ c.fulls = e.fulls \cup e.slot
      BY <3>3, <3>5, DrainedContext
    <3>7. \A x \in c.fulls : x.own = FALSE
      <4>1. \A x \in e.slot : x.own = FALSE
        BY <3>3, <3>4
      <4>2. QED
        BY <1>1, <3>3, <3>6, <4>1 DEF Bridged
    <3>8. Bridged(req, c)
      BY <3>3, <3>6, <3>7 DEF Bridged, SameLayout
    <3>9. QED
      BY <3>6, <3>8
  <2>2. CASE ~alone /\ ~Refused(hops)
    <3>1. c = Chain(context, r)
      BY <1>12, <2>2
    <3>2. Probed(req, context, r, W, c)
      BY <1>1, <1>7, <1>14, <2>2, <3>1, ProbedChain
    <3>3. Bridged(req, c)
      BY <1>1, <1>2, <3>2 DEF Probed, Bridged
    <3>4. QED
      BY <3>2, <3>3 DEF Probed
  <2>3. CASE ~alone /\ Refused(hops)
    <3>1. c = Chain(context, r)
      BY <1>12, <2>3
    <3>2. QED
      BY <1>1, <1>14, <2>3, <3>1, RefusedContext
  <2>4. QED
    BY <2>1, <2>2, <2>3
<1>16. d \in Context(W) /\ Bridged(req, d) /\ d.error \in {"none", "refused"}
  <2>1. ASSUME NEW x \in Context(W), Bridged(req, x), x.error \in {"none", "refused"}, NEW t \in Tags
        PROVE  LET y == [x EXCEPT !.pool = Append(@, t)]
               IN  y \in Context(W) /\ Bridged(req, y) /\ y.error \in {"none", "refused"}
    <3> DEFINE y == [x EXCEPT !.pool = Append(@, t)]
    <3>1. y \in Context(W) /\ SameLayout(x, y) /\ y.error = x.error
          /\ y.slot = x.slot /\ y.fulls = x.fulls
      BY <2>1, PoolContext
    <3> HIDE DEF y
    <3>2. y.error # "mismatch"
      BY <2>1, <3>1
    <3>3. Bridged(req, y)
      BY <2>1, <3>1, <3>2, SamePairs
    <3>4. QED
      BY <2>1, <3>1, <3>3 DEF y
  <2>2. QED
    BY <1>1, <1>11, <1>13, <1>15, <2>1
<1>17. /\ built' \in 0..(Len(req.chains) + Len(req.routes) + Len(req.auxes))
       /\ context' = d /\ UNCHANGED <<req, outboundMap, planned>>
       /\ d.error # "none" => phase' = "done"
       /\ d.error = "none" /\ built + 1 < P => phase' = phase /\ built' = built + 1
       /\ d.error = "none" /\ ~(built + 1 < P) => phase' = f /\ built' = 0
  <2>1. req \in Request /\ built \in Nat /\ P \in Nat /\ P <= Len(req.chains) /\ Built(d, P, f)
    BY <1>1, <1>3, <1>5
  <2>2. QED
    BY <2>1, BuiltFacts
<1>18. Excused(req, context')
  BY <1>2 DEF Excused
<1>19. CASE d.error # "none"
  BY <1>1, <1>16, <1>17, <1>18, <1>19, FailKeeps DEF W
<1>20. CASE d.error = "none"
  <2>1. \/ phase' = "candidates" /\ built' \in 0..P-1
        \/ phase' = "bridges" /\ built' = 0
    <3>1. CASE built + 1 < P
      <4>1. built + 1 \in 0..P-1
        BY <1>3, <3>1
      <4>2. QED
        BY <1>1, <1>17, <1>20, <3>1, <4>1
    <3>2. CASE ~(built + 1 < P)
      BY <1>17, <1>20, <3>2 DEF f
    <3>3. QED
      BY <3>1, <3>2
  <2>2. TestedAt(req, phase', built', planned, context')
    BY <2>1 DEF TestedAt, P
  <2>3. LaidOut(req, phase', built', planned, context')
    BY <1>2 DEF LaidOut
  <2>4. phase' \in Phases \ {"plan"} /\ context'.error = "none"
    BY <1>17, <1>20, <2>1 DEF Phases
  <2>5. QED
    BY <1>1, <1>16, <1>17, <1>18, <2>2, <2>3, <2>4, StepKeeps DEF W
<1>21. QED
  BY <1>19, <1>20

LEMMA InitKeeps ==
  ASSUME ConfigInit
  PROVE  ConfigInv
<1>1. /\ req \in Wanted /\ phase = "plan" /\ built = 0 /\ planned = <<>> /\ context = EmptyContext
  BY DEF ConfigInit
<1>2. req \in Request /\ EmptyContext \in Context(Watchable(planned)) /\ EmptyContext.error = "none"
  BY <1>1, ChainAssumption, EmptyTyped DEF EmptyContext
<1>3. Typed(req, phase, built, planned, context)
  <2>1. 0 \in 0..(Len(req.chains) + Len(req.routes) + Len(req.auxes)) /\ 0 <= Len(req.chains)
    <3>1. Len(req.chains) \in Nat /\ 0 \in Nat /\ 0 <= Len(req.chains)
      BY <1>2 DEF Request
    <3>2. QED
      BY <1>2, <3>1, SmallBuilt
  <2>2. <<>> \in Seq(HopList) /\ Len(<<>>) = 0
    OBVIOUS
  <2>3. QED
    BY <1>1, <1>2, <2>1, <2>2 DEF Typed, Phases
<1>4. Bridged(req, context)
  <2> DEFINE e == <<>>
  <2>1. /\ context.singToXray = e /\ context.xrayToSing = e /\ context.singIngress = e
        /\ context.xrayIngress = e /\ context.slot = {} /\ context.fulls = {} /\ context.ports = 0
        /\ context.error = "none"
    BY <1>1 DEF EmptyContext
  <2>2. e \in Seq(Nat) /\ e \in Seq(Tags) /\ Len(e) = 0 /\ 1..0 = {}
    OBVIOUS
  <2> HIDE DEF e
  <2>3. Coupled(e, e, 0)
    BY <2>2 DEF Coupled
  <2>4. QED
    BY <2>1, <2>3 DEF Bridged
<1>5. QED
  BY <1>1, <1>2, <1>3, <1>4 DEF ConfigInv, PlannedAs, LaidOut, TestedAt, Excused

LEMMA NextKeeps ==
  ASSUME ConfigInv, [ConfigNext]_configVars
  PROVE  ConfigInv'
<1>1. CASE Plan
  BY <1>1, PlanKeeps
<1>2. CASE Main
  BY <1>2, MainKeeps
<1>3. CASE Member
  BY <1>3, MemberKeeps
<1>4. CASE Group
  BY <1>4, GroupKeeps
<1>5. CASE Route
  BY <1>5, RouteKeeps
<1>6. CASE Aux
  BY <1>6, AuxKeeps
<1>7. CASE Candidate
  BY <1>7, CandidateKeeps
<1>8. CASE WaysBack
  BY <1>8, WaysBackKeeps
<1>9. CASE XrayConfig
  BY <1>9, XrayKeeps
<1>10. CASE UNCHANGED configVars
  BY <1>10 DEF ConfigInv, configVars
<1>11. QED
  BY <1>1, <1>2, <1>3, <1>4, <1>5, <1>6, <1>7, <1>8, <1>9, <1>10 DEF ConfigNext

-----------------------------------------------------------------------------
(* The theorems                                                                *)

\* At every step of a build, what is laid out so far is a prefix of what was planned:
\* its tags are distinct, its bridges are paired, its full configurations are served.
\* (buildOutboundsSection and BuildTestConfig, between any two of their steps.)
THEOREM ConfigInvariant == ConfigSpec => []ConfigInv
<1>1. ConfigInit => ConfigInv
  BY InitKeeps
<1>2. ConfigInv /\ [ConfigNext]_configVars => ConfigInv'
  BY NextKeeps
<1>3. QED
  BY <1>1, <1>2, PTL DEF ConfigSpec

\* The state of a build has its type, whatever is asked for.
THEOREM ConfigTypeTheorem == ConfigSpec => []ConfigTypeOK
<1>1. ConfigInv => ConfigTypeOK
  <2> SUFFICES ASSUME ConfigInv PROVE ConfigTypeOK
    OBVIOUS
  <2>1. Typed(req, phase, built, planned, context)
    BY DEF ConfigInv
  <2>2. req \in Request
    BY <2>1, ChainAssumption DEF Typed
  <2>3. \A i \in DOMAIN planned : planned[i] \in Seq(Hop)
    BY <2>1 DEF Typed, HopList
  <2>4. DOMAIN context = DOMAIN EmptyContext /\ context.error \in {"none", "invalid", "refused", "mismatch"}
    <3>1. context \in Context(Watchable(planned))
      BY <2>1 DEF Typed
    <3>2. QED
      BY <3>1 DEF Context, EmptyContext
  <2>5. QED
    BY <2>1, <2>2, <2>3, <2>4 DEF ConfigTypeOK, Typed, Phases
<1>2. QED
  BY <1>1, ConfigInvariant, PTL

\* A started configuration carries the traffic of every chain through exactly the hops it
\* lists, in their order, over both cores and every bridge; the rules and the watched
\* outbounds reach what they were given before it was built; no member that was planned
\* fails the others; and no two instances of Xray take the inbounds of a user's
\* configuration. It holds for chains of any length and any number of them.
\* (buildOutboundChain with buildSingboxChain, buildXrayChain, bridgesFor and
\* buildXrayConfig, against calculatePrerequisites.)
THEOREM ChainsCarriedTheorem == ConfigSpec => []ChainsAreCarried
<1>1. ConfigInv => ChainsAreCarried
  <2> SUFFICES ASSUME ConfigInv PROVE ChainsAreCarried
    OBVIOUS
  <2>1. context.error # "mismatch" /\ \A f \in context.fulls : f.own = FALSE
    BY DEF ConfigInv, Bridged
  <2>2. PlannedIsBuilt
    BY DEF ConfigInv, Excused, PlannedIsBuilt
  <2>3. ASSUME Entered({"profile", "selector"}), ~SlotTaken
        PROVE  EntriesCarried /\ RulesCarried /\ WatchedIsPassed
    <3>1. phase = "done" /\ req.what \in {"profile", "selector"} /\ context.error = "none"
      BY <2>3 DEF Entered
    <3>2. Fine(req, planned) /\ outboundMap = MapOf(req)
      BY <3>1 DEF ConfigInv, PlannedAs
    <3>3. ~Taken(req, planned)
      BY <2>3 DEF Taken, SlotTaken
    <3>4. PICK n \in Nat, g \in BOOLEAN : /\ Begun(req, planned, context, phase, built, n, g)
                                          /\ KeptAll(req, planned, context, n)
      BY <3>1, <3>3 DEF ConfigInv, LaidOut
    <3>5. Begun(req, planned, context, "done", built, n, g)
      BY <3>1, <3>4
    <3>6. QED
      BY <3>1, <3>2, <3>4, <3>5, Finished
  <2>4. Cardinality({f \in context.fulls : f.own}) <= 1
    <3>1. {f \in context.fulls : f.own} = {}
      BY <2>1
    <3>2. Cardinality({}) = 0
      BY FS_EmptySet
    <3>3. QED
      BY <3>1, <3>2
  <2>5. QED
    BY <2>1, <2>2, <2>3, <2>4 DEF ChainsAreCarried
<1>2. QED
  BY <1>1, ConfigInvariant, PTL
=============================================================================
