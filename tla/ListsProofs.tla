----------------------------- MODULE ListsProofs ----------------------------
(* What the operators of Lists return, for lists of any length. An induction   *)
(* over a set of numbers (Induction) takes the place of the schemes of the     *)
(* library, which need an operator as a parameter: it gives that a function    *)
(* computed step by step exists (Computed), hence that the recursive ones of   *)
(* Lists unfold (Filtered, Inserted), and every lemma about them after that.   *)
EXTENDS Lists, Functions, WellFoundedInduction, TLAPS

(* A set that has 0, and after each number its successor, has them all.       *)
LEMMA Induction ==
  ASSUME NEW S, 0 \in S, NEW n \in Nat, \A i \in 0..n-1 : i \in S => i + 1 \in S
  PROVE  n \in S
<1> DEFINE R == {ss \in Nat \X Nat : ss[1] < ss[2]}
           T == {i \in 0..n : i \notin S}
<1> SUFFICES ASSUME n \notin S PROVE FALSE
  OBVIOUS
<1>1. IsWellFoundedOn(R, Nat)
  BY NatLessThanWellFounded DEF OpToRel
<1>2. T \subseteq Nat /\ T # {}
  OBVIOUS
<1>3. PICK x \in T : \A y \in T : ~(<<y, x>> \in R)
  <2> HIDE DEF T, R
  <2> QED BY <1>1, <1>2, WFMin
<1>4. x # 0 /\ x - 1 \in 0..n-1
  OBVIOUS
<1>5. <<x - 1, x>> \in R
  BY <1>4
<1>6. x - 1 \notin T
  <2> HIDE DEF R
  <2> QED BY <1>3, <1>5
<1>7. x - 1 \in S
  BY <1>4, <1>6
<1>8. x - 1 + 1 = x
  BY <1>4
<1>9. QED
  BY <1>4, <1>7, <1>8

\* Something goes from b through n steps in A.
Computes(A, b, n, step) ==
    \E g \in [0..n -> A] : g[0] = b /\ \A i \in 1..n : g[i] = step[i][g[i-1]]

\* What is computed from step to step exists.
LEMMA Computed ==
  ASSUME NEW A, NEW b \in A, NEW n \in Nat, NEW step \in [1..n -> [A -> A]]
  PROVE  Computes(A, b, n, step)
<1> DEFINE Good(m) == \E g \in [0..m -> A] : g[0] = b /\ \A i \in 1..m : g[i] = step[i][g[i-1]]
           S == {m \in 0..n : Good(m)}
<1>1. 0 \in S
  <2> DEFINE h == [i \in 0..0 |-> b]
  <2>1. h \in [0..0 -> A] /\ h[0] = b /\ \A i \in 1..0 : h[i] = step[i][h[i-1]]
    OBVIOUS
  <2>2. Good(0)
    <3> HIDE DEF h
    <3> QED BY <2>1
  <2>3. QED
    <3> HIDE DEF Good
    <3> QED BY <2>2
<1>2. ASSUME NEW m \in 0..n-1, m \in S PROVE m + 1 \in S
  <2>1. PICK g \in [0..m -> A] : g[0] = b /\ \A i \in 1..m : g[i] = step[i][g[i-1]]
    BY <1>2
  <2> DEFINE h == [i \in 0..m+1 |-> IF i = m+1 THEN step[m+1][g[m]] ELSE g[i]]
  <2>2. h \in [0..m+1 -> A]
    OBVIOUS
  <2>3. h[0] = b
    BY <2>1
  <2>4. ASSUME NEW i \in 1..m+1 PROVE h[i] = step[i][h[i-1]]
    <3>1. CASE i = m + 1
      BY <3>1
    <3>2. CASE i # m + 1
      BY <3>2, <2>1
    <3>3. QED BY <3>1, <3>2
  <2>5. QED
    <3> HIDE DEF h
    <3> QED BY <2>2, <2>3, <2>4
<1>3. n \in S
  <2> HIDE DEF S
  <2> QED BY <1>1, <1>2, Induction
<1>4. QED
  BY <1>3 DEF Computes

\* The lists Filter goes through.
LEMMA Filtered ==
  ASSUME NEW X, NEW s \in Seq(X), NEW T
  PROVE  \E f : /\ f[0] = <<>>
                /\ \A i \in 1..Len(s) :
                      f[i] = IF s[i] \in T THEN Append(f[i-1], s[i]) ELSE f[i-1]
                /\ Filter(s, T) = f[Len(s)]
<1> DEFINE N == Len(s)
           A == Seq(X)
           b == <<>>
           step == [i \in 1..N |-> [a \in A |-> IF s[i] \in T THEN Append(a, s[i]) ELSE a]]
           body(f) == [n \in 0..N |->
                         IF n = 0 THEN <<>>
                         ELSE IF s[n] \in T THEN Append(f[n - 1], s[n])
                         ELSE f[n - 1]]
           F == CHOOSE f : f = body(f)
<1>1. N \in Nat /\ b \in A /\ \A i \in 1..N : s[i] \in X
  OBVIOUS
<1>2. step \in [1..N -> [A -> A]]
  BY <1>1
<1>3. PICK g \in [0..N -> A] : g[0] = b /\ \A i \in 1..N : g[i] = step[i][g[i-1]]
  <2>1. N \in Nat /\ b \in A
    BY <1>1
  <2> HIDE DEF step, N, A, b, body, F
  <2>2. Computes(A, b, N, step)
    BY <2>1, <1>2, Computed
  <2>3. QED
    BY <2>2 DEF Computes
<1>4. ASSUME NEW i \in 1..N
      PROVE  g[i] = IF s[i] \in T THEN Append(g[i-1], s[i]) ELSE g[i-1]
  <2>1. g[i-1] \in A
    BY <1>1
  <2>2. g[i] = step[i][g[i-1]]
    BY <1>3
  <2>3. step[i][g[i-1]] = IF s[i] \in T THEN Append(g[i-1], s[i]) ELSE g[i-1]
    <3> HIDE DEF A, N
    <3> QED BY <2>1
  <2>4. QED
    BY <2>2, <2>3
<1>5. g = body(g)
  <2>1. ASSUME NEW n \in 0..N PROVE g[n] = body(g)[n]
    <3>1. CASE n = 0
      BY <1>3, <3>1
    <3>2. CASE n # 0
      <4>1. n \in 1..N
        BY <1>1, <3>2
      <4>2. QED
        BY <1>4, <4>1, <3>2
    <3>3. QED
      BY <3>1, <3>2
  <2>2. QED
    BY <2>1
<1>6. F = body(F)
  <2> HIDE DEF body
  <2> QED BY <1>5
<1>7. Filter(s, T) = F[N]
  BY DEF Filter
<1> HIDE DEF F
<1>8. ASSUME NEW i \in 1..N
      PROVE  F[i] = IF s[i] \in T THEN Append(F[i-1], s[i]) ELSE F[i-1]
  <2>1. F[i] = body(F)[i]
    BY <1>6
  <2>2. i \in 0..N /\ i # 0
    BY <1>1
  <2>3. QED
    BY <2>1, <2>2
<1>9. F[0] = b
  <2>1. F[0] = body(F)[0]
    BY <1>6
  <2>2. 0 \in 0..N
    BY <1>1
  <2>3. QED
    BY <2>1, <2>2
<1>10. QED
  <2> HIDE DEF N, b
  <2> QED BY <1>7, <1>8, <1>9 DEF N, b

(* Filter keeps those in T, and keeps them apart.                             *)
LEMMA FilterFacts ==
  ASSUME NEW X, NEW s \in Seq(X), NEW T
  PROVE  /\ Filter(s, T) \in Seq(X)
         /\ ToSet(Filter(s, T)) = ToSet(s) \cap T
         /\ IsInjective(s) => IsInjective(Filter(s, T))
<1>1. PICK f : /\ f[0] = <<>>
               /\ \A i \in 1..Len(s) :
                     f[i] = IF s[i] \in T THEN Append(f[i-1], s[i]) ELSE f[i-1]
               /\ Filter(s, T) = f[Len(s)]
  BY Filtered
<1> DEFINE First(n) == {s[i] : i \in 1..n}
           Good(n) == /\ f[n] \in Seq(X)
                      /\ ToSet(f[n]) = First(n) \cap T
                      /\ IsInjective(s) => IsInjective(f[n])
           S == {n \in 0..Len(s) : Good(n)}
<1>2. 0 \in S
  <2>1. 0 \in 0..Len(s) /\ First(0) = {}
    OBVIOUS
  <2>2. <<>> \in Seq(X) /\ ToSet(<<>>) = {} /\ IsInjective(<<>>)
    BY DEF ToSet, IsInjective
  <2> HIDE DEF First
  <2>3. QED
    BY <1>1, <2>1, <2>2
<1>3. ASSUME NEW n \in 0..Len(s)-1, n \in S PROVE n + 1 \in S
  <2>1. /\ n + 1 \in 1..Len(s) /\ n + 1 - 1 = n /\ s[n + 1] \in X
        /\ First(n + 1) = First(n) \cup {s[n + 1]}
        /\ f[n] \in Seq(X) /\ ToSet(f[n]) = First(n) \cap T
        /\ IsInjective(s) => IsInjective(f[n])
    BY <1>3
  <2>2. f[n + 1] = IF s[n + 1] \in T THEN Append(f[n], s[n + 1]) ELSE f[n]
    BY <1>1, <2>1
  <2>3. Good(n + 1)
    <3>1. CASE s[n + 1] \notin T
      BY <2>1, <2>2, <3>1
    <3>2. CASE s[n + 1] \in T
      <4>1. f[n + 1] = Append(f[n], s[n + 1])
        BY <2>2, <3>2
      <4>2. f[n + 1] \in Seq(X) /\ ToSet(f[n + 1]) = ToSet(f[n]) \cup {s[n + 1]}
        <5> DEFINE a == f[n]
                   y == s[n + 1]
                   b == Append(a, y)
        <5>1. /\ b \in Seq(X) /\ DOMAIN b = 1..Len(a) + 1 /\ DOMAIN a = 1..Len(a) /\ Len(a) \in Nat
              /\ \A i \in 1..Len(a) : b[i] = a[i]
              /\ b[Len(a) + 1] = y
          BY <2>1
        <5>2. f[n + 1] = b
          BY <4>1
        <5> HIDE DEF a, b, y
        <5>3. \A i \in 1..Len(a) + 1 : i \in 1..Len(a) \/ i = Len(a) + 1
          BY <5>1
        <5>4. ToSet(b) \subseteq ToSet(a) \cup {y}
          BY <5>1, <5>3 DEF ToSet
        <5>5. ToSet(a) \subseteq ToSet(b) /\ y \in ToSet(b)
          <6>1. (\A i \in 1..Len(a) : i \in 1..Len(a) + 1) /\ Len(a) + 1 \in 1..Len(a) + 1
            BY <5>1
          <6>2. QED
            BY <5>1, <6>1 DEF ToSet
        <5>6. QED
          BY <5>1, <5>2, <5>4, <5>5 DEF a, y
      <4>3. IsInjective(s) => s[n + 1] \notin First(n)
        BY DEF IsInjective
      <4>4. IsInjective(s) => IsInjective(f[n + 1])
        <5> SUFFICES ASSUME IsInjective(s) PROVE IsInjective(f[n + 1])
          OBVIOUS
        <5>1. s[n + 1] \notin ToSet(f[n])
          BY <4>3, <2>1
        <5> HIDE DEF First
        <5>2. QED
          BY <4>1, <5>1, <2>1 DEF IsInjective, ToSet
      <4>5. QED
        <5> HIDE DEF First
        <5> QED BY <4>2, <4>4, <2>1, <3>2
    <3>3. QED
      BY <3>1, <3>2
  <2>4. QED
    <3> HIDE DEF Good
    <3> QED BY <2>1, <2>3
<1>4. Len(s) \in S
  <2>1. Len(s) \in Nat
    OBVIOUS
  <2> HIDE DEF S
  <2>2. QED
    BY <1>2, <1>3, <2>1, Induction
<1>5. First(Len(s)) = ToSet(s)
  BY DEF ToSet
<1>6. QED
  <2> HIDE DEF First
  <2> QED BY <1>1, <1>4, <1>5

\* Where everything is after an insertion.
LEMMA InsertBackPlaces ==
  ASSUME NEW X, NEW s \in Seq(X), NEW p \in Nat, NEW x \in X
  PROVE  LET n == IF p < Len(s) THEN p ELSE Len(s)
             r == InsertBack(s, p, x)
             Old(i) == IF i <= n THEN i ELSE i - 1
         IN  /\ r \in Seq(X) /\ Len(r) = Len(s) + 1
             /\ r[n + 1] = x
             /\ \A i \in 1..Len(r) : i # n + 1 => r[i] = s[Old(i)] /\ Old(i) \in 1..Len(s)
<1> DEFINE n == IF p < Len(s) THEN p ELSE Len(s)
           t == SubSeq(s, 1, n)
           u == SubSeq(s, n + 1, Len(s))
           r == InsertBack(s, p, x)
           Old(i) == IF i <= n THEN i ELSE i - 1
<1>1. n \in 0..Len(s)
  OBVIOUS
<1>2. r = t \o <<x>> \o u
  BY DEF InsertBack
<1> HIDE DEF n
<1>3. /\ t \in Seq(X) /\ Len(t) = n /\ \A i \in 1..n : t[i] = s[i]
      /\ u \in Seq(X) /\ Len(u) = Len(s) - n /\ \A i \in 1..(Len(s) - n) : u[i] = s[n + i]
  BY <1>1
<1> HIDE DEF t, u, r
<1>4. /\ r \in Seq(X) /\ Len(r) = Len(s) + 1
      /\ \A i \in 1..n : r[i] = s[i]
      /\ r[n + 1] = x
      /\ \A i \in n + 2..Len(s) + 1 : r[i] = s[i - 1]
  <2> DEFINE v == t \o <<x>>
  <2>1. /\ v \in Seq(X) /\ Len(v) = n + 1
        /\ \A i \in 1..n : v[i] = s[i]
        /\ v[n + 1] = x
    BY <1>1, <1>3
  <2>2. r = v \o u
    BY <1>2
  <2> HIDE DEF v
  <2>3. r \in Seq(X) /\ Len(r) = Len(s) + 1
    BY <1>1, <1>3, <2>1, <2>2
  <2>4. ASSUME NEW i \in 1..n + 1 PROVE r[i] = v[i]
    BY <1>1, <1>3, <2>1, <2>2
  <2>5. ASSUME NEW i \in n + 2..Len(s) + 1 PROVE r[i] = s[i - 1]
    <3>1. r[i] = u[i - (n + 1)]
      BY <1>1, <1>3, <2>1, <2>2
    <3>2. i - (n + 1) \in 1..(Len(s) - n) /\ n + (i - (n + 1)) = i - 1
      BY <1>1
    <3>3. QED
      BY <1>3, <3>1, <3>2
  <2>6. QED
    BY <1>1, <2>1, <2>3, <2>4, <2>5
<1>5. ASSUME NEW i \in 1..Len(r), i # n + 1
      PROVE  r[i] = s[Old(i)] /\ Old(i) \in 1..Len(s)
  BY <1>1, <1>4, <1>5
<1>6. QED
  BY <1>4, <1>5 DEF n, r

(* What is inserted joins the list, and pushes nothing out.                   *)
LEMMA InsertBackFacts ==
  ASSUME NEW X, NEW s \in Seq(X), NEW p \in Nat, NEW x \in X
  PROVE  /\ InsertBack(s, p, x) \in Seq(X)
         /\ ToSet(InsertBack(s, p, x)) = ToSet(s) \cup {x}
         /\ IsInjective(s) /\ x \notin ToSet(s) => IsInjective(InsertBack(s, p, x))
<1> DEFINE n == IF p < Len(s) THEN p ELSE Len(s)
           r == InsertBack(s, p, x)
           Old(i) == IF i <= n THEN i ELSE i - 1
<1>1. n \in 0..Len(s)
  OBVIOUS
<1>2. /\ r \in Seq(X) /\ Len(r) = Len(s) + 1
      /\ r[n + 1] = x
      /\ \A i \in 1..Len(r) : i # n + 1 => r[i] = s[Old(i)] /\ Old(i) \in 1..Len(s)
  BY InsertBackPlaces
<1> HIDE DEF n, r
<1>3. ToSet(r) = ToSet(s) \cup {x}
  <2>1. ASSUME NEW i \in 1..Len(s) PROVE s[i] \in ToSet(r)
    <3> DEFINE j == IF i <= n THEN i ELSE i + 1
    <3>1. j \in 1..Len(r) /\ j # n + 1 /\ Old(j) = i
      BY <1>1, <1>2
    <3>2. r[j] = s[i]
      BY <1>2, <3>1
    <3> HIDE DEF j
    <3>3. QED
      BY <1>2, <3>1, <3>2 DEF ToSet
  <2>2. x \in ToSet(r)
    BY <1>1, <1>2 DEF ToSet
  <2>3. ASSUME NEW i \in 1..Len(r) PROVE r[i] \in ToSet(s) \cup {x}
    <3>1. CASE i = n + 1
      BY <1>2, <3>1
    <3>2. CASE i # n + 1
      <4> HIDE DEF Old
      <4> QED BY <1>2, <3>2 DEF ToSet
    <3>3. QED
      BY <3>1, <3>2
  <2>4. DOMAIN r = 1..Len(r) /\ DOMAIN s = 1..Len(s)
    BY <1>2
  <2>5. ToSet(r) \subseteq ToSet(s) \cup {x}
    BY <2>3, <2>4 DEF ToSet
  <2>6. ToSet(s) \subseteq ToSet(r)
    BY <2>1, <2>4 DEF ToSet
  <2>7. QED
    BY <2>2, <2>5, <2>6
<1>4. ASSUME IsInjective(s), x \notin ToSet(s) PROVE IsInjective(r)
  <2>1. ASSUME NEW i \in 1..Len(r), i # n + 1
        PROVE  Old(i) \in 1..Len(s) /\ r[i] = s[Old(i)] /\ r[i] # x
    <3> HIDE DEF Old
    <3> QED BY <1>2, <1>4, <2>1 DEF ToSet
  <2>2. ASSUME NEW i \in 1..Len(r), NEW j \in 1..Len(r), r[i] = r[j] PROVE i = j
    <3>1. CASE i = n + 1 \/ j = n + 1
      BY <2>1, <2>2, <3>1, <1>2
    <3>2. CASE i # n + 1 /\ j # n + 1
      <4>1. Old(i) = Old(j)
        <5> HIDE DEF Old
        <5> QED BY <2>1, <2>2, <3>2, <1>4 DEF IsInjective
      <4>2. QED
        BY <4>1, <3>2, <1>1
    <3>3. QED
      BY <3>1, <3>2
  <2>3. QED
    BY <2>2, <1>2 DEF IsInjective
<1>5. QED
  BY <1>2, <1>3, <1>4 DEF r

\* The lists InsertAll goes through.
Places(places, X) ==
    /\ Len(places) \in Nat /\ DOMAIN places = 1..Len(places)
    /\ \A i \in 1..Len(places) : places[i][1] \in Nat /\ places[i][2] \in X

\* The lists InsertAll goes through.
LEMMA Inserted ==
  ASSUME NEW X, NEW s \in Seq(X), NEW places, Places(places, X)
  PROVE  \E f : /\ f[0] = s
                /\ \A i \in 1..Len(places) :
                      f[i] = InsertBack(f[i-1], places[i][1], places[i][2])
                /\ InsertAll(s, places) = f[Len(places)]
<1> DEFINE N == Len(places)
           A == Seq(X)
           b == s
           step == [i \in 1..N |-> [a \in A |-> InsertBack(a, places[i][1], places[i][2])]]
           body(f) == [n \in 0..N |->
                         IF n = 0 THEN s ELSE InsertBack(f[n - 1], places[n][1], places[n][2])]
           F == CHOOSE f : f = body(f)
<1>1. N \in Nat /\ s \in A /\ \A i \in 1..N : places[i][1] \in Nat /\ places[i][2] \in X
  BY DEF Places
<1>2. step \in [1..N -> [A -> A]]
  BY <1>1, InsertBackFacts
<1>3. PICK g \in [0..N -> A] : g[0] = b /\ \A i \in 1..N : g[i] = step[i][g[i-1]]
  <2>1. N \in Nat /\ b \in A
    BY <1>1
  <2> HIDE DEF step, N, A, b, body, F
  <2>2. Computes(A, b, N, step)
    BY <2>1, <1>2, Computed
  <2>3. QED
    BY <2>2 DEF Computes
<1>4. ASSUME NEW i \in 1..N
      PROVE  g[i] = InsertBack(g[i-1], places[i][1], places[i][2])
  <2>1. i-1 \in 0..N
    BY <1>1
  <2> HIDE DEF A, N
  <2>1a. g[i-1] \in A
    BY <2>1
  <2>2. g[i] = step[i][g[i-1]]
    BY <1>3
  <2>3. step[i][g[i-1]] = InsertBack(g[i-1], places[i][1], places[i][2])
    BY <2>1a
  <2>4. QED
    BY <2>2, <2>3
<1>5. g = body(g)
  <2>1. ASSUME NEW n \in 0..N PROVE g[n] = body(g)[n]
    <3>1. CASE n = 0
      BY <1>3, <3>1
    <3>2. CASE n # 0
      <4>1. n \in 1..N
        BY <1>1, <3>2
      <4>2. QED
        BY <1>4, <4>1, <3>2
    <3>3. QED
      BY <3>1, <3>2
  <2>2. QED
    BY <2>1
<1>6. F = body(F)
  <2> HIDE DEF body
  <2> QED BY <1>5
<1>7. InsertAll(s, places) = F[N]
  BY DEF InsertAll
<1> HIDE DEF F
<1>8. ASSUME NEW i \in 1..N
      PROVE  F[i] = InsertBack(F[i-1], places[i][1], places[i][2])
  <2>1. F[i] = body(F)[i]
    BY <1>6
  <2>2. i \in 0..N /\ i # 0
    BY <1>1
  <2>3. QED
    BY <2>1, <2>2
<1>9. F[0] = s
  <2>1. F[0] = body(F)[0]
    BY <1>6
  <2>2. 0 \in 0..N
    BY <1>1
  <2>3. QED
    BY <2>1, <2>2
<1>10. QED
  <2> HIDE DEF N
  <2> QED BY <1>7, <1>8, <1>9 DEF N

(* Whatever is inserted is there in the end, once if it was nowhere before.   *)
LEMMA InsertAllFacts ==
  ASSUME NEW X, NEW s \in Seq(X), NEW places, Places(places, X)
  PROVE  /\ InsertAll(s, places) \in Seq(X)
         /\ ToSet(InsertAll(s, places)) = ToSet(s) \cup {places[i][2] : i \in DOMAIN places}
         /\ /\ IsInjective(s)
            /\ \A i \in DOMAIN places : places[i][2] \notin ToSet(s)
            /\ \A i, j \in DOMAIN places : places[i][2] = places[j][2] => i = j
            => IsInjective(InsertAll(s, places))
<1>1. PICK f : /\ f[0] = s
               /\ \A i \in 1..Len(places) :
                     f[i] = InsertBack(f[i-1], places[i][1], places[i][2])
               /\ InsertAll(s, places) = f[Len(places)]
  BY Inserted
<1> DEFINE N == Len(places)
           First(n) == {places[i][2] : i \in 1..n}
           Apart == /\ IsInjective(s)
                    /\ \A i \in 1..N : places[i][2] \notin ToSet(s)
                    /\ \A i, j \in 1..N : places[i][2] = places[j][2] => i = j
           Good(n) == /\ f[n] \in Seq(X)
                      /\ ToSet(f[n]) = ToSet(s) \cup First(n)
                      /\ Apart => IsInjective(f[n])
           S == {n \in 0..N : Good(n)}
<1>2. N \in Nat /\ DOMAIN places = 1..N
      /\ \A i \in 1..N : places[i][1] \in Nat /\ places[i][2] \in X
  BY DEF Places
<1>3. 0 \in S
  <2>1. 0 \in 0..N /\ First(0) = {}
    BY <1>2
  <2>2. Apart => IsInjective(s)
    OBVIOUS
  <2> HIDE DEF First, Apart, N
  <2>3. QED
    BY <1>1, <2>1, <2>2
<1>4. ASSUME NEW n \in 0..N-1, n \in S PROVE n + 1 \in S
  <2> DEFINE x == places[n + 1][2]
             p == places[n + 1][1]
  <2>1. n + 1 \in 1..N /\ n + 1 - 1 = n
    BY <1>2
  <2>1b. x \in X /\ p \in Nat
    BY <1>2, <2>1
  <2>1c. f[n] \in Seq(X) /\ ToSet(f[n]) = ToSet(s) \cup First(n) /\ (Apart => IsInjective(f[n]))
    <3> HIDE DEF N, First, Apart
    <3> QED BY <1>4
  <2>1a. First(n + 1) = First(n) \cup {x}
    <3>1. 1..(n + 1) = 1..n \cup {n + 1}
      BY <1>2
    <3> QED BY <3>1
  <2>2. f[n + 1] = InsertBack(f[n], p, x)
    BY <1>1, <2>1
  <2>3. Apart => x \notin ToSet(s) \cup First(n)
    <3>1. \A i \in 1..n : i \in 1..N /\ i # n + 1
      BY <2>1, <1>2
    <3> HIDE DEF N
    <3> QED BY <2>1, <3>1 DEF N
  <2> HIDE DEF First, Apart, x, p, N
  <2>4. Good(n + 1)
    <3>1. /\ f[n + 1] \in Seq(X)
          /\ ToSet(f[n + 1]) = ToSet(f[n]) \cup {x}
          /\ IsInjective(f[n]) /\ x \notin ToSet(f[n]) => IsInjective(f[n + 1])
      <4>1. f[n] \in Seq(X) /\ p \in Nat /\ x \in X
        BY <2>1b, <2>1c
      <4> HIDE DEF Good, S
      <4>2. /\ InsertBack(f[n], p, x) \in Seq(X)
            /\ ToSet(InsertBack(f[n], p, x)) = ToSet(f[n]) \cup {x}
            /\ IsInjective(f[n]) /\ x \notin ToSet(f[n]) => IsInjective(InsertBack(f[n], p, x))
        BY <4>1, InsertBackFacts
      <4>3. QED
        BY <4>2, <2>2
    <3>2. QED
      BY <2>1a, <2>1c, <2>3, <3>1
  <2>5. QED
    <3> HIDE DEF Good
    <3> QED BY <2>1, <2>4
<1>5. N \in S
  <2> HIDE DEF S, N
  <2>1. QED
    BY <1>2, <1>3, <1>4, Induction
<1>6. QED
  <2> HIDE DEF N
  <2> QED BY <1>1, <1>2, <1>5 DEF N

(* Filter does not see what is inserted beside T.                             *)
LEMMA FilterInsert ==
  ASSUME NEW X, NEW s \in Seq(X), NEW p \in Nat, NEW x \in X, NEW T, x \notin T
  PROVE  Filter(InsertBack(s, p, x), T) = Filter(s, T)
<1> DEFINE n == IF p < Len(s) THEN p ELSE Len(s)
           r == InsertBack(s, p, x)
           Old(i) == IF i <= n THEN i ELSE i - 1
<1>1. n \in 0..Len(s) /\ Len(s) \in Nat
  OBVIOUS
<1>2. /\ r \in Seq(X) /\ Len(r) = Len(s) + 1
      /\ r[n + 1] = x
      /\ \A i \in 1..Len(r) : i # n + 1 => r[i] = s[Old(i)] /\ Old(i) \in 1..Len(s)
  BY InsertBackPlaces
<1> HIDE DEF n, r
<1>3. PICK f : /\ f[0] = <<>>
               /\ \A i \in 1..Len(s) : f[i] = IF s[i] \in T THEN Append(f[i-1], s[i]) ELSE f[i-1]
               /\ Filter(s, T) = f[Len(s)]
  BY Filtered
<1>4. PICK h : /\ h[0] = <<>>
               /\ \A i \in 1..Len(r) : h[i] = IF r[i] \in T THEN Append(h[i-1], r[i]) ELSE h[i-1]
               /\ Filter(r, T) = h[Len(r)]
  BY <1>2, Filtered
<1> DEFINE S == {i \in 0..Len(r) : h[i] = f[Old(i)]}
<1>5. 0 \in S
  BY <1>1, <1>2, <1>3, <1>4
<1>6. ASSUME NEW i \in 0..Len(r)-1, i \in S PROVE i + 1 \in S
  <2>1. i + 1 \in 1..Len(r) /\ i + 1 - 1 = i /\ h[i] = f[Old(i)]
    BY <1>1, <1>2, <1>6
  <2>2. h[i + 1] = IF r[i + 1] \in T THEN Append(h[i], r[i + 1]) ELSE h[i]
    BY <1>4, <2>1
  <2>3. CASE i = n
    BY <1>1, <1>2, <2>1, <2>2, <2>3
  <2>4. CASE i # n
    <3>1. /\ Old(i + 1) \in 1..Len(s) /\ r[i + 1] = s[Old(i + 1)]
          /\ Old(i + 1) - 1 = Old(i)
      BY <1>1, <1>2, <2>1, <2>4
    <3>2. f[Old(i + 1)] = IF s[Old(i + 1)] \in T THEN Append(f[Old(i)], s[Old(i + 1)]) ELSE f[Old(i)]
      <4> HIDE DEF Old
      <4> QED BY <1>3, <3>1
    <3> HIDE DEF Old
    <3>3. QED
      BY <2>1, <2>2, <3>1, <3>2
  <2>5. QED
    BY <2>3, <2>4
<1>7. Len(r) \in S
  <2>1. Len(r) \in Nat
    BY <1>2
  <2> HIDE DEF S
  <2>2. QED
    BY <1>5, <1>6, <2>1, Induction
<1>8. Old(Len(r)) = Len(s)
  BY <1>1, <1>2
<1>9. QED
  BY <1>3, <1>4, <1>7, <1>8 DEF r

(* Nor what InsertAll inserts.                                                *)
LEMMA FilterInsertAll ==
  ASSUME NEW X, NEW s \in Seq(X), NEW places, Places(places, X), NEW T,
         \A i \in DOMAIN places : places[i][2] \notin T
  PROVE  Filter(InsertAll(s, places), T) = Filter(s, T)
<1>1. PICK f : /\ f[0] = s
               /\ \A i \in 1..Len(places) :
                     f[i] = InsertBack(f[i-1], places[i][1], places[i][2])
               /\ InsertAll(s, places) = f[Len(places)]
  BY Inserted
<1> DEFINE N == Len(places)
           S == {n \in 0..N : f[n] \in Seq(X) /\ Filter(f[n], T) = Filter(s, T)}
<1>2. N \in Nat /\ DOMAIN places = 1..N
      /\ \A i \in 1..N : places[i][1] \in Nat /\ places[i][2] \in X
  BY DEF Places
<1>3. 0 \in S
  BY <1>1, <1>2
<1>4. ASSUME NEW n \in 0..N-1, n \in S PROVE n + 1 \in S
  <2> DEFINE x == places[n + 1][2]
             p == places[n + 1][1]
             a == f[n]
  <2>1. n + 1 \in 1..N /\ n + 1 \in 0..N /\ n + 1 - 1 = n
    BY <1>2
  <2>2. x \in X /\ p \in Nat /\ x \notin T /\ a \in Seq(X) /\ Filter(a, T) = Filter(s, T)
    BY <1>2, <1>4, <2>1
  <2>3. f[n + 1] = InsertBack(a, p, x)
    BY <1>1, <2>1
  <2> HIDE DEF x, p, a
  <2>4. InsertBack(a, p, x) \in Seq(X)
    BY <2>2, InsertBackFacts
  <2>5. Filter(InsertBack(a, p, x), T) = Filter(a, T)
    BY <2>2, FilterInsert
  <2>6. QED
    BY <2>1, <2>2, <2>3, <2>4, <2>5
<1>5. N \in S
  <2> HIDE DEF S, N
  <2>1. QED
    BY <1>2, <1>3, <1>4, Induction
<1>6. QED
  BY <1>1, <1>5

\* A length is known from its indices.
LEMMA SameLength ==
  ASSUME NEW m \in Nat, NEW n \in Nat, 1..m = 1..n
  PROVE  m = n
<1>1. ~(m < n)
  <2>1. n \in 1..m => ~(m < n)
    OBVIOUS
  <2>2. n # 0 => n \in 1..n
    OBVIOUS
  <2>3. QED
    BY <2>1, <2>2
<1>2. ~(n < m)
  <2>1. m \in 1..n => ~(n < m)
    OBVIOUS
  <2>2. m # 0 => m \in 1..m
    OBVIOUS
  <2>3. QED
    BY <2>1, <2>2
<1>3. QED
  BY <1>1, <1>2

(* Two lists in a row.                                                         *)
LEMMA ConcatFacts ==
  ASSUME NEW X, NEW s \in Seq(X), NEW t \in Seq(X)
  PROVE  /\ ToSet(s \o t) = ToSet(s) \cup ToSet(t)
         /\ IsInjective(s) /\ IsInjective(t) /\ ToSet(s) \cap ToSet(t) = {} => IsInjective(s \o t)
<1> DEFINE m == Len(s)
           n == Len(t)
           r == s \o t
<1>1. /\ m \in Nat /\ n \in Nat /\ DOMAIN s = 1..m /\ DOMAIN t = 1..n /\ DOMAIN r = 1..(m + n)
      /\ \A i \in 1..m : r[i] = s[i]
      /\ \A i \in m + 1..m + n : r[i] = t[i - m] /\ i - m \in 1..n
      /\ \A i \in 1..n : i + m \in 1..(m + n) /\ r[i + m] = t[i]
  OBVIOUS
<1> HIDE DEF m, n, r
<1>2. \A i \in 1..(m + n) : i \in 1..m \/ i \in m + 1..m + n
  BY <1>1
<1>3. ToSet(r) = ToSet(s) \cup ToSet(t)
  <2>1. \A i \in 1..(m + n) : r[i] \in ToSet(s) \cup ToSet(t)
    BY <1>1, <1>2 DEF ToSet
  <2>2. \A i \in 1..m : s[i] \in ToSet(r)
    <3>1. \A i \in 1..m : i \in 1..(m + n)
      BY <1>1
    <3>2. QED
      BY <1>1, <3>1 DEF ToSet
  <2>3. \A i \in 1..n : t[i] \in ToSet(r)
    BY <1>1 DEF ToSet
  <2>4. ToSet(r) \subseteq ToSet(s) \cup ToSet(t)
    BY <1>1, <2>1 DEF ToSet
  <2>5. ToSet(s) \subseteq ToSet(r) /\ ToSet(t) \subseteq ToSet(r)
    BY <1>1, <2>2, <2>3 DEF ToSet
  <2>6. QED
    BY <2>4, <2>5
<1>4. ASSUME IsInjective(s), IsInjective(t), ToSet(s) \cap ToSet(t) = {} PROVE IsInjective(r)
  <2> SUFFICES ASSUME NEW i \in 1..(m + n), NEW j \in 1..(m + n), r[i] = r[j] PROVE i = j
    BY <1>1 DEF IsInjective
  <2>1. CASE i \in 1..m /\ j \in 1..m
    BY <2>1, <1>1, <1>4 DEF IsInjective
  <2>2. CASE i \in m + 1..m + n /\ j \in m + 1..m + n
    <3>1. i - m \in DOMAIN t /\ j - m \in DOMAIN t /\ t[i - m] = t[j - m]
      BY <2>2, <1>1
    <3>1a. i - m = j - m
      BY <1>4, <3>1 DEF IsInjective
    <3>2. QED
      BY <2>2, <3>1a, <1>1
  <2>3. CASE i \in 1..m /\ j \in m + 1..m + n
    <3>1. r[i] \in ToSet(s) /\ r[j] \in ToSet(t)
      BY <2>3, <1>1 DEF ToSet
    <3>2. QED
      BY <1>4, <3>1
  <2>4. CASE i \in m + 1..m + n /\ j \in 1..m
    <3>1. r[i] \in ToSet(t) /\ r[j] \in ToSet(s)
      BY <2>4, <1>1 DEF ToSet
    <3>2. QED
      BY <1>4, <3>1
  <2>5. QED
    BY <2>1, <2>2, <2>3, <2>4, <1>2
<1>5. QED
  BY <1>3, <1>4 DEF r

\* A prefix and the next element.
LEMMA PrefixGrows ==
  ASSUME NEW X, NEW t \in Seq(X), NEW k \in 0..Len(t)-1
  PROVE  Append(SubSeq(t, 1, k), t[k + 1]) = SubSeq(t, 1, k + 1)
<1> DEFINE u == SubSeq(t, 1, k)
           v == Append(u, t[k + 1])
           w == SubSeq(t, 1, k + 1)
<1>1. u \in Seq(X) /\ Len(u) = k /\ \A i \in 1..k : u[i] = t[i]
  OBVIOUS
<1>2. w \in Seq(X) /\ Len(w) = k + 1 /\ \A i \in 1..k + 1 : w[i] = t[i]
  OBVIOUS
<1> HIDE DEF u, w
<1>3. v \in Seq(X) /\ Len(v) = k + 1 /\ \A i \in 1..k + 1 : v[i] = t[i]
  BY <1>1
<1> HIDE DEF v
<1>4. DOMAIN v = 1..k + 1 /\ DOMAIN w = 1..k + 1
  BY <1>2, <1>3
<1>5. v = w
  BY <1>2, <1>3, <1>4
<1>6. QED
  BY <1>5 DEF u, v, w

(* Of a list that ends in what is in T, and has nothing else of it, the end.  *)
LEMMA FilterEnd ==
  ASSUME NEW X, NEW s \in Seq(X), NEW t \in Seq(X), NEW T,
         ToSet(s) \cap T = {}, ToSet(t) \subseteq T
  PROVE  Filter(s \o t, T) = t
<1> DEFINE r == s \o t
           m == Len(s)
           n == Len(t)
           Good(g, i) == IF i <= m THEN g = <<>> ELSE g = SubSeq(t, 1, i - m)
<1>1. /\ m \in Nat /\ n \in Nat /\ r \in Seq(X) /\ Len(r) = m + n
      /\ \A i \in 1..m : r[i] = s[i]
      /\ \A i \in m + 1..m + n : r[i] = t[i - m]
  OBVIOUS
<1>2. /\ \A i \in 1..m : s[i] \notin T
      /\ \A i \in 1..n : t[i] \in T
  BY DEF ToSet
<1> HIDE DEF r
<1>3. PICK f : /\ f[0] = <<>>
               /\ \A i \in 1..Len(r) : f[i] = IF r[i] \in T THEN Append(f[i-1], r[i]) ELSE f[i-1]
               /\ Filter(r, T) = f[Len(r)]
  BY <1>1, Filtered
<1> DEFINE S == {i \in 0..Len(r) : Good(f[i], i)}
<1>4. 0 \in S
  BY <1>1, <1>3
<1>5. ASSUME NEW i \in 0..Len(r)-1, i \in S PROVE i + 1 \in S
  <2>1. i + 1 \in 1..Len(r) /\ i + 1 \in 0..Len(r) /\ i + 1 - 1 = i /\ Good(f[i], i)
    BY <1>1, <1>5
  <2>2. f[i + 1] = IF r[i + 1] \in T THEN Append(f[i], r[i + 1]) ELSE f[i]
    BY <1>3, <2>1
  <2>3. CASE i + 1 <= m
    <3>1. r[i + 1] \notin T /\ f[i] = <<>>
      BY <1>1, <1>2, <2>1, <2>3
    <3>2. QED
      BY <2>1, <2>2, <2>3, <3>1
  <2>4. CASE i + 1 > m
    <3>1. r[i + 1] = t[i + 1 - m] /\ i + 1 - m \in 1..n
      BY <1>1, <2>1, <2>4
    <3>2. f[i] = SubSeq(t, 1, i - m)
      <4>1. CASE i = m
        <5>1. SubSeq(t, 1, 0) = <<>> /\ i - m = 0
          BY <1>1, <4>1
        <5>2. f[i] = <<>>
          BY <1>1, <2>1, <4>1
        <5>3. QED
          BY <5>1, <5>2
      <4>2. CASE i # m
        BY <2>1, <2>4, <4>2, <1>1
      <4>3. QED
        BY <4>1, <4>2
    <3>3. f[i + 1] = Append(SubSeq(t, 1, i - m), t[i + 1 - m])
      BY <1>2, <2>2, <3>1, <3>2
    <3>4. Append(SubSeq(t, 1, i - m), t[i + 1 - m]) = SubSeq(t, 1, i + 1 - m)
      <4>1. i - m \in 0..n - 1 /\ i - m + 1 = i + 1 - m
        BY <1>1, <2>1, <2>4
      <4>2. QED
        BY <4>1, PrefixGrows
    <3>5. QED
      <4>1. f[i + 1] = SubSeq(t, 1, i + 1 - m)
        BY <3>3, <3>4
      <4>2. ~(i + 1 <= m)
        BY <1>1, <2>1, <2>4
      <4>3. QED
        BY <2>1, <4>1, <4>2
  <2>5. QED
    BY <2>3, <2>4, <1>1
<1>6. Len(r) \in S
  <2>1. Len(r) \in Nat
    BY <1>1
  <2> HIDE DEF S
  <2>2. QED
    BY <1>4, <1>5, <2>1, Induction
<1>7. f[Len(r)] = t
  <2>1. CASE n = 0
    BY <1>1, <1>6, <2>1
  <2>2. CASE n # 0
    <3>1. f[Len(r)] = SubSeq(t, 1, n)
      BY <1>1, <1>6, <2>2
    <3>2. QED
      BY <3>1, <1>1
  <2>3. QED
    BY <2>1, <2>2
<1>8. QED
  BY <1>3, <1>7 DEF r

\* Of a list that is all in T, all.
LEMMA FilterAll ==
  ASSUME NEW X, NEW s \in Seq(X), NEW T, ToSet(s) \subseteq T
  PROVE  Filter(s, T) = s
<1> DEFINE e == <<>>
<1>1. e \in Seq(X) /\ ToSet(e) \cap T = {} /\ e \o s = s
  BY DEF ToSet
<1> HIDE DEF e
<1>2. Filter(e \o s, T) = s
  BY <1>1, FilterEnd
<1>3. QED
  BY <1>1, <1>2

(* The filter of a list that has one more.                                    *)
LEMMA FilterAppend ==
  ASSUME NEW X, NEW s \in Seq(X), NEW x \in X, NEW T
  PROVE  Filter(Append(s, x), T) = IF x \in T THEN Append(Filter(s, T), x) ELSE Filter(s, T)
<1> DEFINE r == Append(s, x)
<1>1. /\ Len(s) \in Nat /\ r \in Seq(X) /\ Len(r) = Len(s) + 1
      /\ \A i \in 1..Len(s) : r[i] = s[i]
      /\ r[Len(s) + 1] = x
  OBVIOUS
<1> HIDE DEF r
<1>2. PICK f : /\ f[0] = <<>>
               /\ \A i \in 1..Len(s) : f[i] = IF s[i] \in T THEN Append(f[i-1], s[i]) ELSE f[i-1]
               /\ Filter(s, T) = f[Len(s)]
  BY Filtered
<1>3. PICK h : /\ h[0] = <<>>
               /\ \A i \in 1..Len(r) : h[i] = IF r[i] \in T THEN Append(h[i-1], r[i]) ELSE h[i-1]
               /\ Filter(r, T) = h[Len(r)]
  BY <1>1, Filtered
<1> DEFINE S == {i \in 0..Len(s) : h[i] = f[i]}
<1>4. 0 \in S
  BY <1>1, <1>2, <1>3
<1>5. ASSUME NEW i \in 0..Len(s)-1, i \in S PROVE i + 1 \in S
  <2>1. /\ i + 1 \in 1..Len(s) /\ i + 1 \in 1..Len(r) /\ i + 1 \in 0..Len(s)
        /\ i + 1 - 1 = i /\ h[i] = f[i]
    BY <1>1, <1>5
  <2>2. h[i + 1] = f[i + 1]
    BY <1>1, <1>2, <1>3, <2>1
  <2>3. QED
    BY <2>1, <2>2
<1>6. Len(s) \in S
  <2> HIDE DEF S
  <2> QED BY <1>1, <1>4, <1>5, Induction
<1>7. Len(s) + 1 \in 1..Len(r) /\ Len(s) + 1 - 1 = Len(s)
  BY <1>1
<1>8. h[Len(s) + 1] = IF x \in T THEN Append(h[Len(s)], x) ELSE h[Len(s)]
  BY <1>1, <1>3, <1>7
<1>9. QED
  BY <1>1, <1>2, <1>3, <1>6, <1>8 DEF r

(* A filter of a filter.                                                      *)
LEMMA FilterFilter ==
  ASSUME NEW X, NEW s \in Seq(X), NEW T, NEW U
  PROVE  Filter(Filter(s, T), U) = Filter(s, T \cap U)
<1>1. PICK f : /\ f[0] = <<>>
               /\ \A i \in 1..Len(s) : f[i] = IF s[i] \in T THEN Append(f[i-1], s[i]) ELSE f[i-1]
               /\ Filter(s, T) = f[Len(s)]
  BY Filtered
<1>2. PICK h : /\ h[0] = <<>>
               /\ \A i \in 1..Len(s) :
                     h[i] = IF s[i] \in T \cap U THEN Append(h[i-1], s[i]) ELSE h[i-1]
               /\ Filter(s, T \cap U) = h[Len(s)]
  <2> DEFINE TU == T \cap U
  <2> HIDE DEF TU
  <2>1. \E h : /\ h[0] = <<>>
               /\ \A i \in 1..Len(s) : h[i] = IF s[i] \in TU THEN Append(h[i-1], s[i]) ELSE h[i-1]
               /\ Filter(s, TU) = h[Len(s)]
    BY Filtered
  <2>2. QED
    BY <2>1 DEF TU
<1> DEFINE S == {i \in 0..Len(s) : f[i] \in Seq(X) /\ Filter(f[i], U) = h[i]}
<1>3. 0 \in S
  <2>1. <<>> \in Seq(X) /\ ToSet(<<>>) = {}
    BY DEF ToSet
  <2>2. Filter(<<>>, U) = <<>>
    BY <2>1, FilterAll
  <2>3. 0 \in 0..Len(s) /\ f[0] \in Seq(X) /\ Filter(f[0], U) = h[0]
    BY <1>1, <1>2, <2>1, <2>2
  <2>4. QED
    BY <2>3
<1>4. ASSUME NEW i \in 0..Len(s)-1, i \in S PROVE i + 1 \in S
  <2> DEFINE a == f[i]
             y == s[i + 1]
  <2>1. /\ i + 1 \in 1..Len(s) /\ i + 1 \in 0..Len(s) /\ i + 1 - 1 = i
        /\ a \in Seq(X) /\ Filter(a, U) = h[i] /\ y \in X
    BY <1>4
  <2>2. /\ f[i + 1] = IF y \in T THEN Append(a, y) ELSE a
        /\ h[i + 1] = IF y \in T \cap U THEN Append(h[i], y) ELSE h[i]
    BY <1>1, <1>2, <2>1
  <2> HIDE DEF a, y
  <2>3. Filter(Append(a, y), U) = IF y \in U THEN Append(Filter(a, U), y) ELSE Filter(a, U)
    BY <2>1, FilterAppend
  <2>4. f[i + 1] \in Seq(X)
    BY <2>1, <2>2
  <2>5. Filter(f[i + 1], U) = h[i + 1]
    BY <2>1, <2>2, <2>3
  <2>6. QED
    BY <2>1, <2>4, <2>5
<1>5. Len(s) \in S
  <2>1. Len(s) \in Nat
    OBVIOUS
  <2> HIDE DEF S
  <2> QED BY <1>3, <1>4, <2>1, Induction
<1>6. QED
  BY <1>1, <1>2, <1>5

(* What is filtered comes first if nothing before it is.                      *)
LEMMA FilterFirst ==
  ASSUME NEW X, NEW s \in Seq(X), NEW T, NEW k \in 1..Len(s),
         s[k] \in T, \A i \in 1..k-1 : s[i] \notin T
  PROVE  Filter(s, T) # <<>> /\ Filter(s, T)[1] = s[k]
<1>1. PICK f : /\ f[0] = <<>>
               /\ \A i \in 1..Len(s) : f[i] = IF s[i] \in T THEN Append(f[i-1], s[i]) ELSE f[i-1]
               /\ Filter(s, T) = f[Len(s)]
  BY Filtered
<1> DEFINE Good(i) == IF i < k THEN f[i] = <<>>
                      ELSE f[i] \in Seq(X) /\ Len(f[i]) > 0 /\ f[i][1] = s[k]
           S == {i \in 0..Len(s) : Good(i)}
<1>2. 0 \in S
  BY <1>1
<1>3. ASSUME NEW i \in 0..Len(s)-1, i \in S PROVE i + 1 \in S
  <2>1. /\ i + 1 \in 1..Len(s) /\ i + 1 \in 0..Len(s) /\ i + 1 - 1 = i
        /\ s[i + 1] \in X /\ Good(i)
    BY <1>3
  <2>2. f[i + 1] = IF s[i + 1] \in T THEN Append(f[i], s[i + 1]) ELSE f[i]
    BY <1>1, <2>1
  <2>3. CASE i + 1 < k
    BY <2>1, <2>2, <2>3
  <2>4. CASE i + 1 = k
    <3>1. f[i] = <<>>
      BY <2>1, <2>4
    <3>2. f[i + 1] = Append(<<>>, s[k])
      BY <2>2, <2>4, <3>1
    <3>3. f[i + 1] \in Seq(X) /\ Len(f[i + 1]) > 0 /\ f[i + 1][1] = s[k]
      BY <3>2
    <3>4. QED
      BY <2>1, <2>4, <3>3
  <2>5. CASE i + 1 > k
    <3>1. f[i] \in Seq(X) /\ Len(f[i]) > 0 /\ f[i][1] = s[k]
      BY <2>1, <2>5
    <3>2. f[i + 1] \in Seq(X) /\ Len(f[i + 1]) > 0 /\ f[i + 1][1] = s[k]
      BY <2>1, <2>2, <3>1
    <3>3. QED
      BY <2>1, <2>5, <3>2
  <2>6. QED
    BY <2>3, <2>4, <2>5
<1>4. Len(s) \in S
  <2>1. Len(s) \in Nat
    OBVIOUS
  <2> HIDE DEF S
  <2> QED BY <1>2, <1>3, <2>1, Induction
<1>5. QED
  BY <1>1, <1>4

(* Of an ascending list, an ascending one.                                    *)
LEMMA FilterAscends ==
  ASSUME NEW s \in Seq(Nat), NEW T, \A i, j \in 1..Len(s) : i < j => s[i] < s[j]
  PROVE  \A i, j \in DOMAIN Filter(s, T) : i < j => Filter(s, T)[i] < Filter(s, T)[j]
<1>1. PICK f : /\ f[0] = <<>>
               /\ \A i \in 1..Len(s) : f[i] = IF s[i] \in T THEN Append(f[i-1], s[i]) ELSE f[i-1]
               /\ Filter(s, T) = f[Len(s)]
  BY Filtered
<1> DEFINE Good(n) == /\ f[n] \in Seq(Nat)
                      /\ \A i \in DOMAIN f[n] : \E m \in 1..n : f[n][i] = s[m]
                      /\ \A i, j \in DOMAIN f[n] : i < j => f[n][i] < f[n][j]
           S == {n \in 0..Len(s) : Good(n)}
<1>2. 0 \in S
  <2>1. <<>> \in Seq(Nat) /\ DOMAIN <<>> = {} /\ 0 \in 0..Len(s)
    OBVIOUS
  <2>2. Good(0)
    BY <1>1, <2>1
  <2> HIDE DEF Good
  <2>3. QED
    BY <2>1, <2>2
<1>3. ASSUME NEW n \in 0..Len(s)-1, n \in S PROVE n + 1 \in S
  <2> DEFINE a == f[n]
             y == s[n + 1]
             b == f[n + 1]
  <2>1. /\ n + 1 \in 1..Len(s) /\ n + 1 \in 0..Len(s) /\ n + 1 - 1 = n /\ y \in Nat
        /\ \A m \in 1..n : m \in 1..Len(s) /\ s[m] < y /\ m \in 1..n + 1
    BY <1>3
  <2>1a. Good(n)
    BY <1>3
  <2>2. b = IF y \in T THEN Append(a, y) ELSE a
    BY <1>1, <2>1
  <2>3. /\ a \in Seq(Nat)
        /\ \A i \in DOMAIN a : \E m \in 1..n : a[i] = s[m]
        /\ \A i, j \in DOMAIN a : i < j => a[i] < a[j]
    BY <2>1a
  <2>3a. \A i \in DOMAIN a : a[i] < y /\ \E m \in 1..n + 1 : a[i] = s[m]
    BY <2>1, <2>3
  <2>3b. \E m \in 1..n + 1 : y = s[m]
    BY <1>3
  <2> HIDE DEF a, y, b
  <2>4. /\ b \in Seq(Nat)
        /\ \A i \in DOMAIN b : \E m \in 1..n + 1 : b[i] = s[m]
        /\ \A i, j \in DOMAIN b : i < j => b[i] < b[j]
    <3>1. CASE y \notin T
      BY <2>2, <2>3, <2>3a, <3>1
    <3>2. CASE y \in T
      <4>1. /\ b \in Seq(Nat) /\ DOMAIN b = 1..Len(a) + 1 /\ Len(a) \in Nat /\ DOMAIN a = 1..Len(a)
            /\ \A i \in 1..Len(a) : b[i] = a[i]
            /\ b[Len(a) + 1] = y
        BY <2>1, <2>2, <2>3, <3>2
      <4>2. \A i \in 1..Len(a) + 1 : i \in 1..Len(a) \/ i = Len(a) + 1
        BY <4>1
      <4>3. \A i \in DOMAIN b : \E m \in 1..n + 1 : b[i] = s[m]
        BY <2>3a, <2>3b, <4>1, <4>2
      <4>4. ASSUME NEW i \in DOMAIN b, NEW j \in DOMAIN b, i < j PROVE b[i] < b[j]
        <5>1. i \in 1..Len(a)
          BY <4>1, <4>4
        <5>2. CASE j = Len(a) + 1
          BY <2>3a, <4>1, <5>1, <5>2
        <5>3. CASE j \in 1..Len(a)
          BY <2>3, <4>1, <4>4, <5>1, <5>3
        <5>4. QED
          BY <4>1, <4>2, <5>2, <5>3
      <4>5. QED
        BY <4>1, <4>3, <4>4
    <3>3. QED
      BY <3>1, <3>2
  <2>5. QED
    BY <2>1, <2>4 DEF b
<1>4. Len(s) \in S
  <2>1. Len(s) \in Nat
    OBVIOUS
  <2> HIDE DEF S
  <2> QED BY <1>2, <1>3, <2>1, Induction
<1>5. QED
  BY <1>1, <1>4

\* What is put into a list does not see what comes behind.
LEMMA InsertAppend ==
  ASSUME NEW X, NEW s \in Seq(X), NEW p \in 0..Len(s), NEW x \in X, NEW y \in X
  PROVE  InsertBack(Append(s, y), p, x) = Append(InsertBack(s, p, x), y)
<1> DEFINE a == Append(s, y)
           r == InsertBack(s, p, x)
           u == InsertBack(a, p, x)
           v == Append(r, y)
           Old(i) == IF i <= p THEN i ELSE i - 1
           N == Len(s)
<1>1. /\ N \in Nat /\ p \in Nat /\ p <= N
      /\ a \in Seq(X) /\ Len(a) = N + 1 /\ a[N + 1] = y
      /\ \A i \in 1..N : a[i] = s[i]
  OBVIOUS
<1>2. /\ r \in Seq(X) /\ Len(r) = N + 1
      /\ r[p + 1] = x
      /\ \A i \in 1..N + 1 : i # p + 1 => r[i] = s[Old(i)] /\ Old(i) \in 1..N
  <2> DEFINE n == IF p < Len(s) THEN p ELSE Len(s)
             O(i) == IF i <= n THEN i ELSE i - 1
  <2>1. n = p
    BY <1>1
  <2>2. /\ r \in Seq(X) /\ Len(r) = Len(s) + 1
        /\ r[n + 1] = x
        /\ \A i \in 1..Len(r) : i # n + 1 => r[i] = s[O(i)] /\ O(i) \in 1..Len(s)
    BY <1>1, InsertBackPlaces
  <2> HIDE DEF n, r
  <2>3. QED
    BY <2>1, <2>2
<1>3. /\ u \in Seq(X) /\ Len(u) = N + 2
      /\ u[p + 1] = x
      /\ \A i \in 1..N + 2 : i # p + 1 => u[i] = a[Old(i)] /\ Old(i) \in 1..N + 1
  <2> DEFINE n == IF p < Len(a) THEN p ELSE Len(a)
             O(i) == IF i <= n THEN i ELSE i - 1
  <2>1. n = p
    BY <1>1
  <2> HIDE DEF a
  <2>2. /\ u \in Seq(X) /\ Len(u) = Len(a) + 1
        /\ u[n + 1] = x
        /\ \A i \in 1..Len(u) : i # n + 1 => u[i] = a[O(i)] /\ O(i) \in 1..Len(a)
    BY <1>1, InsertBackPlaces
  <2> HIDE DEF n, u
  <2>3. QED
    BY <1>1, <2>1, <2>2
<1> HIDE DEF r, u, a
<1>4. /\ v \in Seq(X) /\ Len(v) = N + 2 /\ v[N + 2] = y
      /\ \A i \in 1..N + 1 : v[i] = r[i]
  BY <1>1, <1>2
<1> HIDE DEF v
<1>5. ASSUME NEW i \in 1..N + 2 PROVE u[i] = v[i]
  <2>1. CASE i = p + 1
    <3>1. p + 1 \in 1..N + 1
      BY <1>1
    <3>2. QED
      BY <1>2, <1>3, <1>4, <2>1, <3>1
  <2>2. CASE i = N + 2 /\ i # p + 1
    <3>1. u[i] = a[Old(i)] /\ Old(i) = N + 1
      BY <1>1, <1>3, <2>2
    <3>2. QED
      BY <1>1, <1>4, <2>2, <3>1
  <2>3. CASE i # N + 2 /\ i # p + 1
    <3>1. i \in 1..N + 1
      BY <1>1, <2>3
    <3>2. v[i] = s[Old(i)] /\ Old(i) \in 1..N
      <4> HIDE DEF Old, N
      <4> QED BY <1>2, <1>4, <2>3, <3>1
    <3>3. u[i] = a[Old(i)]
      <4> HIDE DEF Old, N
      <4> QED BY <1>3, <2>3
    <3>4. QED
      BY <1>1, <3>2, <3>3
  <2>4. QED
    BY <2>1, <2>2, <2>3
<1>6. DOMAIN u = 1..N + 2 /\ DOMAIN v = 1..N + 2
  BY <1>3, <1>4
<1>7. u = v
  BY <1>3, <1>4, <1>5, <1>6
<1>8. QED
  BY <1>7 DEF u, v, a, r

(* What is left out of a filter goes back to where it was, if all that was    *)
(* before it is there.                                                        *)
LEMMA FilterRestores ==
  ASSUME NEW X, NEW s \in Seq(X), IsInjective(s), NEW T, NEW k \in 1..Len(s),
         s[k] \notin T, \A i \in 1..k-1 : s[i] \in T
  PROVE  InsertBack(Filter(s, T), k - 1, s[k]) = Filter(s, T \cup {s[k]})
<1> DEFINE x == s[k]
           U == T \cup {x}
           p == k - 1
<1>1. /\ k \in Nat /\ p \in Nat /\ Len(s) \in Nat /\ x \in X /\ x \in U /\ x \notin T
      /\ \A i \in 1..Len(s) : s[i] \in X /\ (i # k => s[i] # x)
  BY DEF IsInjective
<1>2. PICK f : /\ f[0] = <<>>
               /\ \A i \in 1..Len(s) : f[i] = IF s[i] \in T THEN Append(f[i-1], s[i]) ELSE f[i-1]
               /\ Filter(s, T) = f[Len(s)]
  BY Filtered
<1>3. PICK g : /\ g[0] = <<>>
               /\ \A i \in 1..Len(s) : g[i] = IF s[i] \in U THEN Append(g[i-1], s[i]) ELSE g[i-1]
               /\ Filter(s, U) = g[Len(s)]
  <2> HIDE DEF U
  <2> QED BY Filtered
<1> DEFINE Good(i) == /\ f[i] \in Seq(X)
                      /\ IF i < k THEN f[i] = g[i] /\ Len(f[i]) = i
                         ELSE Len(f[i]) >= p /\ g[i] = InsertBack(f[i], p, x)
           S == {i \in 0..Len(s) : Good(i)}
<1>4. 0 \in S
  <2>1. <<>> \in Seq(X) /\ Len(<<>>) = 0 /\ 0 \in 0..Len(s) /\ 0 < k
    BY <1>1
  <2>2. QED
    BY <1>2, <1>3, <2>1
<1>5. ASSUME NEW i \in 0..Len(s)-1, i \in S PROVE i + 1 \in S
  <2> DEFINE a == f[i]
             y == s[i + 1]
  <2>1. /\ i + 1 \in 1..Len(s) /\ i + 1 \in 0..Len(s) /\ i + 1 - 1 = i /\ i \in Nat
        /\ a \in Seq(X) /\ y \in X /\ Good(i)
    BY <1>1, <1>5
  <2>2. /\ f[i + 1] = IF y \in T THEN Append(a, y) ELSE a
        /\ g[i + 1] = IF y \in U THEN Append(g[i], y) ELSE g[i]
    BY <1>2, <1>3, <2>1
  <2>3. CASE i + 1 < k
    <3>1. y \in T /\ y \in U /\ g[i] = a /\ Len(a) = i
      BY <1>1, <2>1, <2>3
    <3> HIDE DEF a, y, U
    <3>2. f[i + 1] = Append(a, y) /\ g[i + 1] = Append(a, y)
      BY <2>2, <3>1
    <3>3. Append(a, y) \in Seq(X) /\ Len(Append(a, y)) = i + 1
      BY <2>1, <3>1
    <3>4. QED
      BY <2>1, <2>3, <3>2, <3>3
  <2>4. CASE i + 1 = k
    <3>1. y = x /\ g[i] = a /\ Len(a) = i /\ p = i
      BY <1>1, <2>1, <2>4
    <3>2. f[i + 1] = a /\ g[i + 1] = Append(a, x)
      BY <1>1, <2>2, <3>1
    <3> HIDE DEF a, y, U, x
    <3>3. InsertBack(a, i, x) = Append(a, x)
      <4>1. SubSeq(a, 1, i) = a /\ SubSeq(a, i + 1, i) = <<>>
        BY <2>1, <3>1
      <4>2. InsertBack(a, i, x) = a \o <<x>> \o <<>>
        BY <3>1, <4>1, <2>1 DEF InsertBack
      <4>3. a \o <<x>> = Append(a, x) /\ a \o <<x>> \in Seq(X)
        BY <1>1, <2>1
      <4>4. QED
        BY <4>2, <4>3
    <3>4. ~(i + 1 < k) /\ Len(a) >= p
      BY <1>1, <2>1, <2>4, <3>1
    <3>5. QED
      BY <2>1, <3>1, <3>2, <3>3, <3>4
  <2>5. CASE i + 1 > k
    <3>1. /\ Len(a) >= p /\ g[i] = InsertBack(a, p, x) /\ y # x /\ (y \in U <=> y \in T)
          /\ ~(i + 1 < k)
      BY <1>1, <2>1, <2>5
    <3>2. p \in 0..Len(a)
      BY <1>1, <2>1, <3>1
    <3> HIDE DEF a, y, U, x, p
    <3>2a. a \in Seq(X) /\ x \in X /\ y \in X
      BY <1>1, <2>1
    <3>3. InsertBack(Append(a, y), p, x) = Append(InsertBack(a, p, x), y)
      <4> HIDE DEF Good, S
      <4> QED BY <3>2, <3>2a, InsertAppend
    <3>4. g[i + 1] = InsertBack(f[i + 1], p, x)
      BY <2>2, <3>1, <3>3
    <3>5. f[i + 1] \in Seq(X) /\ Len(f[i + 1]) >= p
      BY <1>1, <2>1, <2>2, <3>1
    <3>6. QED
      BY <2>1, <3>1, <3>4, <3>5
  <2>6. QED
    BY <1>1, <2>1, <2>3, <2>4, <2>5
<1>6. Len(s) \in S
  <2> HIDE DEF S
  <2> QED BY <1>1, <1>4, <1>5, Induction
<1>7. g[Len(s)] = InsertBack(f[Len(s)], p, x)
  <2>1. ~(Len(s) < k)
    BY <1>1
  <2>2. QED
    BY <1>6, <2>1
<1>8. QED
  BY <1>2, <1>3, <1>7

\* All of s that is not in T, with the positions, from the first to the last.
LeftOut(back, s, T) ==
    /\ Len(back) \in Nat /\ DOMAIN back = 1..Len(back)
    /\ \A n \in 1..Len(back) :
          /\ back[n][1] \in 0..Len(s)-1
          /\ back[n][2] = s[back[n][1] + 1] /\ back[n][2] \notin T
    /\ \A i \in 1..Len(s) : s[i] \notin T => \E n \in 1..Len(back) : back[n][1] + 1 = i
    /\ \A i, j \in 1..Len(back) : i < j => back[i][1] < back[j][1]

(* All that is left out goes back to where it was.                            *)
LEMMA AllRestored ==
  ASSUME NEW X, NEW s \in Seq(X), IsInjective(s), NEW T, NEW back, LeftOut(back, s, T)
  PROVE  InsertAll(Filter(s, T), back) = s
<1> DEFINE N == Len(back)
           b == Filter(s, T)
           First(n) == {back[i][2] : i \in 1..n}
<1>1. /\ N \in Nat /\ Len(s) \in Nat
      /\ \A n \in 1..N : /\ back[n][1] \in Nat /\ back[n][1] + 1 \in 1..Len(s)
                         /\ back[n][2] = s[back[n][1] + 1] /\ back[n][2] \notin T
      /\ \A i \in 1..Len(s) : s[i] \notin T => \E n \in 1..N : back[n][1] + 1 = i
      /\ \A i, j \in 1..N : i < j => back[i][1] < back[j][1]
  BY DEF LeftOut
<1>2. \A n \in 1..N : back[n][2] \in X
  BY <1>1
<1>3. Places(back, X)
  BY <1>1, <1>2 DEF Places, LeftOut
<1>4. b \in Seq(X)
  BY FilterFacts
<1> HIDE DEF b
<1>5. PICK f : /\ f[0] = b
               /\ \A i \in 1..N : f[i] = InsertBack(f[i-1], back[i][1], back[i][2])
               /\ InsertAll(b, back) = f[N]
  BY <1>3, <1>4, Inserted
<1> HIDE DEF N
<1> DEFINE S == {n \in 0..N : f[n] = Filter(s, T \cup First(n))}
<1>6. 0 \in S
  <2>1. 0 \in 0..N /\ T \cup First(0) = T
    BY <1>1
  <2> HIDE DEF First
  <2>2. QED
    BY <1>5, <2>1 DEF b
<1>7. ASSUME NEW n \in 0..N-1, n \in S PROVE n + 1 \in S
  <2> DEFINE p == back[n + 1][1]
             k == p + 1
             x == back[n + 1][2]
             U == T \cup First(n)
  <2>1. n + 1 \in 1..N /\ n + 1 \in 0..N /\ n + 1 - 1 = n /\ n \in Nat /\ f[n] = Filter(s, U)
    BY <1>1, <1>7
  <2>2. p \in Nat /\ k \in 1..Len(s) /\ x = s[k] /\ x \notin T /\ k - 1 = p
    BY <1>1, <2>1
  <2>3. f[n + 1] = InsertBack(f[n], p, x)
    BY <1>5, <2>1
  <2>4. T \cup First(n + 1) = U \cup {x}
    <3>1. 1..(n + 1) = 1..n \cup {n + 1}
      BY <2>1
    <3>2. QED
      BY <3>1
  <2>5. x \notin U
    <3>1. ASSUME NEW i \in 1..n PROVE back[i][2] # x
      <4> DEFINE j == back[i][1] + 1
      <4>1. i \in 1..N /\ i < n + 1
        BY <1>1, <2>1
      <4>2. back[i][1] < p /\ back[i][1] \in Nat /\ j \in 1..Len(s) /\ back[i][2] = s[j]
        BY <1>1, <2>1, <4>1
      <4>3. j # k
        BY <2>2, <4>2
      <4> HIDE DEF j, k
      <4>4. s[j] # s[k]
        BY <2>2, <4>2, <4>3 DEF IsInjective
      <4>5. QED
        BY <2>2, <4>2, <4>4
    <3>2. QED
      BY <2>2, <3>1
  <2>6. ASSUME NEW i \in 1..k-1 PROVE s[i] \in U
    <3>1. i \in 1..Len(s) /\ i - 1 < p
      BY <1>1, <2>2
    <3>2. CASE s[i] \notin T
      <4>1. PICK j \in 1..N : back[j][1] + 1 = i
        BY <1>1, <3>1, <3>2
      <4>2. back[j][1] < p /\ back[j][1] \in Nat /\ back[j][2] = s[i]
        BY <1>1, <3>1, <4>1
      <4>3. ~(n + 1 < j)
        BY <1>1, <2>1, <2>2, <4>2
      <4>3a. j # n + 1
        BY <2>2, <4>2
      <4>4. j \in 1..n
        BY <1>1, <2>1, <4>3, <4>3a
      <4>5. QED
        BY <4>2, <4>4
    <3>3. QED
      BY <3>2
  <2> HIDE DEF U, x, p, First
  <2>7. InsertBack(Filter(s, U), p, x) = Filter(s, U \cup {x})
    <3> HIDE DEF k, S
    <3>1. InsertBack(Filter(s, U), k - 1, s[k]) = Filter(s, U \cup {s[k]})
      BY <2>2, <2>5, <2>6, FilterRestores
    <3>2. QED
      BY <2>2, <3>1
  <2>8. QED
    BY <2>1, <2>3, <2>4, <2>7
<1>8. N \in S
  <2> HIDE DEF S
  <2> QED BY <1>1, <1>6, <1>7, Induction
<1>9. ToSet(s) \subseteq T \cup First(N)
  <2>1. ASSUME NEW i \in 1..Len(s), s[i] \notin T PROVE s[i] \in First(N)
    BY <1>1, <2>1
  <2> HIDE DEF First
  <2>2. QED
    BY <2>1 DEF ToSet
<1> HIDE DEF First
<1>10. Filter(s, T \cup First(N)) = s
  BY <1>9, FilterAll
<1>11. QED
  BY <1>5, <1>8, <1>10 DEF b
=============================================================================
