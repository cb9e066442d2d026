-------------------------- MODULE GroupUpdateProofs --------------------------
(* Proofs about GroupUpdate, for any outbounds, remotes of any length, and any *)
(* number of refreshes, with a user who starts, stops, adds and deletes        *)
(* profiles anywhere in between.                                               *)
EXTENDS GroupUpdate, ListsProofs

-----------------------------------------------------------------------------
(* Who is told *)

(* Unless the user meddles, what was there when the refresh began is there still, or *)
(* has been told.                                                                    *)
ToldInv ==
    stage # "idle" /\ ~meddled =>
        \A id \in DOMAIN before.rows :
            id \in disturbed \/ (id \in DOMAIN rows /\ rows[id] = before.rows[id])

LEMMA ToldInductive == ToldInv /\ [GroupNext]_groupVars => ToldInv'
<1> SUFFICES ASSUME ToldInv, [GroupNext]_groupVars, stage' # "idle", ~meddled',
                    NEW id \in DOMAIN (before').rows
             PROVE  (id \in disturbed \/ (id \in DOMAIN rows /\ rows[id] = before.rows[id]))'
  BY DEF ToldInv
<1> DEFINE Still == id \in DOMAIN before.rows
                    /\ (id \in disturbed \/ (id \in DOMAIN rows /\ rows[id] = before.rows[id]))
<1>1. CASE UNCHANGED groupVars
  BY <1>1 DEF ToldInv, groupVars, tableVars, updateVars, userVars
<1>2. ASSUME NEW servers \in Remotes, NEW subClear \in BOOLEAN, BeginUpdate(servers, subClear)
      PROVE  (id \in disturbed \/ (id \in DOMAIN rows /\ rows[id] = before.rows[id]))'
  BY <1>2 DEF BeginUpdate, tableVars
<1>3. ASSUME stage # "idle", ~meddled, UNCHANGED before PROVE Still
  BY <1>3 DEF ToldInv
<1>4. ASSUME NEW here \in {"look", "relook"}, NEW there, Look(here, there)
      PROVE  (id \in disturbed \/ (id \in DOMAIN rows /\ rows[id] = before.rows[id]))'
  BY <1>3, <1>4 DEF Look, Step, tableVars, userVars
<1>5. ASSUME stage # "idle", ~meddled, UNCHANGED before, Delete
      PROVE  (id \in disturbed \/ (id \in DOMAIN rows /\ rows[id] = before.rows[id]))'
  BY <1>3, <1>5 DEF Delete, Restrict
<1>6. CASE ClearDelete \/ Cleanup
  BY <1>5, <1>6 DEF ClearDelete, Cleanup, Step, userVars
<1>7. CASE AddBatch
  <2>1. Still /\ UNCHANGED <<before, disturbed>>
    BY <1>3, <1>7 DEF AddBatch, Step, userVars
  <2>2. id \in DOMAIN rows => id \in DOMAIN rows' /\ rows'[id] = rows[id]
    <3>1. PICK new : rows' = With(rows, new)
      BY <1>7 DEF AddBatch
    <3>2. QED
      BY <3>1 DEF With
  <2>3. QED
    BY <2>1, <2>2
<1>8. CASE Diff
  <2>1. Still /\ UNCHANGED before
    BY <1>3, <1>8 DEF Diff, Step, userVars
  <2>2. PICK pairs : /\ disturbed' = disturbed \cup Range(pairs)
                     /\ rows' = [i \in DOMAIN rows |->
                                   IF i \in Range(pairs)
                                     THEN rows[CHOOSE n \in DOMAIN pairs : pairs[n] = i]
                                     ELSE rows[i]]
    BY <1>8, Zenon DEF Diff, Changed
  <2>3. QED
    BY <2>1, <2>2
<1>9. CASE AllNew
  BY <1>3, <1>9 DEF AllNew, Step, tableVars, userVars
<1>10. CASE Reorder \/ Reinsert
  BY <1>3, <1>10 DEF Reorder, Reinsert, Step, userVars
<1>11. CASE FinishUpdate
  BY <1>11 DEF FinishUpdate, Step
<1>12. ASSUME NEW i \in DOMAIN rows, StartProfile(i) \/ DeleteByHand(i)
       PROVE  (id \in disturbed \/ (id \in DOMAIN rows /\ rows[id] = before.rows[id]))'
  BY <1>3, <1>12 DEF StartProfile, DeleteByHand, Deed, updateVars, tableVars
<1>13. CASE StopProfile
  BY <1>3, <1>13 DEF StopProfile, Deed, updateVars, tableVars
<1>14. ASSUME NEW outbound \in Outbound \cup {Selector}, AddByHand(outbound)
       PROVE  (id \in disturbed \/ (id \in DOMAIN rows /\ rows[id] = before.rows[id]))'
  BY <1>3, <1>14 DEF AddByHand, Deed, updateVars
<1>15. QED
  BY <1>1, <1>2, <1>4, <1>6, <1>7, <1>8, <1>9, <1>10, <1>11, <1>12, <1>13, <1>14 DEF GroupNext

(* Whoever runs on a profile that a refresh deletes or rewrites is told of it.        *)
THEOREM DisturbedIsToldTheorem == GroupSpec => []DisturbedIsTold
<1>1. GroupInit => ToldInv
  BY DEF GroupInit, ToldInv
<1>2. ToldInv => DisturbedIsTold
  BY DEF ToldInv, DisturbedIsTold
<1>3. QED
  BY <1>1, <1>2, ToldInductive, PTL DEF GroupSpec

-----------------------------------------------------------------------------
(* Pair                                                                              *)

Tables(K, V) == UNION {[D -> V] : D \in SUBSET K}

\* A table that is given a row it does not have.
LEMMA TableGrows ==
  ASSUME NEW K, NEW V, NEW m \in Tables(K, V), NEW k \in K, NEW v \in V
  PROVE  Put(m, k, v) \in Tables(K, V)
<1> DEFINE w == Put(m, k, v)
<1>1. PICK D \in SUBSET K : m \in [D -> V]
  BY DEF Tables
<1>2. w \in [D \cup {k} -> V]
  BY <1>1 DEF With, Put
<1>3. w \in Tables(K, V)
  <2> HIDE DEF w
  <2>1. D \cup {k} \in SUBSET K
    OBVIOUS
  <2>2. [D \cup {k} -> V] \in {[E -> V] : E \in SUBSET K}
    BY <2>1
  <2>3. QED
    BY <1>2, <2>2 DEF Tables
<1>4. QED
  BY <1>3

\* One step of Pair: the first mate that nobody has claimed, if there is one.
ClaimedRow(olds, key, m, new) ==
    LET mates == Filter(olds, {old \in ToSet(olds) \ Range(m) : key[old] = key[new]})
    IN  IF mates = <<>> THEN m ELSE Put(m, new, mates[1])

Claims(w, olds, key, m, new) ==
    w = m \/ \E v \in ToSet(olds) \ Range(m) : key[v] = key[new] /\ w = Put(m, new, v)

LEMMA ClaimedFacts ==
  ASSUME NEW X, NEW olds \in Seq(X), NEW K, NEW key, NEW m \in Tables(K, ToSet(olds)), NEW new \in K
  PROVE  /\ ClaimedRow(olds, key, m, new) \in Tables(K, ToSet(olds))
         /\ Claims(ClaimedRow(olds, key, m, new), olds, key, m, new)
<1> DEFINE mates == Filter(olds, {old \in ToSet(olds) \ Range(m) : key[old] = key[new]})
<1>1. mates \in Seq(X) /\ ToSet(mates) = ToSet(olds) \cap {old \in ToSet(olds) \ Range(m) : key[old] = key[new]}
  BY FilterFacts
<1>2. ClaimedRow(olds, key, m, new) = IF mates = <<>> THEN m ELSE Put(m, new, mates[1])
  BY DEF ClaimedRow
<1> HIDE DEF mates
<1>3. CASE mates = <<>>
  BY <1>2, <1>3 DEF Claims
<1>4. CASE mates # <<>>
  <2>1. mates[1] \in ToSet(mates)
    BY <1>1, <1>4 DEF ToSet
  <2>2. mates[1] \in ToSet(olds) \ Range(m) /\ key[mates[1]] = key[new]
    BY <1>1, <2>1
  <2>3. QED
    BY <1>2, <1>4, <2>2, TableGrows DEF Claims
<1>5. QED
  BY <1>3, <1>4

\* The tables Pair goes through.
LEMMA Paired ==
  ASSUME NEW X, NEW olds \in Seq(X), NEW Y, NEW news \in Seq(Y), NEW key
  PROVE  \E f : /\ f[0] = <<>>
                /\ \A i \in 1..Len(news) : f[i] = ClaimedRow(olds, key, f[i-1], news[i])
                /\ Pair(olds, news, key) = f[Len(news)]
<1> DEFINE N == Len(news)
           A == Tables(ToSet(news), ToSet(olds))
           b == <<>>
           step == [i \in 1..N |-> [a \in A |-> ClaimedRow(olds, key, a, news[i])]]
           body(f) == [n \in 0..N |-> IF n = 0 THEN <<>> ELSE ClaimedRow(olds, key, f[n - 1], news[n])]
           F == CHOOSE f : f = body(f)
<1>1. N \in Nat /\ \A i \in 1..N : news[i] \in ToSet(news)
  BY DEF ToSet
<1>1a. b \in A
  <2>1. <<>> \in [{} -> ToSet(olds)]
    OBVIOUS
  <2>2. QED
    BY <2>1 DEF Tables
<1>2. step \in [1..N -> [A -> A]]
  <2>1. ASSUME NEW i \in 1..N, NEW a \in A PROVE ClaimedRow(olds, key, a, news[i]) \in A
    BY <1>1, ClaimedFacts
  <2> HIDE DEF A, N
  <2>2. QED
    BY <2>1
<1>3. PICK g \in [0..N -> A] : g[0] = b /\ \A i \in 1..N : g[i] = step[i][g[i-1]]
  <2>1. N \in Nat /\ b \in A
    BY <1>1, <1>1a
  <2> HIDE DEF step, N, A, b, body, F
  <2>2. Computes(A, b, N, step)
    BY <2>1, <1>2, Computed
  <2>3. QED
    BY <2>2 DEF Computes
<1>4. ASSUME NEW i \in 1..N
      PROVE  g[i] = ClaimedRow(olds, key, g[i-1], news[i])
  <2>1. i-1 \in 0..N
    BY <1>1
  <2> HIDE DEF A, N
  <2>2. g[i-1] \in A
    BY <2>1
  <2>3. g[i] = step[i][g[i-1]]
    BY <1>3
  <2>4. step[i][g[i-1]] = ClaimedRow(olds, key, g[i-1], news[i])
    BY <2>2
  <2>5. QED
    BY <2>3, <2>4
<1>5. g = body(g)
  <2>1. ASSUME NEW n \in 0..N PROVE g[n] = body(g)[n]
    <3>1. CASE n = 0
      BY <1>3, <3>1
    <3>2. CASE n # 0
      <4>1. n \in 1..N
        BY <1>1, <3>2
      <4>2. QED
        BY <1>4, <4>1, <3>2
    <3>3. QED
      BY <3>1, <3>2
  <2>2. QED
    BY <2>1
<1>6. F = body(F)
  <2> HIDE DEF body
  <2> QED BY <1>5
<1>7. Pair(olds, news, key) = F[N]
  BY DEF Pair, ClaimedRow
<1> HIDE DEF F
<1>8. ASSUME NEW i \in 1..N
      PROVE  F[i] = ClaimedRow(olds, key, F[i-1], news[i])
  <2>1. F[i] = body(F)[i]
    BY <1>6
  <2>2. i \in 0..N /\ i # 0
    BY <1>1
  <2>3. QED
    BY <2>1, <2>2
<1>9. F[0] = b
  <2>1. F[0] = body(F)[0]
    BY <1>6
  <2>2. 0 \in 0..N
    BY <1>1
  <2>3. QED
    BY <2>1, <2>2
<1>10. QED
  <2> HIDE DEF N, b
  <2> QED BY <1>7, <1>8, <1>9 DEF N, b

(* Pair gives some of the new ones an old one each, of the same key, and none to two. *)
LEMMA PairFacts ==
  ASSUME NEW X, NEW olds \in Seq(X), NEW Y, NEW news \in Seq(Y), NEW key
  PROVE  /\ Pair(olds, news, key) \in Tables(ToSet(news), ToSet(olds))
         /\ IsInjective(Pair(olds, news, key))
         /\ \A new \in DOMAIN Pair(olds, news, key) :
               key[Pair(olds, news, key)[new]] = key[new]
<1>1. PICK f : /\ f[0] = <<>>
               /\ \A i \in 1..Len(news) : f[i] = ClaimedRow(olds, key, f[i-1], news[i])
               /\ Pair(olds, news, key) = f[Len(news)]
  BY Paired
<1> DEFINE N == Len(news)
           A == Tables(ToSet(news), ToSet(olds))
           Good(m) == m \in A /\ IsInjective(m) /\ \A new \in DOMAIN m : key[m[new]] = key[new]
           S == {n \in 0..N : Good(f[n])}
<1>2. N \in Nat /\ \A i \in 1..N : news[i] \in ToSet(news)
  BY DEF ToSet
<1>3. 0 \in S
  <2>1. <<>> \in [{} -> ToSet(olds)] /\ IsInjective(<<>>) /\ DOMAIN <<>> = {}
    BY DEF IsInjective
  <2>2. <<>> \in A
    BY <2>1 DEF Tables
  <2> HIDE DEF A
  <2>3. QED
    BY <1>1, <1>2, <2>1, <2>2
<1>4. ASSUME NEW n \in 0..N-1, n \in S PROVE n + 1 \in S
  <2> DEFINE m == f[n]
             new == news[n + 1]
             w == f[n + 1]
  <2>1. n + 1 \in 0..N /\ n + 1 \in 1..N /\ n + 1 - 1 = n
    BY <1>2
  <2>2. new \in ToSet(news) /\ Good(m) /\ w = ClaimedRow(olds, key, m, new)
    BY <1>1, <1>2, <1>4, <2>1
  <2> HIDE DEF m, new, w
  <2>3. /\ w \in A
        /\ w = m \/ \E v \in ToSet(olds) \ Range(m) : key[v] = key[new] /\ w = Put(m, new, v)
    <3>1. m \in A /\ new \in ToSet(news)
      BY <2>2
    <3> HIDE DEF Good, S
    <3>2. /\ ClaimedRow(olds, key, m, new) \in A
          /\ Claims(ClaimedRow(olds, key, m, new), olds, key, m, new)
      BY <3>1, ClaimedFacts
    <3>3. QED
      BY <3>2, <2>2 DEF Claims
  <2>4. CASE w = m
    BY <2>1, <2>2, <2>4 DEF w
  <2>5. ASSUME NEW v \in ToSet(olds) \ Range(m), key[v] = key[new], w = Put(m, new, v)
        PROVE  n + 1 \in S
    <3>1. /\ DOMAIN w = DOMAIN m \cup {new}
          /\ \A x \in DOMAIN w : w[x] = IF x \in DOMAIN m THEN m[x] ELSE v
      BY <2>5 DEF With, Put
    <3>2. \A x \in DOMAIN m : m[x] # v
      BY <2>5 DEF Range
    <3>3. IsInjective(w)
      BY <3>1, <3>2, <2>2 DEF IsInjective
    <3>4. \A x \in DOMAIN w : key[w[x]] = key[x]
      BY <3>1, <2>2, <2>5
    <3> HIDE DEF A
    <3>5. QED
      BY <2>1, <2>3, <3>3, <3>4 DEF w
  <2>6. QED
    BY <2>3, <2>4, <2>5
<1>5. N \in S
  <2> HIDE DEF S, N
  <2>1. QED
    BY <1>2, <1>3, <1>4, Induction
<1>6. QED
  <2> HIDE DEF A
  <2> QED BY <1>1, <1>5 DEF A

(* Lists that agree in their keys, from the first to the last, are paired in that order. *)
LEMMA PairAligned ==
  ASSUME NEW X, NEW olds \in Seq(X), IsInjective(olds),
         NEW Y, NEW news \in Seq(Y), IsInjective(news),
         NEW key, Len(olds) = Len(news), \A i \in 1..Len(news) : key[olds[i]] = key[news[i]]
  PROVE  /\ DOMAIN Pair(olds, news, key) = ToSet(news)
         /\ \A i \in 1..Len(news) : Pair(olds, news, key)[news[i]] = olds[i]
<1>1. PICK f : /\ f[0] = <<>>
               /\ \A i \in 1..Len(news) : f[i] = ClaimedRow(olds, key, f[i-1], news[i])
               /\ Pair(olds, news, key) = f[Len(news)]
  BY Paired
<1> DEFINE N == Len(news)
           First(n) == {news[i] : i \in 1..n}
           Good(n) == /\ DOMAIN f[n] = First(n)
                      /\ \A i \in 1..n : f[n][news[i]] = olds[i]
           S == {n \in 0..N : Good(n)}
<1>2. /\ N \in Nat /\ DOMAIN olds = 1..N /\ DOMAIN news = 1..N /\ N = Len(olds)
      /\ \A i \in 1..N : olds[i] \in X /\ olds[i] \in ToSet(olds)
      /\ \A i, j \in 1..N : olds[i] = olds[j] => i = j
      /\ \A i, j \in 1..N : news[i] = news[j] => i = j
      /\ \A i \in 1..N : key[olds[i]] = key[news[i]]
  BY DEF ToSet, IsInjective
<1>3. 0 \in S
  <2>1. 0 \in 0..N /\ DOMAIN <<>> = {} /\ First(0) = {}
    BY <1>2
  <2>2. Good(0)
    <3> HIDE DEF First
    <3> QED BY <1>1, <2>1, <1>2
  <2> HIDE DEF Good
  <2>3. QED
    BY <2>1, <2>2
<1> HIDE DEF N
<1>4. ASSUME NEW n \in 0..N-1, n \in S PROVE n + 1 \in S
  <2> DEFINE m == f[n]
             new == news[n + 1]
             old == olds[n + 1]
             T == {v \in ToSet(olds) \ Range(m) : key[v] = key[new]}
  <2>1. n + 1 \in 1..N /\ n + 1 \in 0..N /\ n + 1 - 1 = n /\ n \in Nat /\ Good(n)
    BY <1>2, <1>4
  <2>2. Range(m) = {olds[i] : i \in 1..n}
    BY <2>1 DEF Range
  <2>3. f[n + 1] = ClaimedRow(olds, key, m, new)
    BY <1>1, <2>1 DEF N
  <2>4. old \in T
    <3>1. \A i \in 1..n : i \in 1..N /\ i # n + 1
      BY <1>2, <2>1
    <3>2. old \notin Range(m)
      BY <1>2, <2>1, <2>2, <3>1
    <3>3. QED
      BY <1>2, <2>1, <3>2
  <2>5. \A i \in 1..n : olds[i] \notin T
    BY <2>2
  <2>6. Filter(olds, T) # <<>> /\ Filter(olds, T)[1] = old
    <3>1. n + 1 \in 1..Len(olds) /\ \A i \in 1..n+1-1 : olds[i] \notin T
      BY <1>2, <2>1, <2>5
    <3> HIDE DEF T, S
    <3>2. QED
      BY <2>4, <3>1, FilterFirst
  <2>7. f[n + 1] = Put(m, new, old)
    BY <2>3, <2>6 DEF ClaimedRow
  <2>8. new \notin First(n)
    <3>1. \A i \in 1..n : i \in 1..N /\ i # n + 1
      BY <1>2, <2>1
    <3>2. QED
      BY <1>2, <2>1, <3>1
  <2>9. First(n + 1) = First(n) \cup {new}
    <3>1. 1..(n + 1) = 1..n \cup {n + 1}
      BY <2>1
    <3>2. QED
      BY <3>1
  <2>10. /\ DOMAIN f[n + 1] = First(n + 1)
         /\ \A x \in DOMAIN f[n + 1] : f[n + 1][x] = IF x \in First(n) THEN m[x] ELSE old
    BY <2>1, <2>7, <2>9 DEF Put, With
  <2>11. ASSUME NEW i \in 1..n + 1 PROVE f[n + 1][news[i]] = olds[i]
    <3>1. CASE i = n + 1
      BY <2>8, <2>9, <2>10, <3>1
    <3>2. CASE i # n + 1
      <4>1. i \in 1..n /\ news[i] \in First(n)
        BY <2>1, <3>2
      <4>2. m[news[i]] = olds[i]
        BY <2>1, <4>1
      <4> HIDE DEF First, m
      <4>3. QED
        BY <2>9, <2>10, <4>1, <4>2
    <3>3. QED
      BY <3>1, <3>2
  <2>12. QED
    BY <2>1, <2>10, <2>11
<1>5. N \in S
  <2> HIDE DEF S
  <2> QED BY <1>2, <1>3, <1>4, Induction
<1>6. First(N) = ToSet(news)
  BY <1>2 DEF ToSet
<1>7. QED
  BY <1>1, <1>5, <1>6 DEF N

-----------------------------------------------------------------------------
(* Types                                                                             *)

GroupTypes ==
    /\ GroupTypeOK
    /\ nextId \in Nat \ {0}
    /\ Range(replaces) \subseteq Ids(nextId)

LEMMA SeqGrows ==
  ASSUME NEW S, NEW T, S \subseteq T, NEW s \in Seq(S)
  PROVE  s \in Seq(T)
OBVIOUS

LEMMA PlacesGrow ==
  ASSUME NEW S, NEW T, S \subseteq T, NEW s \in Seq(Nat \X S)
  PROVE  s \in Seq(Nat \X T)
OBVIOUS

LEMMA PlacesFacts ==
  ASSUME NEW X, NEW s \in Seq(Nat \X X)
  PROVE  Places(s, X)
BY DEF Places

LEMMA RangeFacts ==
  ASSUME NEW X, NEW s \in Seq(X)
  PROVE  ToSet(s) \subseteq X
BY DEF ToSet

\* What Update's locals are in a state in which nextId has not shrunk.
LocalsTyped(ids) ==
    /\ fresh \in Seq(ids) /\ src \in Seq(ids) /\ previous \in Seq(ids)
    /\ sticky \in Seq(Nat \X ids)
    /\ asked \cup doomed \cup kept \cup disturbed \subseteq ids
    /\ DOMAIN replaces \subseteq ids /\ Range(replaces) \subseteq ids

LEMMA LocalsGrow ==
  ASSUME NEW S, NEW T, S \subseteq T, LocalsTyped(S)
  PROVE  LocalsTyped(T)
<1>1. fresh \in Seq(T) /\ src \in Seq(T) /\ previous \in Seq(T)
  BY SeqGrows DEF LocalsTyped
<1>2. sticky \in Seq(Nat \X T)
  BY PlacesGrow DEF LocalsTyped
<1>3. QED
  BY <1>1, <1>2 DEF LocalsTyped

TableTyped ==
    /\ nextId \in Nat \ {0}
    /\ DOMAIN rows \subseteq Ids(nextId)
    /\ Range(rows) \subseteq Outbound \cup {Selector}
    /\ order \in Seq(Ids(nextId))
OtherTyped ==
    /\ startedId \in Ids(nextId) \cup {NoId}
    /\ stage \in Stages
    /\ remote \in Seq(Outbound)
    /\ cleared \in BOOLEAN /\ meddled \in BOOLEAN
    /\ updates \in 0..MaxUpdate /\ deeds \in 0..MaxUser

LEMMA TypesSplit == GroupTypes <=> TableTyped /\ LocalsTyped(Ids(nextId)) /\ OtherTyped
BY Zenon DEF GroupTypes, GroupTypeOK, TableTyped, LocalsTyped, OtherTyped

LEMMA TypesJoin == TableTyped' /\ LocalsTyped(Ids(nextId))' /\ OtherTyped' => GroupTypes'
BY TypesSplit, PTL

LEMMA TypesInitially == GroupInit => GroupTypes
<1> SUFFICES ASSUME GroupInit PROVE GroupTypes
  OBVIOUS
<1>1. TableTyped
  BY DEF GroupInit, TableTyped, Ids, Range
<1>2. LocalsTyped(Ids(nextId))
  BY DEF GroupInit, LocalsTyped, Range
<1>3. OtherTyped
  <2>1. 0 \in 0..MaxUpdate /\ 0 \in 0..MaxUser
    BY GroupAssumption
  <2>2. remote \in Seq(Outbound)
    BY DEF GroupInit
  <2>3. stage \in Stages /\ startedId \in Ids(nextId) \cup {NoId}
    BY DEF GroupInit, Stages
  <2>4. cleared \in BOOLEAN /\ meddled \in BOOLEAN
    BY DEF GroupInit
  <2>5. updates \in 0..MaxUpdate /\ deeds \in 0..MaxUser
    BY <2>1 DEF GroupInit
  <2>6. QED
    BY <2>2, <2>3, <2>4, <2>5 DEF OtherTyped
<1>4. QED
  BY <1>1, <1>2, <1>3, TypesSplit

\* What Delete does to the table.
LEMMA DeleteTyped ==
  ASSUME TableTyped, NEW T, NEW D, order' = Filter(order, T), rows' = Restrict(rows, DOMAIN rows \ D),
         nextId' = nextId
  PROVE  TableTyped'
<1>1. order' \in Seq(Ids(nextId))
  BY FilterFacts DEF TableTyped
<1>2. DOMAIN rows' \subseteq DOMAIN rows /\ Range(rows') \subseteq Range(rows)
  BY DEF Restrict, Range
<1>3. QED
  BY <1>1, <1>2 DEF TableTyped

LEMMA TypesOfDelete ==
  ASSUME GroupTypes, ClearDelete \/ Cleanup
  PROVE  GroupTypes'
<1> USE TypesSplit
<1> DEFINE ids == Ids(nextId)
<1>1. TableTyped /\ LocalsTyped(ids) /\ OtherTyped /\ Delete /\ nextId' = nextId
  BY DEF ClearDelete, Cleanup
<1>2. TableTyped'
  BY <1>1, DeleteTyped DEF Delete
<1>3. kept' \cup disturbed' \subseteq ids
  BY <1>1 DEF Delete, Survivors, LocalsTyped
<1>4. src' \in Seq(ids)
  <2>1. Filter(ServersOf(order), DOMAIN rows \ doomed) \in Seq(ids)
    BY <1>1, FilterFacts DEF TableTyped, ServersOf
  <2>2. CASE ClearDelete
    BY <2>1, <2>2 DEF ClearDelete
  <2>3. CASE Cleanup
    BY <1>1, <2>3 DEF Cleanup, LocalsTyped
  <2>4. QED
    BY <2>2, <2>3
<1>5. UNCHANGED <<fresh, previous, sticky, asked, doomed, replaces, nextId>>
  BY DEF ClearDelete, Cleanup
<1>6. LocalsTyped(Ids(nextId))'
  BY <1>1, <1>3, <1>4, <1>5 DEF LocalsTyped, Ids
<1>7. OtherTyped'
  <2>1. stage' \in Stages /\ cleared' \in BOOLEAN
    BY <1>1 DEF ClearDelete, Cleanup, Step, Stages, OtherTyped
  <2>2. QED
    BY <1>1, <2>1 DEF ClearDelete, Cleanup, OtherTyped, userVars, Ids
<1>8. QED
  BY <1>2, <1>6, <1>7, TypesJoin

LEMMA TypesOfBegin ==
  ASSUME GroupTypes, NEW servers \in Remotes, NEW subClear \in BOOLEAN, BeginUpdate(servers, subClear)
  PROVE  GroupTypes'
<1> USE TypesSplit
<1> DEFINE ids == Ids(nextId)
           selectors == {id \in DOMAIN rows : rows[id] = Selector}
           places == Filter([i \in DOMAIN order |-> i], {i \in DOMAIN order : order[i] \in selectors})
           servers0 == Filter(order, ToSet(order) \ selectors)
<1>1. TableTyped /\ LocalsTyped(ids) /\ OtherTyped /\ order \in Seq(ids)
  BY DEF TableTyped
<1>2. /\ sticky' = [n \in DOMAIN places |-> <<places[n] - 1, order[places[n]]>>]
      /\ asked' = IF subClear THEN ToSet(servers0) ELSE {}
      /\ src' = IF subClear THEN <<>> ELSE Filter(servers0, DOMAIN rows)
  BY Zenon DEF BeginUpdate
<1>3. servers0 \in Seq(ids) /\ Filter(servers0, DOMAIN rows) \in Seq(ids) /\ ToSet(servers0) \subseteq ids
  BY <1>1, FilterFacts, RangeFacts
<1>4. places \in Seq(1..Len(order))
  <2>1. [i \in DOMAIN order |-> i] \in Seq(1..Len(order))
    BY <1>1
  <2>2. QED
    BY <2>1, FilterFacts
<1>5. sticky' \in Seq(Nat \X ids)
  <2> HIDE DEF places, ids
  <2>1. \A n \in DOMAIN places : places[n] \in 1..Len(order)
    BY <1>4
  <2>2. \A n \in DOMAIN places : places[n] - 1 \in Nat /\ order[places[n]] \in ids
    BY <1>1, <2>1
  <2>3. DOMAIN places = 1..Len(places) /\ Len(places) \in Nat
    BY <1>4
  <2>4. \A n \in DOMAIN places : <<places[n] - 1, order[places[n]]>> \in Nat \X ids
    BY <2>2
  <2>5. QED
    BY <1>2, <2>3, <2>4
<1>6. /\ src' \in Seq(ids) /\ asked' \subseteq ids
  <2> HIDE DEF servers0
  <2>1. QED
    BY <1>2, <1>3
<1>7. LocalsTyped(Ids(nextId))'
  BY <1>1, <1>5, <1>6 DEF LocalsTyped, BeginUpdate, tableVars, Ids
<1>8. TableTyped'
  BY <1>1 DEF TableTyped, BeginUpdate, tableVars, Ids
<1>9. OtherTyped'
  <2>1. stage' \in Stages /\ updates' \in 0..MaxUpdate /\ remote' = servers
    BY <1>1, GroupAssumption DEF BeginUpdate, Step, Stages, OtherTyped
  <2>2. servers \in Seq(Outbound)
    BY DEF Remotes
  <2>3. QED
    BY <1>1, <2>1, <2>2 DEF OtherTyped, BeginUpdate, userVars, tableVars, Ids
<1>10. QED
  BY <1>7, <1>8, <1>9, TypesJoin

LEMMA TypesOfAddBatch ==
  ASSUME GroupTypes, AddBatch
  PROVE  GroupTypes'
<1> USE TypesSplit
<1> DEFINE ids == Ids(nextId)
           more == Ids(nextId + Len(remote))
           new == [id \in nextId..(nextId + Len(remote) - 1) |-> remote[id - nextId + 1]]
<1>1. TableTyped /\ LocalsTyped(ids) /\ OtherTyped
  OBVIOUS
<1>2. /\ fresh' = [i \in DOMAIN remote |-> nextId + i - 1]
      /\ nextId' = nextId + Len(remote)
      /\ rows' = With(rows, new)
      /\ order' = order \o fresh'
      /\ Step("add", "diff")
      /\ UNCHANGED <<userVars, remote, sticky, src, cleared, asked, doomed, kept, replaces,
                     previous, disturbed, updates, before>>
  BY DEF AddBatch
<1>3. nextId \in Nat \ {0} /\ Len(remote) \in Nat /\ remote \in Seq(Outbound)
  BY <1>1 DEF TableTyped, OtherTyped
<1>4. ids \subseteq more /\ nextId' \in Nat \ {0} /\ Ids(nextId)' = more
  BY <1>2, <1>3 DEF Ids
<1>5. fresh' \in Seq(more)
  <2>1. \A i \in 1..Len(remote) : nextId + i - 1 \in more
    BY <1>3 DEF Ids
  <2> HIDE DEF more
  <2>2. DOMAIN remote = 1..Len(remote)
    BY <1>3
  <2>3. [i \in 1..Len(remote) |-> nextId + i - 1] \in Seq(more)
    BY <1>3, <2>1
  <2>4. QED
    BY <1>2, <2>2, <2>3
<1>6. order \in Seq(more)
  BY <1>1, <1>4, SeqGrows DEF TableTyped
<1>7. order' \in Seq(more)
  <2> HIDE DEF more
  <2> QED BY <1>2, <1>5, <1>6
<1>8. DOMAIN rows' \subseteq more /\ Range(rows') \subseteq Outbound \cup {Selector}
  <2>1. DOMAIN rows' = DOMAIN rows \cup DOMAIN new /\ DOMAIN new \subseteq more
    BY <1>2, <1>3 DEF With, Ids
  <2>2. \A id \in DOMAIN new : new[id] \in Outbound
    BY <1>3
  <2>3. \A id \in DOMAIN rows' : rows'[id] = IF id \in DOMAIN rows THEN rows[id] ELSE new[id]
    BY <1>2 DEF With
  <2> HIDE DEF new
  <2>4. \A id \in DOMAIN rows' : rows'[id] \in Outbound \cup {Selector}
    BY <1>1, <2>1, <2>2, <2>3 DEF TableTyped, Range
  <2>5. QED
    BY <1>1, <1>4, <2>1, <2>4 DEF TableTyped, Range
<1>9. LocalsTyped(more)
  BY <1>1, <1>4, LocalsGrow
<1>10. LocalsTyped(Ids(nextId))'
  <2> HIDE DEF more
  <2> QED BY <1>2, <1>4, <1>5, <1>9 DEF LocalsTyped
<1>11. TableTyped'
  <2> HIDE DEF more
  <2> QED BY <1>4, <1>7, <1>8 DEF TableTyped
<1>12. OtherTyped'
  BY <1>1, <1>2, <1>4 DEF OtherTyped, Step, Stages, userVars
<1>13. QED
  BY <1>10, <1>11, <1>12, TypesJoin

LEMMA TypesOfAddByHand ==
  ASSUME GroupTypes, NEW outbound \in Outbound \cup {Selector}, AddByHand(outbound)
  PROVE  GroupTypes'
<1> USE TypesSplit
<1> DEFINE ids == Ids(nextId)
           more == Ids(nextId + 1)
<1>1. TableTyped /\ LocalsTyped(ids) /\ OtherTyped
  OBVIOUS
<1>2. nextId \in Nat \ {0} /\ nextId' = nextId + 1
  BY <1>1 DEF TableTyped, AddByHand
<1>3. ids \subseteq more /\ nextId \in more /\ nextId' \in Nat \ {0} /\ Ids(nextId)' = more
  BY <1>2 DEF Ids
<1>4. order \in Seq(more)
  BY <1>1, <1>3, SeqGrows DEF TableTyped
<1>5. order' \in Seq(more)
  <2> HIDE DEF more
  <2> QED BY <1>3, <1>4 DEF AddByHand
<1>6. DOMAIN rows' = DOMAIN rows \cup {nextId} /\ Range(rows') \subseteq Outbound \cup {Selector}
  BY <1>1 DEF AddByHand, Put, With, Range, TableTyped
<1>7. LocalsTyped(more)
  BY <1>1, <1>3, LocalsGrow
<1>8. LocalsTyped(Ids(nextId))'
  <2> HIDE DEF more
  <2> QED BY <1>3, <1>7 DEF LocalsTyped, AddByHand, Deed, updateVars
<1>9. TableTyped'
  <2> HIDE DEF more
  <2>1. DOMAIN rows \subseteq more
    BY <1>1, <1>3 DEF TableTyped
  <2>2. QED
    BY <1>3, <1>5, <1>6, <2>1 DEF TableTyped
<1>10. OtherTyped'
  <2>1. deeds' \in 0..MaxUser
    BY <1>1, GroupAssumption DEF OtherTyped, AddByHand, Deed
  <2>2. meddled' \in BOOLEAN
    BY <1>1 DEF OtherTyped, AddByHand
  <2> HIDE DEF more
  <2>3. QED
    BY <1>1, <1>3, <2>1, <2>2 DEF OtherTyped, AddByHand, Deed, updateVars
<1>11. QED
  BY <1>8, <1>9, <1>10, TypesJoin

LEMMA TypesOfDeleteByHand ==
  ASSUME GroupTypes, NEW id, DeleteByHand(id)
  PROVE  GroupTypes'
<1> USE TypesSplit
<1>1. TableTyped /\ LocalsTyped(Ids(nextId)) /\ OtherTyped
  OBVIOUS
<1>2. nextId' = nextId /\ UNCHANGED updateVars
  BY DEF DeleteByHand, Deed
<1>3. TableTyped'
  BY <1>1, <1>2, DeleteTyped DEF DeleteByHand
<1>4. LocalsTyped(Ids(nextId))'
  BY <1>1, <1>2 DEF LocalsTyped, updateVars, Ids
<1>5. OtherTyped'
  <2>1. deeds' \in 0..MaxUser
    BY <1>1, GroupAssumption DEF OtherTyped, DeleteByHand, Deed
  <2>2. meddled' \in BOOLEAN
    BY <1>1 DEF OtherTyped, DeleteByHand
  <2>3. QED
    BY <1>1, <1>2, <2>1, <2>2 DEF OtherTyped, DeleteByHand, updateVars, Ids
<1>6. QED
  BY <1>3, <1>4, <1>5, TypesJoin

LEMMA TypesOfDiff ==
  ASSUME GroupTypes, Diff
  PROVE  GroupTypes'
<1> USE TypesSplit
<1> DEFINE ids == Ids(nextId)
           old == Filter(src, DOMAIN rows)
           new == Filter(ServersOf(order), ToSet(order) \ ToSet(src))
           same == Pair(old, new, rows)
           pairs == Pair(Others(old, new), Others(new, old), Identity)
<1>1. TableTyped /\ LocalsTyped(ids) /\ OtherTyped
  OBVIOUS
<1>2. /\ replaces' = With(same, pairs)
      /\ rows' = [id \in DOMAIN rows |->
                    IF id \in Range(pairs)
                      THEN rows[CHOOSE n \in DOMAIN pairs : pairs[n] = id]
                      ELSE rows[id]]
      /\ disturbed' = disturbed \cup Range(pairs)
      /\ asked' = ToSet(ServersOf(order))
  BY Zenon DEF Diff, Changed
<1>3. /\ Step("diff", "reorder")
      /\ UNCHANGED <<order, nextId, userVars, remote, fresh, sticky, src, cleared, doomed, kept,
                     previous, updates, before>>
  BY DEF Diff
<1>4. old \in Seq(ids) /\ ServersOf(order) \in Seq(ids)
  BY <1>1, FilterFacts DEF ServersOf, TableTyped, LocalsTyped
<1>5. new \in Seq(ids) /\ ToSet(new) \subseteq ToSet(ServersOf(order))
  BY <1>4, FilterFacts
<1>6. ToSet(ServersOf(order)) \subseteq DOMAIN rows
  BY <1>1, FilterFacts DEF ServersOf, TableTyped
<1> HIDE DEF old, new
<1>7. /\ Others(old, new) \in Seq(ids) /\ ToSet(Others(old, new)) \subseteq ids
      /\ Others(new, old) \in Seq(ids) /\ ToSet(Others(new, old)) \subseteq ToSet(new)
  BY <1>4, <1>5, FilterFacts, RangeFacts DEF Others
<1>8. /\ same \in Tables(ToSet(new), ToSet(old))
      /\ pairs \in Tables(ToSet(Others(new, old)), ToSet(Others(old, new)))
  BY <1>4, <1>5, <1>7, PairFacts
<1>9. /\ DOMAIN same \subseteq ToSet(new) /\ Range(same) \subseteq ToSet(old)
      /\ DOMAIN pairs \subseteq ToSet(new) /\ Range(pairs) \subseteq ids
  <2> HIDE DEF same, pairs
  <2>1. QED
    BY <1>7, <1>8 DEF Tables, Range
<1>10. ToSet(old) \subseteq ids /\ ToSet(new) \subseteq ids
  BY <1>4, <1>5, RangeFacts
<1> HIDE DEF same, pairs
<1>11. DOMAIN replaces' \subseteq ids /\ Range(replaces') \subseteq ids
  BY <1>2, <1>9, <1>10 DEF With, Range
<1>12. asked' \subseteq ids /\ disturbed' \subseteq ids
  BY <1>1, <1>2, <1>4, <1>9, RangeFacts DEF LocalsTyped
<1>13. LocalsTyped(Ids(nextId))'
  BY <1>1, <1>3, <1>11, <1>12 DEF LocalsTyped, Ids
<1>14. TableTyped'
  <2>1. ASSUME NEW id \in DOMAIN rows PROVE rows'[id] \in Range(rows)
    <3>1. CASE id \in Range(pairs)
      <4>1. (CHOOSE n \in DOMAIN pairs : pairs[n] = id) \in DOMAIN pairs
        BY <3>1 DEF Range
      <4>2. QED
        BY <4>1, <1>2, <1>5, <1>6, <1>9, <3>1 DEF Range
    <3>2. CASE id \notin Range(pairs)
      BY <1>2, <3>2 DEF Range
    <3>3. QED
      BY <3>1, <3>2
  <2>2. DOMAIN rows' = DOMAIN rows
    BY <1>2
  <2>3. Range(rows') \subseteq Range(rows)
    BY <2>1, <2>2 DEF Range
  <2>4. QED
    BY <1>1, <1>3, <2>2, <2>3 DEF TableTyped, Ids
<1>15. OtherTyped'
  BY <1>1, <1>3 DEF OtherTyped, Step, Stages, userVars, Ids
<1>16. QED
  BY <1>13, <1>14, <1>15, TypesJoin

LEMMA InRemoteOrderTyped ==
  ASSUME GroupTypes
  PROVE  InRemoteOrder \in Seq(Ids(nextId))
<1> DEFINE ids == Ids(nextId)
<1>1. fresh \in Seq(ids) /\ DOMAIN replaces \subseteq ids /\ Range(replaces) \subseteq ids
  BY TypesSplit DEF LocalsTyped
<1> HIDE DEF ids
<1>2. \A i \in 1..Len(fresh) :
        (IF fresh[i] \in DOMAIN replaces THEN replaces[fresh[i]] ELSE fresh[i]) \in ids
  BY <1>1 DEF Range
<1>3. DOMAIN fresh = 1..Len(fresh)
  BY <1>1
<1>4. InRemoteOrder \in Seq(ids)
  BY <1>1, <1>2, <1>3 DEF InRemoteOrder
<1>5. QED
  BY <1>4 DEF ids

LEMMA TypesOfReorder ==
  ASSUME GroupTypes, Reorder
  PROVE  GroupTypes'
<1> USE TypesSplit
<1> DEFINE ids == Ids(nextId)
<1>1. TableTyped /\ LocalsTyped(ids) /\ OtherTyped
  OBVIOUS
<1>2. /\ Step("reorder", "relook") /\ previous' = order /\ order' = Sorted
      /\ asked' = asked \ ToSet(order') /\ doomed' = {} /\ kept' = {}
      /\ UNCHANGED <<rows, nextId, userVars, remote, fresh, sticky, src, cleared, replaces,
                     disturbed, updates, before>>
  BY DEF Reorder
<1>3. Places(sticky, ids)
  BY <1>1, PlacesFacts DEF LocalsTyped
<1>4. order' \in Seq(ids)
  BY <1>2, <1>3, InRemoteOrderTyped, InsertAllFacts DEF Sorted
<1>5. LocalsTyped(Ids(nextId))'
  BY <1>1, <1>2 DEF LocalsTyped, TableTyped, Ids
<1>6. TableTyped'
  BY <1>1, <1>2, <1>4 DEF TableTyped, Ids
<1>7. OtherTyped'
  BY <1>1, <1>2 DEF OtherTyped, Step, Stages, userVars, Ids
<1>8. QED
  BY <1>5, <1>6, <1>7, TypesJoin

LEMMA TypesOfReinsert ==
  ASSUME GroupTypes, Reinsert
  PROVE  GroupTypes'
<1> USE TypesSplit
<1> DEFINE ids == Ids(nextId)
           lost == kept \ ToSet(order)
           id == CHOOSE x \in lost : TRUE
<1>1. TableTyped /\ LocalsTyped(ids) /\ OtherTyped
  OBVIOUS
<1>2. order' = IF lost = {} THEN order ELSE InsertBack(order, PlaceOf(id), id)
  BY DEF Reinsert
<1>3. order \in Seq(ids) /\ previous \in Seq(ids)
  BY <1>1 DEF TableTyped, LocalsTyped
<1>4. PlaceOf(id) \in Nat
  <2> HIDE DEF ids, id
  <2>1. CASE id \in ToSet(previous)
    <3>1. (CHOOSE i \in DOMAIN previous : previous[i] = id) \in DOMAIN previous
      BY <2>1 DEF ToSet
    <3>2. QED
      BY <2>1, <3>1, <1>3 DEF PlaceOf
  <2>2. CASE id \notin ToSet(previous)
    BY <1>3, <2>2 DEF PlaceOf
  <2>3. QED
    BY <2>1, <2>2
<1>5. order' \in Seq(ids)
  <2>1. CASE lost = {}
    BY <1>2, <1>3, <2>1
  <2>2. CASE lost # {}
    <3>1. id \in ids
      BY <1>1, <2>2 DEF LocalsTyped
    <3> HIDE DEF ids, id
    <3>2. QED
      BY <1>2, <1>3, <1>4, <2>2, <3>1, InsertBackFacts
  <2>3. QED
    BY <2>1, <2>2
<1>6. /\ Step("reinsert", "done")
      /\ UNCHANGED <<rows, nextId, userVars, remote, fresh, sticky, src, cleared, asked, doomed,
                     kept, replaces, previous, disturbed, updates, before>>
  BY DEF Reinsert
<1>7. LocalsTyped(Ids(nextId))'
  BY <1>1, <1>6 DEF LocalsTyped, Ids
<1>8. TableTyped'
  BY <1>1, <1>5, <1>6 DEF TableTyped, Ids
<1>9. OtherTyped'
  BY <1>1, <1>6 DEF OtherTyped, Step, Stages, userVars, Ids
<1>10. QED
  BY <1>7, <1>8, <1>9, TypesJoin

LEMMA TypesOfTheRest ==
  ASSUME GroupTypes,
         \/ Look("look", "delete") \/ Look("relook", "redelete") \/ AllNew \/ FinishUpdate
         \/ StopProfile \/ \E id \in DOMAIN rows : StartProfile(id)
  PROVE  GroupTypes'
<1> USE TypesSplit
<1>1. TableTyped /\ LocalsTyped(Ids(nextId)) /\ OtherTyped
  OBVIOUS
<1>2. UNCHANGED tableVars
  BY DEF Look, AllNew, FinishUpdate, StopProfile, StartProfile
<1>3. TableTyped' /\ Ids(nextId)' = Ids(nextId)
  BY <1>1, <1>2 DEF TableTyped, tableVars, Ids
<1>4. CASE Look("look", "delete") \/ Look("relook", "redelete")
  <2>1. LocalsTyped(Ids(nextId))'
    BY <1>1, <1>3, <1>4 DEF LocalsTyped, Look
  <2>2. OtherTyped'
    BY <1>1, <1>3, <1>4 DEF OtherTyped, Look, Step, Stages, userVars
  <2>3. QED
    BY <1>3, <2>1, <2>2, TypesJoin
<1>5. CASE AllNew
  <2>1. LocalsTyped(Ids(nextId))'
    BY <1>1, <1>3, <1>5 DEF LocalsTyped, AllNew
  <2>2. OtherTyped'
    BY <1>1, <1>3, <1>5 DEF OtherTyped, AllNew, Step, Stages, userVars
  <2>3. QED
    BY <1>3, <2>1, <2>2, TypesJoin
<1>6. CASE FinishUpdate
  <2>1. LocalsTyped(Ids(nextId))'
    <3>1. Range(<<>>) = {} /\ DOMAIN <<>> = {}
      BY DEF Range
    <3>2. QED
      BY <1>3, <1>6, <3>1 DEF LocalsTyped, FinishUpdate, Locals
  <2>2. remote' \in Seq(Outbound)
    BY <1>6 DEF FinishUpdate, Locals
  <2>3. OtherTyped'
    BY <1>1, <1>3, <1>6, <2>2 DEF OtherTyped, FinishUpdate, Locals, Step, Stages, userVars
  <2>4. QED
    BY <1>3, <2>1, <2>3, TypesJoin
<1>7. CASE StopProfile \/ \E id \in DOMAIN rows : StartProfile(id)
  <2>1. UNCHANGED updateVars /\ meddled' = meddled
    BY <1>7 DEF StopProfile, StartProfile, Deed
  <2>2. LocalsTyped(Ids(nextId))'
    BY <1>1, <1>3, <2>1 DEF LocalsTyped, updateVars
  <2>3. deeds' \in 0..MaxUser
    BY <1>1, <1>7, GroupAssumption DEF OtherTyped, StopProfile, StartProfile, Deed
  <2>4. startedId' \in Ids(nextId) \cup {NoId}
    BY <1>1, <1>7 DEF StopProfile, StartProfile, TableTyped
  <2>5. OtherTyped'
    BY <1>1, <1>3, <2>1, <2>3, <2>4 DEF OtherTyped, updateVars
  <2>6. QED
    BY <1>3, <2>2, <2>5, TypesJoin
<1>8. QED
  BY <1>4, <1>5, <1>6, <1>7

LEMMA TypesInductive == GroupTypes /\ [GroupNext]_groupVars => GroupTypes'
<1> SUFFICES ASSUME GroupTypes, [GroupNext]_groupVars PROVE GroupTypes'
  OBVIOUS
<1>1. CASE UNCHANGED groupVars
  <2>1. TableTyped' /\ LocalsTyped(Ids(nextId))' /\ OtherTyped'
    BY <1>1, TypesSplit DEF groupVars, tableVars, updateVars, userVars, TableTyped, LocalsTyped,
       OtherTyped, Ids
  <2>2. QED
    BY <2>1, TypesJoin
<1>2. CASE GroupNext
  BY <1>2, TypesOfBegin, TypesOfDelete, TypesOfAddBatch, TypesOfDiff, TypesOfReorder,
     TypesOfReinsert, TypesOfTheRest, TypesOfAddByHand, TypesOfDeleteByHand DEF GroupNext
<1>3. QED
  BY <1>1, <1>2

(* Every list of a refresh names rows that were given an id, whatever the user does.  *)
THEOREM GroupTypeCorrect == GroupSpec => []GroupTypeOK
<1>1. GroupTypes => GroupTypeOK
  BY DEF GroupTypes
<1>2. QED
  BY <1>1, TypesInitially, TypesInductive, PTL DEF GroupSpec

-----------------------------------------------------------------------------
(* The group is whole                                                                *)

\* One at most survives a deletion: the profile that started_id named when it looked.
SurvivorInv ==
    /\ stage \in {"delete", "redelete"} => doomed \subseteq asked /\ \E x : asked \ doomed \subseteq {x}
    /\ stage = "reinsert" => \E x : kept \subseteq {x}

LEMMA SurvivorInductive == SurvivorInv /\ [GroupNext]_groupVars => SurvivorInv'
<1> SUFFICES ASSUME SurvivorInv, [GroupNext]_groupVars PROVE SurvivorInv'
  OBVIOUS
<1> USE DEF SurvivorInv
<1>1. CASE UNCHANGED groupVars
  BY <1>1 DEF groupVars, updateVars
<1>2. ASSUME NEW here, NEW there \in {"delete", "redelete"}, Look(here, there) PROVE SurvivorInv'
  <2>1. doomed' \subseteq asked /\ asked \ doomed' \subseteq {startedId} /\ asked' = asked
    BY <1>2 DEF Look
  <2>2. stage' \in {"delete", "redelete"}
    BY <1>2 DEF Look, Step
  <2>3. QED
    BY <2>1, <2>2
<1>3. CASE Cleanup
  <2>1. (\E x : asked \ doomed \subseteq {x}) /\ kept' = asked \ doomed /\ stage' = "reinsert"
    BY <1>3 DEF Cleanup, Step, Delete, Survivors
  <2>2. QED
    BY <2>1
<1>4. ASSUME stage' \in {"idle", "look", "add", "diff", "reorder", "relook", "done"} PROVE SurvivorInv'
  BY <1>4
<1>5. CASE ClearDelete \/ AddBatch \/ Diff \/ AllNew \/ Reorder \/ Reinsert \/ FinishUpdate
  BY <1>4, <1>5 DEF ClearDelete, AddBatch, Diff, AllNew, Reorder, Reinsert, FinishUpdate, Step
<1>6. ASSUME NEW servers \in Remotes, NEW subClear \in BOOLEAN, BeginUpdate(servers, subClear)
      PROVE  SurvivorInv'
  BY <1>4, <1>6 DEF BeginUpdate, Step
<1>7. CASE UNCHANGED updateVars
  BY <1>7 DEF updateVars
<1>8. ASSUME \/ StopProfile
             \/ \E id \in DOMAIN rows : StartProfile(id) \/ DeleteByHand(id)
             \/ \E outbound \in Outbound \cup {Selector} : AddByHand(outbound)
      PROVE  SurvivorInv'
  BY <1>7, <1>8 DEF StopProfile, StartProfile, DeleteByHand, AddByHand, Deed
<1>9. QED
  BY <1>1, <1>2, <1>3, <1>5, <1>6, <1>8 DEF GroupNext

\* Every row is in one place: in the list, or among what is still to be deleted or put back.
WholeBody ==
    /\ IsInjective(order) /\ ToSet(order) \subseteq DOMAIN rows
    /\ stage \notin {"relook", "redelete", "reinsert"} => ToSet(order) = DOMAIN rows
    /\ stage \in {"look", "delete", "add", "diff", "reorder"} =>
          /\ Stickies \subseteq DOMAIN rows
          /\ \A i, j \in DOMAIN sticky : sticky[i][2] = sticky[j][2] => i = j
    /\ stage \in {"look", "delete"} => asked = DOMAIN rows \ Stickies
    /\ stage = "add" => ToSet(src) = DOMAIN rows \ Stickies
    /\ stage \in {"diff", "reorder"} =>
          /\ IsInjective(fresh)
          /\ ToSet(fresh) \cap ToSet(src) = {}
          /\ ToSet(fresh) \cup ToSet(src) = DOMAIN rows \ Stickies
    /\ stage = "reorder" =>
          /\ asked = DOMAIN rows \ Stickies
          /\ IsInjective(replaces)
          /\ DOMAIN replaces \subseteq ToSet(fresh) /\ Range(replaces) \subseteq ToSet(src)
    /\ stage \in {"relook", "redelete"} => asked = DOMAIN rows \ ToSet(order)
    /\ stage = "reinsert" => kept = DOMAIN rows \ ToSet(order)
WholeInv == ~meddled => WholeBody

\* Those of the group that are no selectors.
Servers == {id \in ToSet(order) : rows[id] # Selector}

\* What BeginUpdate notes: each selector once, with its place, and the servers.
LEMMA BeginFacts ==
  ASSUME GroupTypes, WholeBody, NEW servers \in Remotes, NEW subClear \in BOOLEAN,
         BeginUpdate(servers, subClear)
  PROVE  LET selectors == {id \in DOMAIN rows : rows[id] = Selector}
         IN  /\ Stickies' = selectors
             /\ \A i, j \in DOMAIN sticky' : sticky'[i][2] = sticky'[j][2] => i = j
             /\ subClear => asked' = DOMAIN rows \ selectors
             /\ ~subClear => ToSet(src') = DOMAIN rows \ selectors
             /\ ~subClear => src' = Filter(order, Servers)
             /\ LeftOut(sticky', order, Servers)
<1> DEFINE ids == Ids(nextId)
           selectors == {id \in DOMAIN rows : rows[id] = Selector}
           all == [i \in DOMAIN order |-> i]
           picked == {i \in DOMAIN order : order[i] \in selectors}
           places == Filter(all, picked)
           servers0 == Filter(order, ToSet(order) \ selectors)
<1>1. order \in Seq(ids) /\ IsInjective(order) /\ ToSet(order) = DOMAIN rows /\ stage = "idle"
  BY TypesSplit DEF TableTyped, WholeBody, BeginUpdate, Step
<1>2. /\ sticky' = [n \in DOMAIN places |-> <<places[n] - 1, order[places[n]]>>]
      /\ asked' = IF subClear THEN ToSet(servers0) ELSE {}
      /\ src' = IF subClear THEN <<>> ELSE Filter(servers0, DOMAIN rows)
  BY Zenon DEF BeginUpdate
<1>3. /\ stage' = IF subClear THEN "look" ELSE "add"
      /\ order' = order /\ rows' = rows
  BY DEF BeginUpdate, Step, tableVars
<1>4. servers0 \in Seq(ids) /\ ToSet(servers0) = DOMAIN rows \ selectors
  BY <1>1, FilterFacts
<1>5. ToSet(Filter(servers0, DOMAIN rows)) = DOMAIN rows \ selectors
  <2> HIDE DEF servers0
  <2> QED BY <1>4, FilterFacts
<1>6. /\ places \in Seq(1..Len(order)) /\ ToSet(places) = picked /\ IsInjective(places)
  <2>1. all \in Seq(1..Len(order)) /\ ToSet(all) = DOMAIN order /\ IsInjective(all)
    <3>1. DOMAIN order = 1..Len(order) /\ Len(order) \in Nat
      BY <1>1
    <3>2. all \in Seq(1..Len(order)) /\ DOMAIN all = DOMAIN order
      BY <3>1
    <3>3. \A i \in DOMAIN all : all[i] = i
      OBVIOUS
    <3> HIDE DEF all
    <3>4. QED
      BY <3>2, <3>3 DEF ToSet, IsInjective
  <2> HIDE DEF all
  <2>2. QED
    BY <2>1, FilterFacts
<1>7. (Stickies)' = selectors
  <2> HIDE DEF places
  <2>1. (Stickies)' = {order[places[n]] : n \in DOMAIN places}
    BY <1>2 DEF Stickies
  <2>2. {order[places[n]] : n \in DOMAIN places} = {order[i] : i \in picked}
    BY <1>6 DEF ToSet
  <2>3. {order[i] : i \in picked} = selectors
    BY <1>1 DEF ToSet
  <2>4. QED
    BY <2>1, <2>2, <2>3
<1>8. \A i, j \in DOMAIN sticky' : sticky'[i][2] = sticky'[j][2] => i = j
  <2> HIDE DEF places
  <2> SUFFICES ASSUME NEW i \in DOMAIN places, NEW j \in DOMAIN places,
                      order[places[i]] = order[places[j]]
               PROVE  i = j
    BY <1>2
  <2>1. places[i] \in DOMAIN order /\ places[j] \in DOMAIN order
    BY <1>1, <1>6
  <2>2. places[i] = places[j]
    BY <1>1, <2>1 DEF IsInjective
  <2>3. QED
    BY <1>6, <2>2 DEF IsInjective
<1>9. ToSet(order) \ selectors = Servers
  BY <1>1 DEF Servers
<1>10. Filter(servers0, DOMAIN rows) = Filter(order, Servers)
  <2>1. servers0 = Filter(order, Servers)
    BY <1>9
  <2> HIDE DEF servers0
  <2>2. Filter(servers0, DOMAIN rows) = servers0
    BY <1>4, FilterAll
  <2>3. QED
    BY <2>1, <2>2
<1>11. LeftOut(sticky', order, Servers)
  <2>1. \A i, j \in DOMAIN places : i < j => places[i] < places[j]
    <3>1. all \in Seq(Nat) /\ \A i, j \in 1..Len(all) : i < j => all[i] < all[j]
      <4>1. DOMAIN order = 1..Len(order) /\ Len(order) \in Nat
        BY <1>1
      <4>2. all \in Seq(Nat) /\ Len(all) = Len(order) /\ \A i \in 1..Len(order) : all[i] = i
        BY <4>1
      <4> HIDE DEF all
      <4>3. QED
        BY <4>2
    <3> HIDE DEF all
    <3>2. QED
      BY <3>1, FilterAscends
  <2> HIDE DEF places
  <2>2. DOMAIN places = 1..Len(places) /\ Len(places) \in Nat /\ DOMAIN order = 1..Len(order)
    BY <1>1, <1>6
  <2>3. /\ DOMAIN sticky' = 1..Len(places) /\ Len(sticky') = Len(places)
        /\ \A n \in 1..Len(places) : sticky'[n][1] = places[n] - 1 /\ sticky'[n][2] = order[places[n]]
    BY <1>2, <2>2
  <2>4. ASSUME NEW n \in 1..Len(places)
        PROVE  places[n] \in 1..Len(order) /\ order[places[n]] \in selectors
    BY <1>6, <2>2 DEF ToSet
  <2>5. ASSUME NEW i \in 1..Len(order), order[i] \notin Servers
        PROVE  \E n \in 1..Len(places) : places[n] = i
    <3>1. order[i] \in selectors
      BY <1>1, <1>9, <2>2, <2>5 DEF ToSet
    <3>2. i \in ToSet(places)
      BY <1>6, <2>2, <3>1
    <3>3. QED
      BY <2>2, <3>2 DEF ToSet
  <2>6. selectors \cap Servers = {}
    BY DEF Servers
  <2>7. ASSUME NEW n \in 1..Len(sticky')
        PROVE  /\ sticky'[n][1] \in 0..Len(order)-1
               /\ sticky'[n][2] = order[sticky'[n][1] + 1] /\ sticky'[n][2] \notin Servers
    <3>1. places[n] \in 1..Len(order) /\ order[places[n]] \in selectors
      BY <2>3, <2>4
    <3>2. /\ sticky'[n][1] = places[n] - 1 /\ sticky'[n][2] = order[places[n]]
          /\ places[n] - 1 + 1 = places[n] /\ places[n] - 1 \in 0..Len(order)-1
      BY <2>3, <3>1
    <3>3. QED
      BY <2>6, <3>1, <3>2
  <2>8. ASSUME NEW i \in 1..Len(order), order[i] \notin Servers
        PROVE  \E n \in 1..Len(sticky') : sticky'[n][1] + 1 = i
    <3>1. PICK n \in 1..Len(places) : places[n] = i
      BY <2>5, <2>8
    <3>2. n \in 1..Len(sticky') /\ sticky'[n][1] + 1 = i
      BY <2>3, <3>1
    <3>3. QED
      BY <3>2
  <2>9. ASSUME NEW i \in 1..Len(sticky'), NEW j \in 1..Len(sticky'), i < j
        PROVE  sticky'[i][1] < sticky'[j][1]
    <3>1. places[i] < places[j] /\ places[i] \in 1..Len(order) /\ places[j] \in 1..Len(order)
      BY <2>1, <2>2, <2>3, <2>4, <2>9
    <3>2. QED
      BY <2>3, <3>1
  <2>10. QED
    BY <2>2, <2>3, <2>7, <2>8, <2>9 DEF LeftOut
<1>12. QED
  BY <1>2, <1>4, <1>5, <1>7, <1>8, <1>10, <1>11

LEMMA WholeOfBegin ==
  ASSUME GroupTypes, WholeBody, NEW servers \in Remotes, NEW subClear \in BOOLEAN,
         BeginUpdate(servers, subClear)
  PROVE  WholeBody'
<1> DEFINE selectors == {id \in DOMAIN rows : rows[id] = Selector}
<1>1. /\ IsInjective(order) /\ ToSet(order) = DOMAIN rows
      /\ stage' = IF subClear THEN "look" ELSE "add"
      /\ order' = order /\ rows' = rows /\ selectors \subseteq DOMAIN rows
  BY DEF WholeBody, BeginUpdate, Step, tableVars
<1>2. /\ Stickies' = selectors
      /\ \A i, j \in DOMAIN sticky' : sticky'[i][2] = sticky'[j][2] => i = j
      /\ subClear => asked' = DOMAIN rows \ selectors
      /\ ~subClear => ToSet(src') = DOMAIN rows \ selectors
  BY BeginFacts
<1> HIDE DEF selectors
<1>3. QED
  BY <1>1, <1>2 DEF WholeBody

LEMMA WholeOfClearDelete ==
  ASSUME GroupTypes, SurvivorInv, WholeBody, ClearDelete
  PROVE  WholeBody'
<1> DEFINE ids == Ids(nextId)
           left == Filter(ServersOf(order), DOMAIN rows \ doomed)
<1>1. /\ order \in Seq(ids) /\ IsInjective(order) /\ ToSet(order) = DOMAIN rows
      /\ stage = "delete" /\ stage' = "add"
      /\ Stickies \subseteq DOMAIN rows
      /\ \A i, j \in DOMAIN sticky : sticky[i][2] = sticky[j][2] => i = j
      /\ asked = DOMAIN rows \ Stickies /\ doomed \subseteq asked
  BY TypesSplit DEF TableTyped, WholeBody, SurvivorInv, ClearDelete, Step
<1>2. /\ order' = Filter(order, ToSet(order) \ doomed)
      /\ rows' = Restrict(rows, DOMAIN rows \ doomed)
      /\ kept' = asked \ doomed
      /\ src' = IF kept' = {} THEN <<>> ELSE left
      /\ sticky' = sticky
  BY DEF ClearDelete, Delete, Survivors
<1>3. IsInjective(order') /\ ToSet(order') = DOMAIN rows \ doomed /\ DOMAIN rows' = DOMAIN rows \ doomed
  BY <1>1, <1>2, FilterFacts DEF Restrict
<1>4. ServersOf(order) \in Seq(ids) /\ ToSet(ServersOf(order)) = DOMAIN rows \ Stickies
  BY <1>1, FilterFacts DEF ServersOf
<1>5. ToSet(left) = (DOMAIN rows \ Stickies) \ doomed
  BY <1>4, FilterFacts
<1>6. ToSet(src') = DOMAIN rows' \ Stickies
  <2> HIDE DEF left
  <2>1. CASE kept' = {}
    <3>1. ToSet(<<>>) = {}
      BY DEF ToSet
    <3>2. QED
      BY <1>1, <1>2, <1>3, <2>1, <3>1
  <2>2. CASE kept' # {}
    BY <1>2, <1>3, <1>5, <2>2
  <2>3. QED
    BY <2>1, <2>2
<1>7. Stickies' = Stickies /\ Stickies \subseteq DOMAIN rows'
  BY <1>1, <1>2, <1>3 DEF Stickies
<1>8. QED
  BY <1>1, <1>2, <1>3, <1>6, <1>7 DEF WholeBody

LEMMA WholeOfAddBatch ==
  ASSUME GroupTypes, WholeBody, AddBatch
  PROVE  WholeBody'
<1> DEFINE ids == Ids(nextId)
           n == Len(remote)
           new == [id \in nextId..(nextId + n - 1) |-> remote[id - nextId + 1]]
<1>1. /\ order \in Seq(ids) /\ IsInjective(order) /\ ToSet(order) = DOMAIN rows
      /\ DOMAIN rows \subseteq ids /\ nextId \in Nat \ {0} /\ n \in Nat /\ DOMAIN remote = 1..n
      /\ stage = "add" /\ stage' = "diff"
      /\ Stickies \subseteq DOMAIN rows
      /\ \A i, j \in DOMAIN sticky : sticky[i][2] = sticky[j][2] => i = j
      /\ ToSet(src) = DOMAIN rows \ Stickies
  BY TypesSplit DEF TableTyped, OtherTyped, WholeBody, AddBatch, Step
<1>2. /\ fresh' = [i \in 1..n |-> nextId + i - 1]
      /\ rows' = With(rows, new)
      /\ order' = order \o fresh'
      /\ sticky' = sticky /\ src' = src
  BY <1>1 DEF AddBatch
<1>3. fresh' \in Seq(Nat) /\ Len(fresh') = n /\ IsInjective(fresh')
  <2>1. fresh' \in Seq(Nat) /\ Len(fresh') = n
    BY <1>1, <1>2
  <2>2. \A i, j \in 1..n : nextId + i - 1 = nextId + j - 1 => i = j
    BY <1>1
  <2>3. QED
    BY <1>2, <2>1, <2>2 DEF IsInjective
<1>4. ToSet(fresh') = nextId..(nextId + n - 1)
  <2>1. ASSUME NEW k \in nextId..(nextId + n - 1) PROVE k \in ToSet(fresh')
    <3>1. k - nextId + 1 \in 1..n /\ nextId + (k - nextId + 1) - 1 = k
      BY <1>1
    <3>2. QED
      BY <1>2, <3>1 DEF ToSet
  <2>2. ASSUME NEW i \in 1..n PROVE nextId + i - 1 \in nextId..(nextId + n - 1)
    BY <1>1
  <2>3. QED
    BY <1>2, <2>1, <2>2 DEF ToSet
<1>5. ToSet(fresh') \cap ids = {}
  BY <1>1, <1>4 DEF Ids
<1>6. DOMAIN rows' = DOMAIN rows \cup ToSet(fresh')
  BY <1>2, <1>4 DEF With
<1>7. ToSet(order') = ToSet(order) \cup ToSet(fresh') /\ IsInjective(order')
  <2>1. order \in Seq(Nat)
    BY <1>1, SeqGrows DEF Ids
  <2>2. ToSet(order) \cap ToSet(fresh') = {}
    BY <1>1, <1>5
  <2> DEFINE f == fresh'
  <2>3. f \in Seq(Nat) /\ IsInjective(f) /\ ToSet(order) \cap ToSet(f) = {} /\ order' = order \o f
    BY <1>2, <1>3, <2>2
  <2> HIDE DEF f
  <2>4. ToSet(order \o f) = ToSet(order) \cup ToSet(f) /\ IsInjective(order \o f)
    BY <1>1, <2>1, <2>3, ConcatFacts
  <2>5. QED
    BY <2>3, <2>4 DEF f
<1>8. Stickies' = Stickies
  BY <1>2 DEF Stickies
<1>9. /\ ToSet(fresh') \cap ToSet(src') = {}
      /\ ToSet(fresh') \cup ToSet(src') = DOMAIN rows' \ Stickies'
  BY <1>1, <1>2, <1>5, <1>6, <1>8
<1>10. QED
  BY <1>1, <1>2, <1>3, <1>6, <1>7, <1>8, <1>9 DEF WholeBody

\* What Diff finds: old ones that are what was sent, and others that are to become it.
Found(same, pairs) ==
    /\ replaces' = With(same, pairs)
    /\ rows' = [id \in DOMAIN rows |->
                  IF id \in Range(pairs) THEN rows[CHOOSE n \in DOMAIN pairs : pairs[n] = id]
                  ELSE rows[id]]
    /\ DOMAIN same \subseteq ToSet(fresh) /\ Range(same) \subseteq ToSet(src)
    /\ DOMAIN pairs \subseteq ToSet(fresh) /\ Range(pairs) \subseteq ToSet(src)
    /\ IsInjective(same) /\ IsInjective(pairs)
    /\ Range(same) \cap Range(pairs) = {}
    /\ \A x \in DOMAIN same : rows[same[x]] = rows[x]

LEMMA DiffFacts ==
  ASSUME GroupTypes, WholeBody, Diff
  PROVE  /\ \E same, pairs : Found(same, pairs)
         /\ asked' = DOMAIN rows \ Stickies
<1> DEFINE ids == Ids(nextId)
           old == Filter(src, DOMAIN rows)
           new == Filter(ServersOf(order), ToSet(order) \ ToSet(src))
           oldOthers == Others(old, new)
           newOthers == Others(new, old)
           same == Pair(old, new, rows)
           pairs == Pair(oldOthers, newOthers, Identity)
<1>1. /\ order \in Seq(ids) /\ IsInjective(order) /\ ToSet(order) = DOMAIN rows
      /\ src \in Seq(ids)
      /\ stage = "diff" /\ stage' = "reorder"
      /\ Stickies \subseteq DOMAIN rows
      /\ \A i, j \in DOMAIN sticky : sticky[i][2] = sticky[j][2] => i = j
      /\ IsInjective(fresh)
      /\ ToSet(fresh) \cap ToSet(src) = {}
      /\ ToSet(fresh) \cup ToSet(src) = DOMAIN rows \ Stickies
  BY TypesSplit DEF TableTyped, LocalsTyped, WholeBody, Diff, Step
<1>2. /\ replaces' = With(same, pairs)
      /\ rows' = [id \in DOMAIN rows |->
                    IF id \in Range(pairs) THEN rows[CHOOSE n \in DOMAIN pairs : pairs[n] = id]
                    ELSE rows[id]]
      /\ asked' = ToSet(ServersOf(order))
  BY Zenon DEF Diff
<1>3. ServersOf(order) \in Seq(ids) /\ ToSet(ServersOf(order)) = DOMAIN rows \ Stickies
  BY <1>1, FilterFacts DEF ServersOf
<1>4. old \in Seq(ids) /\ ToSet(old) = ToSet(src)
  <2>1. old \in Seq(ids) /\ ToSet(old) = ToSet(src) \cap DOMAIN rows
    BY <1>1, FilterFacts
  <2> HIDE DEF old
  <2>2. QED
    BY <1>1, <2>1
<1>5. new \in Seq(ids) /\ ToSet(new) = ToSet(fresh)
  <2>1. new \in Seq(ids) /\ ToSet(new) = ToSet(ServersOf(order)) \cap (ToSet(order) \ ToSet(src))
    BY <1>3, FilterFacts
  <2> HIDE DEF new
  <2>2. QED
    BY <1>1, <1>3, <2>1
<1> HIDE DEF old, new
<1>6. /\ oldOthers \in Seq(ids)
      /\ ToSet(oldOthers) = {x \in ToSet(old) : \A i \in DOMAIN new : rows[new[i]] # rows[x]}
      /\ newOthers \in Seq(ids) /\ ToSet(newOthers) \subseteq ToSet(new)
  BY <1>4, <1>5, FilterFacts DEF Others
<1> HIDE DEF oldOthers, newOthers
<1>7. /\ same \in Tables(ToSet(new), ToSet(old)) /\ IsInjective(same)
      /\ \A x \in DOMAIN same : rows[same[x]] = rows[x]
  BY <1>4, <1>5, PairFacts
<1>8. pairs \in Tables(ToSet(newOthers), ToSet(oldOthers)) /\ IsInjective(pairs)
  BY <1>6, PairFacts
<1> HIDE DEF same, pairs
<1>9. /\ DOMAIN same \subseteq ToSet(new) /\ \A x \in DOMAIN same : same[x] \in ToSet(old)
      /\ DOMAIN pairs \subseteq ToSet(new) /\ \A x \in DOMAIN pairs : pairs[x] \in ToSet(oldOthers)
  BY <1>6, <1>7, <1>8 DEF Tables
<1>10. ASSUME NEW x \in DOMAIN same, NEW y \in DOMAIN pairs PROVE same[x] # pairs[y]
  <2>1. x \in ToSet(new) /\ rows[same[x]] = rows[x]
    BY <1>7, <1>9
  <2>2. PICK i \in DOMAIN new : new[i] = x
    BY <2>1 DEF ToSet
  <2>3. pairs[y] \in ToSet(oldOthers)
    BY <1>9
  <2>4. rows[x] # rows[pairs[y]]
    BY <1>6, <2>2, <2>3
  <2>5. QED
    BY <2>1, <2>4
<1>11. /\ DOMAIN same \subseteq ToSet(fresh) /\ Range(same) \subseteq ToSet(src)
       /\ DOMAIN pairs \subseteq ToSet(fresh) /\ Range(pairs) \subseteq ToSet(src)
       /\ Range(same) \cap Range(pairs) = {}
  <2>1. \A x \in DOMAIN pairs : pairs[x] \in ToSet(src)
    BY <1>4, <1>6, <1>9
  <2>2. QED
    BY <1>4, <1>5, <1>9, <1>10, <2>1 DEF Range
<1>12. Found(same, pairs)
  BY <1>2, <1>7, <1>8, <1>11 DEF Found
<1>13. QED
  BY <1>2, <1>3, <1>12

LEMMA WholeOfDiff ==
  ASSUME GroupTypes, WholeBody, Diff
  PROVE  WholeBody'
<1>1. /\ IsInjective(order) /\ ToSet(order) = DOMAIN rows
      /\ stage = "diff" /\ stage' = "reorder"
      /\ Stickies \subseteq DOMAIN rows
      /\ \A i, j \in DOMAIN sticky : sticky[i][2] = sticky[j][2] => i = j
      /\ IsInjective(fresh)
      /\ ToSet(fresh) \cap ToSet(src) = {}
      /\ ToSet(fresh) \cup ToSet(src) = DOMAIN rows \ Stickies
  BY DEF WholeBody, Diff, Step
<1>2. /\ asked' = DOMAIN rows \ Stickies
      /\ UNCHANGED <<order, fresh, sticky, src>>
  BY DiffFacts DEF Diff
<1>3. PICK same, pairs : Found(same, pairs)
  BY DiffFacts
<1>4. /\ DOMAIN rows' = DOMAIN rows
      /\ DOMAIN replaces' = DOMAIN same \cup DOMAIN pairs
      /\ \A x \in DOMAIN replaces' : replaces'[x] = IF x \in DOMAIN same THEN same[x] ELSE pairs[x]
  BY <1>3 DEF Found, With
<1>5. /\ \A x \in DOMAIN same : same[x] \in ToSet(src)
      /\ \A x \in DOMAIN pairs : pairs[x] \in ToSet(src)
      /\ \A x \in DOMAIN same, y \in DOMAIN pairs : same[x] # pairs[y]
  BY <1>3 DEF Found, Range
<1>6. IsInjective(replaces')
  <2> SUFFICES ASSUME NEW x \in DOMAIN replaces', NEW y \in DOMAIN replaces', replaces'[x] = replaces'[y]
               PROVE  x = y
    BY DEF IsInjective
  <2>1. CASE x \in DOMAIN same <=> y \in DOMAIN same
    BY <1>3, <1>4, <2>1 DEF IsInjective, Found
  <2>2. CASE ~(x \in DOMAIN same <=> y \in DOMAIN same)
    BY <1>4, <1>5, <2>2
  <2>3. QED
    BY <2>1, <2>2
<1>7. DOMAIN replaces' \subseteq ToSet(fresh) /\ Range(replaces') \subseteq ToSet(src)
  <2>1. \A x \in DOMAIN replaces' : replaces'[x] \in ToSet(src)
    BY <1>4, <1>5
  <2>2. QED
    BY <1>3, <1>4, <2>1 DEF Range, Found
<1>8. Stickies' = Stickies /\ asked' = DOMAIN rows' \ Stickies
  BY <1>2, <1>4 DEF Stickies
<1>9. QED
  BY <1>1, <1>2, <1>4, <1>6, <1>7, <1>8 DEF WholeBody

LEMMA WholeOfReorder ==
  ASSUME GroupTypes, WholeBody, Reorder
  PROVE  WholeBody'
<1> DEFINE ids == Ids(nextId)
           At(i) == IF fresh[i] \in DOMAIN replaces THEN replaces[fresh[i]] ELSE fresh[i]
<1>1. /\ DOMAIN rows \subseteq ids
      /\ stage = "reorder" /\ stage' = "relook"
      /\ Stickies \subseteq DOMAIN rows
      /\ \A i, j \in DOMAIN sticky : sticky[i][2] = sticky[j][2] => i = j
      /\ IsInjective(fresh)
      /\ ToSet(fresh) \cap ToSet(src) = {}
      /\ ToSet(fresh) \cup ToSet(src) = DOMAIN rows \ Stickies
      /\ asked = DOMAIN rows \ Stickies
      /\ IsInjective(replaces)
      /\ DOMAIN replaces \subseteq ToSet(fresh) /\ Range(replaces) \subseteq ToSet(src)
  BY TypesSplit DEF TableTyped, LocalsTyped, WholeBody, Reorder, Step
<1>2. /\ order' = InsertAll(InRemoteOrder, sticky)
      /\ asked' = asked \ ToSet(order')
      /\ rows' = rows
  BY DEF Reorder, Sorted
<1>3. Places(sticky, ids) /\ DOMAIN sticky = 1..Len(sticky)
  BY TypesSplit, PlacesFacts DEF Places, LocalsTyped
<1>4. /\ InRemoteOrder \in Seq(ids) /\ DOMAIN InRemoteOrder = DOMAIN fresh
      /\ \A i \in DOMAIN fresh : InRemoteOrder[i] = At(i)
  BY InRemoteOrderTyped DEF InRemoteOrder
<1>5. \A i \in DOMAIN fresh :
        /\ fresh[i] \in DOMAIN replaces => At(i) \in ToSet(src)
        /\ fresh[i] \notin DOMAIN replaces => At(i) \in ToSet(fresh)
  BY <1>1 DEF ToSet, Range
<1>6. IsInjective(InRemoteOrder)
  <2> SUFFICES ASSUME NEW i \in DOMAIN fresh, NEW j \in DOMAIN fresh, At(i) = At(j) PROVE i = j
    BY <1>4 DEF IsInjective
  <2>1. fresh[i] \in DOMAIN replaces <=> fresh[j] \in DOMAIN replaces
    <3> HIDE DEF At
    <3> QED BY <1>1, <1>5
  <2>2. fresh[i] = fresh[j]
    BY <1>1, <2>1 DEF IsInjective
  <2>3. QED
    BY <1>1, <2>2 DEF IsInjective
<1>7. ToSet(InRemoteOrder) \subseteq DOMAIN rows \ Stickies
  <2> HIDE DEF At
  <2>1. \A i \in DOMAIN fresh : At(i) \in ToSet(src) \cup ToSet(fresh)
    BY <1>5
  <2>2. ToSet(InRemoteOrder) \subseteq ToSet(src) \cup ToSet(fresh)
    BY <1>4, <2>1 DEF ToSet
  <2>3. QED
    BY <1>1, <2>2
<1>8. \A i \in DOMAIN sticky : sticky[i][2] \notin ToSet(InRemoteOrder)
  BY <1>7 DEF Stickies
<1>9. /\ order' \in Seq(ids) /\ IsInjective(order')
      /\ ToSet(order') = ToSet(InRemoteOrder) \cup Stickies
  <2>1. order' \in Seq(ids) /\ ToSet(order') = ToSet(InRemoteOrder) \cup {sticky[i][2] : i \in DOMAIN sticky}
    BY <1>2, <1>3, <1>4, InsertAllFacts
  <2>2. IsInjective(order')
    BY <1>1, <1>2, <1>3, <1>4, <1>6, <1>8, InsertAllFacts
  <2>3. QED
    BY <2>1, <2>2 DEF Stickies
<1>10. asked' = DOMAIN rows' \ ToSet(order') /\ ToSet(order') \subseteq DOMAIN rows'
  BY <1>1, <1>2, <1>7, <1>9
<1>11. QED
  BY <1>1, <1>9, <1>10 DEF WholeBody

LEMMA WholeOfCleanup ==
  ASSUME GroupTypes, SurvivorInv, WholeBody, Cleanup
  PROVE  WholeBody'
<1>1. /\ order \in Seq(Ids(nextId)) /\ IsInjective(order) /\ ToSet(order) \subseteq DOMAIN rows
      /\ asked = DOMAIN rows \ ToSet(order) /\ doomed \subseteq asked
      /\ stage' = "reinsert"
  BY TypesSplit DEF TableTyped, WholeBody, SurvivorInv, Cleanup, Step
<1>2. /\ order' = Filter(order, ToSet(order) \ doomed)
      /\ DOMAIN rows' = DOMAIN rows \ doomed
      /\ kept' = asked \ doomed
  BY DEF Cleanup, Delete, Survivors, Restrict
<1>3. IsInjective(order') /\ ToSet(order') = ToSet(order)
  <2>1. IsInjective(order') /\ ToSet(order') = ToSet(order) \cap (ToSet(order) \ doomed)
    BY <1>1, <1>2, FilterFacts
  <2>2. QED
    BY <1>1, <2>1
<1>4. QED
  BY <1>1, <1>2, <1>3 DEF WholeBody

LEMMA PlaceOfTyped ==
  ASSUME GroupTypes, NEW id
  PROVE  PlaceOf(id) \in Nat
<1>1. previous \in Seq(Ids(nextId)) /\ order \in Seq(Ids(nextId))
  BY TypesSplit DEF TableTyped, LocalsTyped
<1>2. CASE id \in ToSet(previous)
  <2>1. (CHOOSE i \in DOMAIN previous : previous[i] = id) \in DOMAIN previous
    BY <1>2 DEF ToSet
  <2>2. QED
    BY <1>1, <1>2, <2>1 DEF PlaceOf
<1>3. CASE id \notin ToSet(previous)
  BY <1>1, <1>3 DEF PlaceOf
<1>4. QED
  BY <1>2, <1>3

LEMMA WholeOfReinsert ==
  ASSUME GroupTypes, SurvivorInv, WholeBody, Reinsert
  PROVE  WholeBody'
<1> DEFINE ids == Ids(nextId)
           lost == kept \ ToSet(order)
           id == CHOOSE x \in lost : TRUE
<1>1. /\ order \in Seq(ids) /\ IsInjective(order) /\ ToSet(order) \subseteq DOMAIN rows
      /\ DOMAIN rows \subseteq ids /\ previous \in Seq(ids)
      /\ kept = DOMAIN rows \ ToSet(order)
      /\ stage' = "done" /\ rows' = rows
  BY TypesSplit DEF TableTyped, LocalsTyped, WholeBody, Reinsert, Step
<1>2. PICK x : kept \subseteq {x}
  BY DEF SurvivorInv, Reinsert, Step
<1>3. order' = IF lost = {} THEN order ELSE InsertBack(order, PlaceOf(id), id)
  BY DEF Reinsert
<1>4. CASE lost = {}
  BY <1>1, <1>3, <1>4 DEF WholeBody
<1>5. CASE lost # {}
  <2>1. id \in lost /\ lost = {id} /\ id \in ids
    BY <1>1, <1>2, <1>5
  <2> HIDE DEF id, ids
  <2>2. PlaceOf(id) \in Nat
    BY PlaceOfTyped
  <2>3. /\ ToSet(order') = ToSet(order) \cup {id}
        /\ IsInjective(order) /\ id \notin ToSet(order) => IsInjective(order')
    <3>1. order \in Seq(ids) /\ id \in ids /\ order' = InsertBack(order, PlaceOf(id), id)
      BY <1>1, <1>3, <1>5, <2>1 DEF ids
    <3> HIDE DEF lost
    <3> DEFINE p == PlaceOf(id)
    <3> HIDE DEF p
    <3>1a. p \in Nat
      BY <2>2 DEF p
    <3>2. ToSet(InsertBack(order, p, id)) = ToSet(order) \cup {id}
      BY <3>1, <3>1a, InsertBackFacts
    <3>2a. IsInjective(order) /\ id \notin ToSet(order) => IsInjective(InsertBack(order, p, id))
      BY <3>1, <3>1a, InsertBackFacts
    <3>3. QED
      BY <3>1, <3>2, <3>2a DEF p
  <2>4. IsInjective(order') /\ ToSet(order') = DOMAIN rows'
    BY <1>1, <2>1, <2>3
  <2>5. QED
    BY <1>1, <2>4 DEF WholeBody
<1>6. QED
  BY <1>4, <1>5

LEMMA WholeOfTheRest ==
  ASSUME WholeBody,
         \/ Look("look", "delete") \/ Look("relook", "redelete") \/ AllNew \/ FinishUpdate
         \/ UNCHANGED <<tableVars, updateVars>>
  PROVE  WholeBody'
<1>1. CASE Look("look", "delete")
  BY <1>1 DEF WholeBody, Look, Step, tableVars, Stickies
<1>2. CASE Look("relook", "redelete")
  BY <1>2 DEF WholeBody, Look, Step, tableVars, Stickies
<1>3. CASE AllNew
  BY <1>3 DEF WholeBody, AllNew, Step, tableVars
<1>4. CASE FinishUpdate
  BY <1>4 DEF WholeBody, FinishUpdate, Step, tableVars
<1>5. CASE UNCHANGED <<tableVars, updateVars>>
  BY <1>5 DEF WholeBody, tableVars, updateVars, Stickies
<1>6. QED
  BY <1>1, <1>2, <1>3, <1>4, <1>5

\* Between two refreshes the user adds and deletes what he likes.
LEMMA WholeOfTheUser ==
  ASSUME GroupTypes, WholeBody, ~meddled',
         \/ \E id \in DOMAIN rows : DeleteByHand(id)
         \/ \E outbound \in Outbound \cup {Selector} : AddByHand(outbound)
  PROVE  WholeBody'
<1>1. /\ stage = "idle" /\ stage' = "idle"
      /\ order \in Seq(Ids(nextId)) /\ nextId \in Nat \ {0}
      /\ IsInjective(order) /\ ToSet(order) = DOMAIN rows /\ DOMAIN rows \subseteq Ids(nextId)
  <2>1. stage = "idle" /\ stage' = stage
    BY DEF DeleteByHand, AddByHand, Deed, updateVars
  <2>2. QED
    BY <2>1, TypesSplit DEF TableTyped, WholeBody
<1>2. ASSUME NEW id \in DOMAIN rows, DeleteByHand(id) PROVE WholeBody'
  <2>1. order' = Filter(order, ToSet(order) \ {id}) /\ DOMAIN rows' = DOMAIN rows \ {id}
    BY <1>2 DEF DeleteByHand, Restrict
  <2>2. IsInjective(order') /\ ToSet(order') = ToSet(order) \cap (ToSet(order) \ {id})
    BY <1>1, <2>1, FilterFacts
  <2>3. QED
    BY <1>1, <2>1, <2>2 DEF WholeBody
<1>3. ASSUME NEW outbound, AddByHand(outbound) PROVE WholeBody'
  <2>1. order' = Append(order, nextId) /\ DOMAIN rows' = DOMAIN rows \cup {nextId}
    BY <1>3 DEF AddByHand, Put, With
  <2>2. nextId \notin ToSet(order)
    BY <1>1 DEF Ids
  <2>3. ToSet(order') = ToSet(order) \cup {nextId}
    BY <1>1, <2>1 DEF ToSet
  <2>4. IsInjective(order')
    BY <1>1, <2>1, <2>2 DEF IsInjective, ToSet
  <2>5. QED
    BY <1>1, <2>1, <2>3, <2>4 DEF WholeBody
<1>4. QED
  BY <1>2, <1>3

LEMMA MeddledStays ==
  ASSUME [GroupNext]_groupVars, ~meddled'
  PROVE  ~meddled
<1>1. ASSUME NEW id \in DOMAIN rows, DeleteByHand(id) PROVE ~meddled
  BY <1>1 DEF DeleteByHand
<1>2. ASSUME NEW outbound \in Outbound \cup {Selector}, AddByHand(outbound) PROVE ~meddled
  BY <1>2 DEF AddByHand
<1>3. QED
  BY <1>1, <1>2 DEF GroupNext, groupVars, userVars, BeginUpdate, Look, ClearDelete, AddBatch, Diff,
     AllNew, Reorder, Cleanup, Reinsert, FinishUpdate, StopProfile, StartProfile

LEMMA WholeInductive == GroupTypes /\ SurvivorInv /\ WholeInv /\ [GroupNext]_groupVars => WholeInv'
<1> SUFFICES ASSUME GroupTypes, SurvivorInv, WholeInv, [GroupNext]_groupVars, ~meddled'
             PROVE  WholeBody'
  BY DEF WholeInv
<1>2. ~meddled /\ WholeBody
  BY MeddledStays DEF WholeInv
<1>3. CASE UNCHANGED groupVars
  BY <1>2, <1>3, WholeOfTheRest DEF groupVars
<1>4. CASE StopProfile \/ \E id \in DOMAIN rows : StartProfile(id)
  BY <1>2, <1>4, WholeOfTheRest DEF StopProfile, StartProfile, Deed
<1>5. CASE GroupNext
  BY <1>2, <1>4, <1>5, WholeOfBegin, WholeOfClearDelete, WholeOfAddBatch, WholeOfDiff, WholeOfReorder,
     WholeOfCleanup, WholeOfReinsert, WholeOfTheRest, WholeOfTheUser DEF GroupNext
<1>6. QED
  BY <1>3, <1>5

LEMMA GroupInitially == GroupInit => GroupTypes /\ SurvivorInv /\ WholeInv
<1> SUFFICES ASSUME GroupInit PROVE GroupTypes /\ SurvivorInv /\ WholeBody
  BY DEF WholeInv
<1>1. order = <<1>> /\ rows = <<Selector>> /\ stage = "idle"
  BY DEF GroupInit
<1>2. IsInjective(order) /\ ToSet(order) = {1} /\ DOMAIN rows = {1}
  BY <1>1 DEF IsInjective, ToSet
<1>3. QED
  BY <1>1, <1>2, TypesInitially DEF SurvivorInv, WholeBody

(* A refresh orphans nobody: unless the user adds or deletes while it runs, the group      *)
(* lists each of its rows once when it is over, whichever survived a deletion.             *)
THEOREM NothingOrphanedTheorem == GroupSpec => []NothingOrphaned
<1>1. WholeInv => NothingOrphaned
  BY DEF WholeInv, WholeBody, NothingOrphaned
<1>2. QED
  BY <1>1, GroupInitially, TypesInductive, SurvivorInductive, WholeInductive, PTL DEF GroupSpec

-----------------------------------------------------------------------------
(* The servers of the group are those of the remote                                   *)

Mirrors(ids) == DOMAIN ids = DOMAIN remote /\ \A i \in DOMAIN remote : rows[ids[i]] = remote[i]

\* Through a refresh: the selectors stay what they are, the ids that were given out stand for
\* what was sent, until those they replace do; and a cleared group has nothing else.
MirrorBody ==
    /\ stage # "idle" => \A id \in DOMAIN rows : rows[id] = Selector <=> id \in Stickies
    /\ stage \in {"idle", "look", "delete", "reorder"} => ~cleared
    /\ stage = "add" /\ cleared => kept = {} /\ DOMAIN rows = Stickies
    /\ stage = "diff" => Mirrors(fresh)
    /\ stage = "diff" /\ cleared => kept = {} /\ Filter(order, Servers) = fresh
    /\ stage = "reorder" => Mirrors(InRemoteOrder)
    /\ stage \in {"relook", "redelete", "reinsert"} => Mirrors(Filter(order, Servers))
    /\ stage = "done" => Mirrors(Filter(order, Servers \ kept))
MirrorInv == ~meddled => MirrorBody

LEMMA MirrorOfBegin ==
  ASSUME GroupTypes, WholeBody, MirrorBody, NEW servers \in Remotes, NEW subClear \in BOOLEAN,
         BeginUpdate(servers, subClear)
  PROVE  MirrorBody'
<1>1. (Stickies)' = {id \in DOMAIN rows : rows[id] = Selector}
  BY BeginFacts
<1>2. /\ stage = "idle" /\ stage' \in {"look", "add"} /\ ~cleared
      /\ rows' = rows /\ cleared' = cleared
  BY DEF BeginUpdate, Step, tableVars, MirrorBody
<1>3. QED
  BY <1>1, <1>2 DEF MirrorBody

LEMMA MirrorOfClearDelete ==
  ASSUME GroupTypes, SurvivorInv, WholeBody, MirrorBody, ClearDelete
  PROVE  MirrorBody'
<1>1. /\ rows' = Restrict(rows, DOMAIN rows \ doomed)
      /\ kept' = asked \ doomed /\ cleared' = (kept' = {})
      /\ stage = "delete" /\ stage' = "add" /\ Stickies' = Stickies
  BY DEF ClearDelete, Delete, Survivors, Step, Stickies
<1>2. /\ asked = DOMAIN rows \ Stickies /\ doomed \subseteq asked /\ Stickies \subseteq DOMAIN rows
      /\ \A id \in DOMAIN rows : rows[id] = Selector <=> id \in Stickies
  BY <1>1 DEF WholeBody, SurvivorInv, MirrorBody
<1>3. /\ DOMAIN rows' = DOMAIN rows \ doomed
      /\ \A id \in DOMAIN rows' : rows'[id] = rows[id]
  BY <1>1 DEF Restrict
<1>4. kept' = {} => DOMAIN rows' = Stickies
  BY <1>1, <1>2, <1>3
<1>5. QED
  BY <1>1, <1>2, <1>3, <1>4 DEF MirrorBody

LEMMA MirrorOfAddBatch ==
  ASSUME GroupTypes, WholeBody, MirrorBody, AddBatch
  PROVE  MirrorBody'
<1> DEFINE ids == Ids(nextId)
           n == Len(remote)
           new == [id \in nextId..(nextId + n - 1) |-> remote[id - nextId + 1]]
<1>1. /\ order \in Seq(ids) /\ ToSet(order) = DOMAIN rows
      /\ DOMAIN rows \subseteq ids /\ nextId \in Nat \ {0} /\ n \in Nat /\ DOMAIN remote = 1..n
      /\ remote \in Seq(Outbound)
      /\ stage = "add" /\ stage' = "diff"
      /\ \A id \in DOMAIN rows : rows[id] = Selector <=> id \in Stickies
      /\ Stickies \subseteq DOMAIN rows
      /\ cleared => kept = {} /\ DOMAIN rows = Stickies
  BY TypesSplit DEF TableTyped, OtherTyped, WholeBody, MirrorBody, AddBatch, Step
<1>2. /\ fresh' = [i \in 1..n |-> nextId + i - 1]
      /\ rows' = With(rows, new)
      /\ order' = order \o fresh'
      /\ UNCHANGED <<remote, kept, cleared>> /\ Stickies' = Stickies
  BY <1>1 DEF AddBatch, Stickies
<1>3. fresh' \in Seq(Nat) /\ Len(fresh') = n /\ DOMAIN fresh' = 1..n
  BY <1>1, <1>2
<1>4. ASSUME NEW id \in DOMAIN rows PROVE id \in DOMAIN rows' /\ rows'[id] = rows[id]
  BY <1>2, <1>4 DEF With
<1>5. ASSUME NEW i \in 1..n
      PROVE  /\ fresh'[i] \in DOMAIN rows' /\ fresh'[i] \notin DOMAIN rows
             /\ rows'[fresh'[i]] = remote[i] /\ remote[i] \in Outbound
  <2> DEFINE j == nextId + i - 1
  <2>1. j \in nextId..(nextId + n - 1) /\ j \notin ids /\ j - nextId + 1 = i
    BY <1>1 DEF Ids
  <2>1a. fresh'[i] = j
    BY <1>2
  <2> HIDE DEF j
  <2>2. fresh'[i] = j /\ j \in DOMAIN new /\ new[j] = remote[i]
    <3>1. new[j] = remote[j - nextId + 1]
      BY <2>1
    <3>2. QED
      BY <2>1, <2>1a, <3>1
  <2> HIDE DEF new, ids
  <2>3. QED
    BY <1>1, <1>2, <2>1, <2>2 DEF With, new
<1>6. ASSUME NEW id \in DOMAIN rows', id \notin DOMAIN rows
      PROVE  \E i \in 1..n : fresh'[i] = id
  <2>1. id \in nextId..(nextId + n - 1)
    BY <1>2, <1>6 DEF With
  <2>2. id - nextId + 1 \in 1..n /\ nextId + (id - nextId + 1) - 1 = id
    BY <1>1, <2>1
  <2>3. QED
    BY <1>2, <2>2
<1> HIDE DEF new, n, ids
<1>7. (Mirrors(fresh))'
  BY <1>1, <1>2, <1>3, <1>5 DEF Mirrors
<1>8. ASSUME NEW id \in DOMAIN rows' PROVE rows'[id] = Selector <=> id \in Stickies
  <2>1. CASE id \in DOMAIN rows
    BY <1>1, <1>4, <2>1
  <2>2. CASE id \notin DOMAIN rows
    <3>1. PICK i \in 1..n : fresh'[i] = id
      BY <1>6, <2>2
    <3>2. QED
      BY <1>1, <1>5, <2>2, <3>1, GroupAssumption
  <2>3. QED
    BY <2>1, <2>2
<1>9. ASSUME cleared PROVE Filter(order', (Servers)') = fresh'
  <2> DEFINE T == (Servers)'
  <2>1. ToSet(order') = ToSet(order) \cup ToSet(fresh')
    <3>1. order \in Seq(Nat)
      BY <1>1, SeqGrows DEF Ids, ids
    <3> DEFINE f == fresh'
    <3>2. f \in Seq(Nat) /\ order' = order \o f
      BY <1>2, <1>3
    <3> HIDE DEF f
    <3>3. ToSet(order \o f) = ToSet(order) \cup ToSet(f)
      BY <3>1, <3>2, ConcatFacts
    <3>4. QED
      BY <3>2, <3>3 DEF f
  <2>2. T = {id \in ToSet(order') : rows'[id] # Selector}
    BY DEF Servers
  <2> HIDE DEF T
  <2>3. ToSet(order) \cap T = {}
    BY <1>1, <1>4, <1>9, <2>2
  <2>4. ToSet(fresh') \subseteq T
    <3>1. ASSUME NEW i \in 1..n PROVE fresh'[i] \in T
      <4>1. fresh'[i] \in ToSet(fresh')
        BY <1>3 DEF ToSet
      <4>2. QED
        BY <1>5, <2>1, <2>2, <4>1, GroupAssumption
    <3>2. QED
      BY <1>3, <3>1 DEF ToSet
  <2>5. order \in Seq(Nat)
    BY <1>1, SeqGrows DEF Ids, ids
  <2>6. Filter(order \o fresh', T) = fresh'
    BY <1>3, <2>3, <2>4, <2>5, FilterEnd
  <2>7. QED
    BY <1>2, <2>6 DEF T
<1>10. QED
  BY <1>1, <1>2, <1>7, <1>8, <1>9 DEF MirrorBody

LEMMA MirrorOfDiff ==
  ASSUME GroupTypes, WholeBody, MirrorBody, Diff
  PROVE  MirrorBody'
<1>1. /\ stage = "diff" /\ stage' = "reorder" /\ ~cleared
      /\ Stickies \subseteq DOMAIN rows
      /\ ToSet(fresh) \cap ToSet(src) = {}
      /\ ToSet(fresh) \cup ToSet(src) = DOMAIN rows \ Stickies
      /\ Mirrors(fresh)
      /\ \A id \in DOMAIN rows : rows[id] = Selector <=> id \in Stickies
  BY DEF WholeBody, MirrorBody, Diff, Step
<1>2. Stickies' = Stickies /\ UNCHANGED <<fresh, remote, cleared>>
  BY DEF Diff, Stickies
<1>3. PICK same, pairs : Found(same, pairs)
  BY DiffFacts
<1>4. /\ DOMAIN rows' = DOMAIN rows
      /\ \A id \in DOMAIN rows : id \notin Range(pairs) => rows'[id] = rows[id]
      /\ DOMAIN replaces' = DOMAIN same \cup DOMAIN pairs
      /\ \A x \in DOMAIN replaces' : replaces'[x] = IF x \in DOMAIN same THEN same[x] ELSE pairs[x]
      /\ DOMAIN same \subseteq ToSet(fresh) /\ Range(same) \subseteq ToSet(src)
      /\ DOMAIN pairs \subseteq ToSet(fresh) /\ Range(pairs) \subseteq ToSet(src)
      /\ Range(same) \cap Range(pairs) = {}
      /\ \A x \in DOMAIN same : rows[same[x]] = rows[x] /\ same[x] \in Range(same)
  BY <1>3 DEF Found, With, Range
<1>5. ASSUME NEW x \in DOMAIN pairs PROVE pairs[x] \in DOMAIN rows /\ rows'[pairs[x]] = rows[x]
  <2> DEFINE n == CHOOSE n \in DOMAIN pairs : pairs[n] = pairs[x]
  <2>1. pairs[x] \in Range(pairs) /\ pairs[x] \in DOMAIN rows
    BY <1>1, <1>4 DEF Range
  <2>2. rows'[pairs[x]] = rows[n]
    BY <1>3, <2>1 DEF Found
  <2>3. n \in DOMAIN pairs /\ pairs[n] = pairs[x]
    OBVIOUS
  <2> HIDE DEF n
  <2>4. n = x
    BY <1>3, <2>3 DEF Found, IsInjective
  <2>5. QED
    BY <2>1, <2>2, <2>4
<1>6. ASSUME NEW id \in DOMAIN rows PROVE rows'[id] = Selector <=> id \in Stickies
  <2>1. CASE id \in Range(pairs)
    <3>1. PICK x \in DOMAIN pairs : id = pairs[x]
      BY <2>1 DEF Range
    <3>2. x \in DOMAIN rows /\ x \notin Stickies /\ id \notin Stickies
      BY <1>1, <1>4, <2>1
    <3>3. QED
      BY <1>1, <1>5, <3>1, <3>2
  <2>2. CASE id \notin Range(pairs)
    BY <1>1, <1>4, <2>2
  <2>3. QED
    BY <2>1, <2>2
<1>7. ASSUME NEW i \in DOMAIN remote
      PROVE  i \in DOMAIN fresh' /\ rows'[(InRemoteOrder)'[i]] = remote[i]
  <2> DEFINE x == fresh[i]
  <2>1. i \in DOMAIN fresh /\ rows[x] = remote[i] /\ x \in ToSet(fresh)
    BY <1>1 DEF Mirrors, ToSet
  <2>2. (InRemoteOrder)'[i] = IF x \in DOMAIN replaces' THEN replaces'[x] ELSE x
    BY <1>2, <2>1 DEF InRemoteOrder
  <2> HIDE DEF x
  <2>3. CASE x \in DOMAIN same
    <3>1. (InRemoteOrder)'[i] = same[x] /\ same[x] \in DOMAIN rows /\ same[x] \notin Range(pairs)
      BY <1>1, <1>4, <2>2, <2>3
    <3>2. QED
      BY <1>2, <1>4, <2>1, <2>3, <3>1
  <2>4. CASE x \in DOMAIN pairs /\ x \notin DOMAIN same
    BY <1>2, <1>4, <1>5, <2>1, <2>2, <2>4
  <2>5. CASE x \notin DOMAIN same /\ x \notin DOMAIN pairs
    BY <1>1, <1>2, <1>4, <2>1, <2>2, <2>5
  <2>6. QED
    BY <2>3, <2>4, <2>5
<1>8. DOMAIN (InRemoteOrder)' = DOMAIN remote
  BY <1>1, <1>2 DEF InRemoteOrder, Mirrors
<1>9. (Mirrors(InRemoteOrder))'
  BY <1>2, <1>7, <1>8 DEF Mirrors
<1>10. QED
  BY <1>1, <1>2, <1>4, <1>6, <1>9 DEF MirrorBody

LEMMA MirrorOfAllNew ==
  ASSUME WholeBody, MirrorBody, AllNew
  PROVE  MirrorBody'
<1>1. /\ stage = "diff" /\ stage' = "done" /\ cleared
      /\ UNCHANGED <<rows, order, remote, fresh, sticky, kept>>
  BY DEF AllNew, Step, tableVars
<1>2. kept = {} /\ Filter(order, Servers) = fresh /\ Servers \ kept = Servers
  BY <1>1 DEF MirrorBody
<1>3. Mirrors(Filter(order, Servers \ kept))
  BY <1>1, <1>2 DEF MirrorBody
<1>4. (Mirrors(Filter(order, Servers \ kept)))'
  BY <1>1, <1>3 DEF Mirrors, Servers
<1>5. Stickies' = Stickies
  BY <1>1 DEF Stickies
<1>6. QED
  BY <1>1, <1>4, <1>5 DEF MirrorBody

LEMMA MirrorOfReorder ==
  ASSUME GroupTypes, WholeBody, MirrorBody, Reorder
  PROVE  MirrorBody'
<1> DEFINE ids == Ids(nextId)
           T == (Servers)'
<1>1. /\ stage = "reorder" /\ stage' = "relook" /\ remote \in Seq(Outbound)
      /\ order' = InsertAll(InRemoteOrder, sticky)
      /\ UNCHANGED <<rows, remote, sticky, cleared>>
      /\ Mirrors(InRemoteOrder)
      /\ \A id \in DOMAIN rows : rows[id] = Selector <=> id \in Stickies
      /\ Stickies \subseteq DOMAIN rows
  BY TypesSplit DEF Reorder, Sorted, Step, MirrorBody, WholeBody, OtherTyped
<1>2. Places(sticky, ids) /\ InRemoteOrder \in Seq(ids)
  BY TypesSplit, PlacesFacts, InRemoteOrderTyped DEF Places, LocalsTyped
<1>3. ToSet(order') = ToSet(InRemoteOrder) \cup {sticky[i][2] : i \in DOMAIN sticky}
  BY <1>1, <1>2, InsertAllFacts
<1>4. T = {id \in ToSet(order') : rows[id] # Selector}
  BY <1>1 DEF Servers
<1> HIDE DEF T, ids
<1>5. \A i \in DOMAIN sticky : sticky[i][2] \notin T
  BY <1>1, <1>4 DEF Stickies
<1>6. ToSet(InRemoteOrder) \subseteq T
  <2>1. ASSUME NEW i \in DOMAIN remote PROVE rows[InRemoteOrder[i]] # Selector
    BY <1>1, GroupAssumption DEF Mirrors
  <2>2. ASSUME NEW x \in ToSet(InRemoteOrder) PROVE x \in T
    <3>1. PICK i \in DOMAIN remote : x = InRemoteOrder[i]
      BY <1>1, <2>2 DEF ToSet, Mirrors
    <3>2. QED
      BY <1>3, <1>4, <2>1, <2>2, <3>1
  <2>3. QED
    BY <2>2
<1>7. Filter(InsertAll(InRemoteOrder, sticky), T) = Filter(InRemoteOrder, T)
  BY <1>2, <1>5, FilterInsertAll
<1>8. Filter(InRemoteOrder, T) = InRemoteOrder
  BY <1>2, <1>6, FilterAll
<1>9. (Mirrors(Filter(order, Servers)))'
  <2>1. Filter(order', T) = InRemoteOrder
    BY <1>1, <1>7, <1>8
  <2>2. QED
    BY <1>1, <2>1 DEF Mirrors, T
<1>10. Stickies' = Stickies
  BY <1>1 DEF Stickies
<1>11. QED
  BY <1>1, <1>9, <1>10 DEF MirrorBody

LEMMA FilteredMirrors ==
  ASSUME NEW X, order \in Seq(X), Mirrors(Filter(order, Servers)),
         order' = order, remote' = remote, (Servers)' = Servers,
         \A id \in ToSet(order) : rows'[id] = rows[id]
  PROVE  (Mirrors(Filter(order, Servers)))'
<1> DEFINE mine == Filter(order, Servers)
<1>1. mine \in Seq(X) /\ ToSet(mine) = ToSet(order) \cap Servers
  BY FilterFacts
<1>2. DOMAIN mine = DOMAIN remote /\ \A i \in DOMAIN remote : rows[mine[i]] = remote[i]
  BY DEF Mirrors
<1>3. mine' = mine
  OBVIOUS
<1> HIDE DEF mine
<1>4. \A i \in DOMAIN mine : mine[i] \in ToSet(order)
  BY <1>1 DEF ToSet
<1>5. (Mirrors(mine))'
  BY <1>2, <1>3, <1>4 DEF Mirrors
<1>6. QED
  BY <1>5 DEF mine

LEMMA MirrorOfCleanup ==
  ASSUME GroupTypes, SurvivorInv, WholeBody, MirrorBody, Cleanup
  PROVE  MirrorBody'
<1>1. /\ stage = "redelete" /\ stage' = "reinsert"
      /\ order' = Filter(order, ToSet(order) \ doomed)
      /\ rows' = Restrict(rows, DOMAIN rows \ doomed)
      /\ UNCHANGED <<remote, sticky, cleared>> /\ Stickies' = Stickies
  BY DEF Cleanup, Delete, Step, Stickies
<1>2. /\ order \in Seq(Ids(nextId)) /\ ToSet(order) \subseteq DOMAIN rows
      /\ asked = DOMAIN rows \ ToSet(order) /\ doomed \subseteq asked
      /\ \A id \in DOMAIN rows : rows[id] = Selector <=> id \in Stickies
      /\ Mirrors(Filter(order, Servers))
  BY <1>1, TypesSplit DEF TableTyped, WholeBody, SurvivorInv, MirrorBody
<1>3. order' = order
  <2>1. ToSet(order) \subseteq ToSet(order) \ doomed
    BY <1>2
  <2>2. QED
    BY <1>1, <1>2, <2>1, FilterAll
<1>4. \A id \in DOMAIN rows' : id \in DOMAIN rows /\ rows'[id] = rows[id]
  BY <1>1 DEF Restrict
<1>5. \A id \in ToSet(order) : id \in DOMAIN rows /\ rows'[id] = rows[id]
  BY <1>1, <1>2 DEF Restrict
<1>6. (Servers)' = Servers
  BY <1>3, <1>5 DEF Servers
<1>7. (Mirrors(Filter(order, Servers)))'
  BY <1>1, <1>2, <1>3, <1>5, <1>6, FilteredMirrors
<1>8. QED
  BY <1>1, <1>2, <1>4, <1>7 DEF MirrorBody

LEMMA MirrorOfReinsert ==
  ASSUME GroupTypes, SurvivorInv, WholeBody, MirrorBody, Reinsert
  PROVE  MirrorBody'
<1> DEFINE ids == Ids(nextId)
           lost == kept \ ToSet(order)
           id == CHOOSE x \in lost : TRUE
           T == (Servers \ kept)'
<1>1. /\ order \in Seq(ids) /\ ToSet(order) \subseteq DOMAIN rows
      /\ DOMAIN rows \subseteq ids
      /\ kept = DOMAIN rows \ ToSet(order)
      /\ stage = "reinsert" /\ stage' = "done"
      /\ UNCHANGED <<rows, remote, sticky, kept, cleared>> /\ Stickies' = Stickies
      /\ Mirrors(Filter(order, Servers))
      /\ \A x \in DOMAIN rows : rows[x] = Selector <=> x \in Stickies
  BY TypesSplit DEF TableTyped, WholeBody, MirrorBody, Reinsert, Step, Stickies
<1>2. order' = IF lost = {} THEN order ELSE InsertBack(order, PlaceOf(id), id)
  BY DEF Reinsert
<1>3. Filter(order', T) = Filter(order, Servers)
  <2>1. CASE lost = {}
    <3>1. T = Servers
      BY <1>1, <1>2, <2>1 DEF Servers
    <3>2. QED
      BY <1>2, <2>1, <3>1
  <2>2. CASE lost # {}
    <3>1. id \in lost /\ id \in ids /\ id \in kept
      BY <1>1, <2>2
    <3> DEFINE p == PlaceOf(id)
    <3>2. p \in Nat
      BY <3>1, PlaceOfTyped
    <3>3. order' = InsertBack(order, p, id)
      BY <1>2, <2>2
    <3> HIDE DEF p, id
    <3>4. ToSet(InsertBack(order, p, id)) = ToSet(order) \cup {id}
      <4> HIDE DEF lost, T
      <4> QED BY <1>1, <3>1, <3>2, InsertBackFacts
    <3>5. T = Servers
      <4>1. T = {x \in ToSet(order) \cup {id} : rows[x] # Selector} \ kept
        BY <1>1, <3>3, <3>4 DEF Servers
      <4> HIDE DEF T
      <4>2. QED
        BY <1>1, <3>1, <4>1 DEF Servers
    <3>6. id \notin Servers
      BY <3>1 DEF Servers
    <3>7. Filter(InsertBack(order, p, id), Servers) = Filter(order, Servers)
      <4> HIDE DEF lost, T
      <4> QED BY <1>1, <3>1, <3>2, <3>6, FilterInsert
    <3>8. QED
      BY <3>3, <3>5, <3>7
  <2>3. QED
    BY <2>1, <2>2
<1>4. (Mirrors(Filter(order, Servers \ kept)))'
  BY <1>1, <1>3 DEF Mirrors
<1>5. QED
  BY <1>1, <1>4 DEF MirrorBody

LEMMA MirrorOfTheRest ==
  ASSUME WholeBody, MirrorBody,
         \/ Look("look", "delete") \/ Look("relook", "redelete") \/ FinishUpdate
         \/ UNCHANGED <<tableVars, updateVars>>
  PROVE  MirrorBody'
<1>1. ASSUME NEW here, NEW there, Look(here, there), <<here, there>> \in {<<"look", "delete">>, <<"relook", "redelete">>}
      PROVE  MirrorBody'
  <2>1. /\ stage = here /\ stage' = there
        /\ UNCHANGED <<rows, order, remote, sticky, cleared>>
    BY <1>1 DEF Look, Step, tableVars
  <2>2. Stickies' = Stickies /\ (Mirrors(Filter(order, Servers)) => (Mirrors(Filter(order, Servers)))')
    BY <2>1 DEF Stickies, Mirrors, Servers
  <2>3. QED
    BY <1>1, <2>1, <2>2 DEF MirrorBody
<1>2. CASE FinishUpdate
  BY <1>2 DEF MirrorBody, FinishUpdate, Step, Locals
<1>3. CASE UNCHANGED <<tableVars, updateVars>>
  BY <1>3 DEF MirrorBody, tableVars, updateVars, Stickies, Mirrors, Servers, InRemoteOrder
<1>4. QED
  BY <1>1, <1>2, <1>3

LEMMA MirrorInductive ==
  GroupTypes /\ SurvivorInv /\ WholeInv /\ MirrorInv /\ [GroupNext]_groupVars => MirrorInv'
<1> SUFFICES ASSUME GroupTypes, SurvivorInv, WholeInv, MirrorInv, [GroupNext]_groupVars, ~meddled'
             PROVE  MirrorBody'
  BY DEF MirrorInv
<1>1. ~meddled /\ WholeBody /\ MirrorBody
  BY MeddledStays DEF WholeInv, MirrorInv
<1>2. CASE UNCHANGED groupVars
  BY <1>1, <1>2, MirrorOfTheRest DEF groupVars
<1>3. CASE StopProfile \/ \E id \in DOMAIN rows : StartProfile(id)
  BY <1>1, <1>3, MirrorOfTheRest DEF StopProfile, StartProfile, Deed
<1>4. CASE \/ \E id \in DOMAIN rows : DeleteByHand(id)
           \/ \E outbound \in Outbound \cup {Selector} : AddByHand(outbound)
  <2>1. stage = "idle" /\ stage' = "idle" /\ cleared' = cleared
    BY <1>4 DEF DeleteByHand, AddByHand, Deed, updateVars
  <2>2. QED
    BY <1>1, <2>1 DEF MirrorBody
<1>5. CASE GroupNext
  BY <1>1, <1>3, <1>4, <1>5, MirrorOfBegin, MirrorOfClearDelete, MirrorOfAddBatch, MirrorOfDiff,
     MirrorOfAllNew, MirrorOfReorder, MirrorOfCleanup, MirrorOfReinsert, MirrorOfTheRest DEF GroupNext
<1>6. QED
  BY <1>2, <1>5

LEMMA MirrorInitially == GroupInit => MirrorInv
  BY DEF GroupInit, MirrorInv, MirrorBody

(* After a refresh the servers of the group are those the remote sent, in its order and     *)
(* as often as it sent them, but for one that survived its deletion.                        *)
THEOREM RemoteIsMirroredTheorem == GroupSpec => []RemoteIsMirrored
<1>2. GroupTypes /\ MirrorInv => RemoteIsMirrored
  <2> SUFFICES ASSUME GroupTypes, MirrorInv, stage = "done", ~meddled
               PROVE  LET mine == Filter(order, {id \in ToSet(order) \ kept : rows[id] # Selector})
                      IN  [i \in DOMAIN mine |-> rows[mine[i]]] = remote
    BY DEF RemoteIsMirrored
  <2> DEFINE mine == Filter(order, {id \in ToSet(order) \ kept : rows[id] # Selector})
  <2>1. Servers \ kept = {id \in ToSet(order) \ kept : rows[id] # Selector}
    BY DEF Servers
  <2>2. Mirrors(mine)
    BY <2>1 DEF MirrorInv, MirrorBody
  <2> HIDE DEF mine
  <2>3. remote = [i \in DOMAIN remote |-> remote[i]]
    BY TypesSplit DEF OtherTyped
  <2>4. [i \in DOMAIN mine |-> rows[mine[i]]] = remote
    BY <2>2, <2>3 DEF Mirrors
  <2>5. QED
    BY <2>4 DEF mine
<1>3. QED
  BY <1>2, GroupInitially, MirrorInitially, TypesInductive, SurvivorInductive, WholeInductive,
     MirrorInductive, PTL DEF GroupSpec
-----------------------------------------------------------------------------
(* A remote that sends what the group has                                             *)

\* The servers before the refresh; and the remote sends them again, to a refresh that does
\* not clear the group first.
Known == DOMAIN before.rows
Mine == Filter(before.order, {id \in ToSet(before.order) : before.rows[id] # Selector})
Resent ==
    /\ ~before.clear
    /\ DOMAIN Mine = DOMAIN remote /\ \A i \in DOMAIN remote : before.rows[Mine[i]] = remote[i]

\* What is noted when a refresh begins.
NotedBody ==
    /\ before.rows = [id \in Known |-> before.rows[id]]
    /\ before.order \in Seq(Nat) /\ IsInjective(before.order) /\ ToSet(before.order) = Known
    /\ InsertAll(Mine, sticky) = before.order
\* What is left of it through the refresh.
LeftBody ==
    /\ stage \notin {"look", "delete"} /\ ~cleared
    /\ Known \subseteq DOMAIN rows /\ \A id \in Known : rows[id] = before.rows[id]
    /\ disturbed \cap Known = {}
    /\ stage = "add" => DOMAIN rows = Known
    /\ stage \in {"add", "relook", "redelete", "reinsert"} => order = before.order
    /\ stage \in {"add", "diff"} => src = Mine
    /\ stage = "diff" => order = before.order \o fresh /\ ToSet(fresh) \cap Known = {}
    /\ stage = "reorder" => InRemoteOrder = Mine
    /\ stage = "done" => Filter(order, Known) = before.order /\ DOMAIN rows \ Known \subseteq kept
SameBody ==
    /\ rows = [id \in DOMAIN rows |-> rows[id]]
    /\ stage = "idle" => disturbed = {}
    /\ stage # "idle" => NotedBody
    /\ stage # "idle" /\ Resent => LeftBody
SameInv == ~meddled => SameBody

\* All but the first step leave alone what was noted, and what was sent.
LEMMA NotedStays ==
  ASSUME SameBody, stage # "idle", UNCHANGED <<before, sticky, remote>>
  PROVE  /\ NotedBody /\ (NotedBody)'
         /\ (Resent)' => Resent /\ LeftBody
         /\ (Mine)' = Mine /\ (Known)' = Known
<1>1. (Mine)' = Mine /\ (Known)' = Known
  BY DEF Mine, Known
<1>2. NotedBody /\ (NotedBody)'
  BY <1>1 DEF SameBody, NotedBody
<1>3. (Resent)' = Resent
  BY <1>1 DEF Resent
<1>4. QED
  BY <1>1, <1>2, <1>3 DEF SameBody

LEMMA SameOfBegin ==
  ASSUME GroupTypes, WholeBody, MirrorBody, SameBody, NEW servers \in Remotes, NEW subClear \in BOOLEAN,
         BeginUpdate(servers, subClear)
  PROVE  SameBody'
<1>1. /\ order \in Seq(Ids(nextId)) /\ IsInjective(order) /\ ToSet(order) = DOMAIN rows
      /\ stage = "idle" /\ ~cleared /\ disturbed = {} /\ nextId \in Nat \ {0}
      /\ rows = [id \in DOMAIN rows |-> rows[id]]
  BY TypesSplit DEF TableTyped, WholeBody, MirrorBody, SameBody, BeginUpdate, Step
<1>2. /\ UNCHANGED <<rows, order, disturbed, cleared>>
      /\ stage' = IF subClear THEN "look" ELSE "add"
      /\ before'.rows = rows /\ before'.order = order /\ before'.clear = subClear
  BY DEF BeginUpdate, Step, tableVars
<1>3. ~subClear => src' = Filter(order, Servers)
  BY BeginFacts
<1>4. LeftOut(sticky', order, Servers)
  BY BeginFacts
<1>5. (Mine)' = Filter(order, Servers) /\ (Known)' = DOMAIN rows
  BY <1>2 DEF Mine, Known, Servers
<1>6. InsertAll(Filter(order, Servers), sticky') = order
  <2> DEFINE back == sticky'
  <2> HIDE DEF back
  <2>1. LeftOut(back, order, Servers)
    BY <1>4 DEF back
  <2>2. InsertAll(Filter(order, Servers), back) = order
    BY <1>1, <2>1, AllRestored
  <2>3. QED
    BY <2>2 DEF back
<1>7. order \in Seq(Nat)
  BY <1>1, SeqGrows DEF Ids
<1>8. (NotedBody)'
  BY <1>1, <1>2, <1>5, <1>6, <1>7 DEF NotedBody
<1>9. ASSUME (Resent)' PROVE (LeftBody)'
  <2>1. ~subClear
    BY <1>2, <1>9 DEF Resent
  <2>2. QED
    BY <1>1, <1>2, <1>3, <1>5, <2>1 DEF LeftBody
<1>10. QED
  BY <1>1, <1>2, <1>8, <1>9 DEF SameBody

LEMMA SameOfClearDelete ==
  ASSUME SameBody, ClearDelete
  PROVE  SameBody'
<1>1. /\ stage = "delete" /\ stage' = "add" /\ UNCHANGED <<before, sticky, remote>>
      /\ rows' = Restrict(rows, DOMAIN rows \ doomed)
  BY DEF ClearDelete, Delete, Step
<1>2. (NotedBody)' /\ ((Resent)' => Resent /\ LeftBody)
  BY <1>1, NotedStays
<1>3. ~(Resent)'
  BY <1>1, <1>2 DEF LeftBody
<1>4. rows' = [id \in DOMAIN rows' |-> rows'[id]]
  BY <1>1 DEF Restrict
<1>5. QED
  BY <1>1, <1>2, <1>3, <1>4 DEF SameBody

LEMMA SameOfAddBatch ==
  ASSUME GroupTypes, WholeBody, SameBody, AddBatch
  PROVE  SameBody'
<1>1. /\ DOMAIN rows \subseteq Ids(nextId) /\ nextId \in Nat \ {0}
      /\ stage = "add" /\ stage' = "diff"
      /\ DOMAIN remote = 1..Len(remote) /\ Len(remote) \in Nat
  BY TypesSplit DEF TableTyped, OtherTyped, SameBody, AddBatch, Step
<1>2. /\ fresh' = [i \in DOMAIN remote |-> nextId + i - 1]
      /\ rows' = With(rows, [id \in nextId..(nextId + Len(remote) - 1) |-> remote[id - nextId + 1]])
      /\ order' = order \o fresh'
      /\ UNCHANGED <<before, sticky, remote, disturbed, src, cleared>>
  BY DEF AddBatch
<1>3. /\ (NotedBody)' /\ (Mine)' = Mine /\ (Known)' = Known
      /\ (Resent)' => Resent /\ LeftBody
  BY <1>1, <1>2, NotedStays
<1>4. rows' = [id \in DOMAIN rows' |-> rows'[id]]
  BY <1>2 DEF With
<1>5. DOMAIN rows \subseteq DOMAIN rows' /\ \A id \in DOMAIN rows : rows'[id] = rows[id]
  BY <1>2 DEF With
<1>6. ToSet(fresh') \cap DOMAIN rows = {}
  <2>1. ASSUME NEW i \in DOMAIN remote PROVE nextId + i - 1 \notin DOMAIN rows
    BY <1>1 DEF Ids
  <2>2. QED
    BY <1>2, <2>1 DEF ToSet
<1>7. ASSUME (Resent)' PROVE (LeftBody)'
  <2>1. LeftBody
    BY <1>3, <1>7
  <2>2. QED
    BY <1>1, <1>2, <1>3, <1>5, <1>6, <2>1 DEF LeftBody
<1>8. QED
  BY <1>1, <1>2, <1>3, <1>4, <1>7 DEF SameBody

\* Each of the group is paired with what was sent for it: there is nothing to change.
LEMMA DiffFindsAll ==
  ASSUME GroupTypes, WholeBody, MirrorBody, NotedBody, LeftBody, Resent, Diff
  PROVE  /\ \A id \in DOMAIN rows : rows'[id] = rows[id]
         /\ (InRemoteOrder)' = Mine
         /\ disturbed' = disturbed
<1> DEFINE ids == Ids(nextId)
           old == Filter(src, DOMAIN rows)
           new == Filter(ServersOf(order), ToSet(order) \ ToSet(src))
           oldOthers == Others(old, new)
           newOthers == Others(new, old)
           same == Pair(old, new, rows)
           pairs == Pair(oldOthers, newOthers, Identity)
<1>1. /\ order \in Seq(ids) /\ IsInjective(order) /\ ToSet(order) = DOMAIN rows
      /\ src \in Seq(ids) /\ fresh \in Seq(ids) /\ nextId \in Nat
      /\ stage = "diff" /\ ~cleared
      /\ Stickies \subseteq DOMAIN rows
      /\ IsInjective(fresh)
      /\ ToSet(fresh) \cap ToSet(src) = {}
      /\ ToSet(fresh) \cup ToSet(src) = DOMAIN rows \ Stickies
      /\ Mirrors(fresh)
  BY TypesSplit DEF TableTyped, LocalsTyped, WholeBody, MirrorBody, Diff, Step
<1>2. /\ src = Mine /\ order = before.order \o fresh
      /\ ToSet(fresh) \cap ToSet(before.order) = {} /\ before.order \in Seq(Nat)
      /\ IsInjective(Mine)
      /\ \A i \in DOMAIN Mine : rows[Mine[i]] = before.rows[Mine[i]]
  <2>1. before.order \in Seq(Nat) /\ IsInjective(before.order) /\ ToSet(before.order) = Known
    BY DEF NotedBody
  <2>2. IsInjective(Mine) /\ ToSet(Mine) \subseteq Known
    <3> DEFINE b == before.order
               T == {id \in ToSet(b) : before.rows[id] # Selector}
    <3>1. Mine = Filter(b, T)
      BY DEF Mine
    <3> HIDE DEF b, T
    <3>2. ToSet(Filter(b, T)) = ToSet(b) \cap T /\ (IsInjective(b) => IsInjective(Filter(b, T)))
      <4>1. b \in Seq(Nat)
        BY <2>1 DEF b
      <4>2. QED
        BY <4>1, FilterFacts
    <3>3. QED
      BY <2>1, <3>1, <3>2 DEF b
  <2>3. \A i \in DOMAIN Mine : rows[Mine[i]] = before.rows[Mine[i]]
    BY <2>2 DEF LeftBody, ToSet
  <2>4. QED
    BY <1>1, <2>1, <2>2, <2>3 DEF LeftBody
<1>3. /\ replaces' = With(same, pairs)
      /\ rows' = [id \in DOMAIN rows |->
                    IF id \in Range(pairs) THEN rows[CHOOSE n \in DOMAIN pairs : pairs[n] = id]
                    ELSE rows[id]]
      /\ fresh' = fresh
      /\ disturbed' = disturbed \cup Range(pairs)
  BY Zenon DEF Diff, Changed
<1>4. old = src
  <2>1. ToSet(src) \subseteq DOMAIN rows
    BY <1>1
  <2>2. QED
    BY <1>1, <2>1, FilterAll
<1>5. new = fresh
  <2> DEFINE T == DOMAIN rows \ Stickies
             U == ToSet(order) \ ToSet(src)
  <2>1. T \cap U = ToSet(fresh)
    BY <1>1
  <2>2. new = Filter(Filter(order, T), U)
    BY DEF ServersOf
  <2> HIDE DEF T, U, new
  <2>3. Filter(Filter(order, T), U) = Filter(order, T \cap U)
    BY <1>1, FilterFilter
  <2>4. Filter(before.order \o fresh, ToSet(fresh)) = fresh
    <3> DEFINE b == before.order
               F == ToSet(fresh)
    <3>1. b \in Seq(Nat) /\ fresh \in Seq(Nat) /\ ToSet(b) \cap F = {} /\ ToSet(fresh) \subseteq F
      BY <1>1, <1>2, SeqGrows DEF Ids
    <3> HIDE DEF b, F
    <3>2. Filter(b \o fresh, F) = fresh
      BY <3>1, FilterEnd
    <3>3. QED
      BY <3>2 DEF b, F
  <2>5. QED
    BY <1>2, <2>1, <2>2, <2>3, <2>4
<1> HIDE DEF old, new
<1>6. /\ Len(old) = Len(new) /\ DOMAIN new = 1..Len(new) /\ Len(new) \in Nat /\ DOMAIN old = DOMAIN new
      /\ old \in Seq(ids) /\ IsInjective(old) /\ new \in Seq(ids) /\ IsInjective(new)
      /\ \A i \in 1..Len(new) : rows[old[i]] = rows[new[i]]
  <2>1. DOMAIN old = DOMAIN new /\ \A i \in DOMAIN new : rows[old[i]] = rows[new[i]]
    BY <1>1, <1>2, <1>4, <1>5 DEF Mirrors, Resent
  <2>2. old \in Seq(ids) /\ IsInjective(old) /\ new \in Seq(ids) /\ IsInjective(new)
    BY <1>1, <1>2, <1>4, <1>5
  <2>3. DOMAIN old = 1..Len(old) /\ DOMAIN new = 1..Len(new) /\ Len(new) \in Nat /\ Len(old) \in Nat
    BY <2>2
  <2>4. Len(old) = Len(new)
    BY <2>1, <2>3, SameLength
  <2>5. QED
    BY <2>1, <2>2, <2>3, <2>4
<1>7. DOMAIN same = ToSet(new) /\ \A i \in 1..Len(new) : same[new[i]] = old[i]
  BY <1>6, PairAligned
<1>8. ToSet(newOthers) = {} /\ oldOthers \in Seq(ids) /\ newOthers \in Seq(ids)
  <2>1. /\ oldOthers \in Seq(ids) /\ newOthers \in Seq(ids)
        /\ ToSet(newOthers) = ToSet(new) \cap {x \in ToSet(new) : \A i \in DOMAIN old : rows[old[i]] # rows[x]}
    BY <1>6, FilterFacts DEF Others
  <2>2. ASSUME NEW x \in ToSet(new) PROVE \E i \in DOMAIN old : rows[old[i]] = rows[x]
    BY <1>6 DEF ToSet
  <2> HIDE DEF newOthers, oldOthers
  <2>3. QED
    BY <2>1, <2>2
<1> HIDE DEF oldOthers, newOthers, same
<1>9. DOMAIN pairs = {} /\ Range(pairs) = {}
  <2>1. pairs \in Tables(ToSet(newOthers), ToSet(oldOthers))
    BY <1>8, PairFacts
  <2> HIDE DEF pairs
  <2>2. DOMAIN pairs = {}
    BY <1>8, <2>1 DEF Tables
  <2>3. QED
    BY <2>2 DEF Range
<1> HIDE DEF pairs
<1>10. \A id \in DOMAIN rows : rows'[id] = rows[id]
  BY <1>3, <1>9
<1>11. DOMAIN replaces' = ToSet(fresh) /\ \A i \in DOMAIN fresh : replaces'[fresh[i]] = Mine[i]
  <2>1. DOMAIN replaces' = ToSet(fresh) /\ \A x \in ToSet(fresh) : replaces'[x] = same[x]
    BY <1>3, <1>5, <1>7, <1>9 DEF With
  <2>2. QED
    BY <1>2, <1>4, <1>5, <1>6, <1>7, <2>1 DEF ToSet
<1>12. (InRemoteOrder)' = Mine
  <2>1. (InRemoteOrder)' = [i \in DOMAIN fresh |->
                              IF fresh[i] \in DOMAIN replaces' THEN replaces'[fresh[i]] ELSE fresh[i]]
    BY <1>3 DEF InRemoteOrder
  <2>2. \A i \in DOMAIN fresh : (InRemoteOrder)'[i] = Mine[i]
    BY <1>11, <2>1 DEF ToSet
  <2>3. DOMAIN (InRemoteOrder)' = DOMAIN Mine
    BY <1>2, <1>4, <1>5, <1>6, <2>1
  <2>4. Mine \in Seq(ids)
    BY <1>1, <1>2
  <2>5. Mine = [i \in DOMAIN Mine |-> Mine[i]]
    BY <2>4
  <2>6. QED
    BY <2>1, <2>2, <2>3, <2>5
<1>13. QED
  BY <1>3, <1>9, <1>10, <1>12

LEMMA SameOfDiff ==
  ASSUME GroupTypes, WholeBody, MirrorBody, SameBody, Diff
  PROVE  SameBody'
<1>1. /\ stage = "diff" /\ stage' = "reorder"
      /\ UNCHANGED <<before, sticky, remote, cleared>>
  BY DEF SameBody, Diff, Step
<1>2. /\ NotedBody /\ (NotedBody)' /\ (Mine)' = Mine /\ (Known)' = Known
      /\ (Resent)' => Resent /\ LeftBody
  BY <1>1, NotedStays
<1>3. DOMAIN rows' = DOMAIN rows /\ rows' = [id \in DOMAIN rows' |-> rows'[id]]
  BY DEF Diff
<1>4. ASSUME (Resent)' PROVE (LeftBody)'
  <2>1. LeftBody /\ Resent
    BY <1>2, <1>4
  <2>2. /\ \A id \in DOMAIN rows : rows'[id] = rows[id]
        /\ (InRemoteOrder)' = Mine /\ disturbed' = disturbed
    BY <1>2, <2>1, DiffFindsAll
  <2>3. QED
    BY <1>1, <1>2, <1>3, <2>1, <2>2 DEF LeftBody
<1>5. QED
  BY <1>1, <1>2, <1>3, <1>4 DEF SameBody

LEMMA SameOfReorder ==
  ASSUME SameBody, Reorder
  PROVE  SameBody'
<1>1. /\ stage = "reorder" /\ stage' = "relook"
      /\ order' = InsertAll(InRemoteOrder, sticky)
      /\ UNCHANGED <<before, sticky, remote, disturbed, rows, cleared>>
  BY DEF Reorder, Sorted, Step
<1>2. /\ NotedBody /\ (NotedBody)' /\ (Mine)' = Mine /\ (Known)' = Known
      /\ (Resent)' => Resent /\ LeftBody
  BY <1>1, NotedStays
<1>3. ASSUME (Resent)' PROVE (LeftBody)'
  <2>1. LeftBody /\ InRemoteOrder = Mine
    BY <1>1, <1>2, <1>3 DEF LeftBody
  <2>2. order' = before.order
    BY <1>1, <1>2, <2>1 DEF NotedBody
  <2>3. QED
    BY <1>1, <1>2, <2>1, <2>2 DEF LeftBody
<1>4. QED
  BY <1>1, <1>2, <1>3 DEF SameBody

LEMMA SameOfCleanup ==
  ASSUME GroupTypes, SurvivorInv, WholeBody, SameBody, Cleanup
  PROVE  SameBody'
<1>1. /\ stage = "redelete" /\ stage' = "reinsert"
      /\ order \in Seq(Ids(nextId)) /\ ToSet(order) \subseteq DOMAIN rows
      /\ asked = DOMAIN rows \ ToSet(order) /\ doomed \subseteq asked
  BY TypesSplit DEF TableTyped, WholeBody, SurvivorInv, Cleanup, Step
<1>2. /\ order' = Filter(order, ToSet(order) \ doomed)
      /\ rows' = Restrict(rows, DOMAIN rows \ doomed)
      /\ disturbed' = disturbed \cup doomed
      /\ UNCHANGED <<before, sticky, remote, cleared>>
  BY DEF Cleanup, Delete
<1>3. order' = order
  <2>1. ToSet(order) \subseteq ToSet(order) \ doomed
    BY <1>1
  <2>2. QED
    BY <1>1, <1>2, <2>1, FilterAll
<1>4. /\ NotedBody /\ (NotedBody)' /\ (Mine)' = Mine /\ (Known)' = Known
      /\ (Resent)' => Resent /\ LeftBody
  BY <1>1, <1>2, NotedStays
<1>5. /\ rows' = [id \in DOMAIN rows' |-> rows'[id]]
      /\ DOMAIN rows' = DOMAIN rows \ doomed
      /\ \A id \in DOMAIN rows' : rows'[id] = rows[id]
  BY <1>2 DEF Restrict
<1>6. ASSUME (Resent)' PROVE (LeftBody)'
  <2>1. LeftBody /\ order = before.order /\ ToSet(order) = Known
    BY <1>1, <1>4, <1>6 DEF LeftBody, NotedBody
  <2>2. disturbed' \cap Known = {}
    BY <1>1, <1>2, <2>1 DEF LeftBody
  <2>3. Known \subseteq DOMAIN rows' /\ \A id \in Known : rows'[id] = before.rows[id]
    BY <1>1, <1>5, <2>1 DEF LeftBody
  <2>4. before' = before /\ cleared' = cleared
    BY <1>2
  <2>5. QED
    BY <1>1, <1>3, <1>4, <2>1, <2>2, <2>3, <2>4 DEF LeftBody
<1>7. QED
  BY <1>1, <1>4, <1>5, <1>6 DEF SameBody

LEMMA SameOfReinsert ==
  ASSUME GroupTypes, WholeBody, SameBody, Reinsert
  PROVE  SameBody'
<1> DEFINE ids == Ids(nextId)
           lost == kept \ ToSet(order)
           id == CHOOSE x \in lost : TRUE
<1>1. /\ stage = "reinsert" /\ stage' = "done"
      /\ order' = IF lost = {} THEN order ELSE InsertBack(order, PlaceOf(id), id)
      /\ UNCHANGED <<before, sticky, remote, disturbed, rows, kept, cleared>>
  BY DEF Reinsert, Step
<1>2. /\ order \in Seq(ids) /\ DOMAIN rows \subseteq ids /\ kept = DOMAIN rows \ ToSet(order)
  BY <1>1, TypesSplit DEF TableTyped, WholeBody
<1>3. /\ NotedBody /\ (NotedBody)' /\ (Mine)' = Mine /\ (Known)' = Known
      /\ (Resent)' => Resent /\ LeftBody
  BY <1>1, NotedStays
<1>4. Filter(order', ToSet(order)) = order
  <2>1. Filter(order, ToSet(order)) = order
    BY <1>2, FilterAll
  <2>2. CASE lost = {}
    BY <1>1, <2>1, <2>2
  <2>3. CASE lost # {}
    <3>1. id \in lost /\ id \in ids /\ id \in kept
      BY <1>2, <2>3
    <3> DEFINE p == PlaceOf(id)
    <3>2. p \in Nat
      BY <3>1, PlaceOfTyped
    <3>3. order' = InsertBack(order, p, id)
      BY <1>1, <2>3
    <3>4. id \notin ToSet(order)
      BY <3>1
    <3> HIDE DEF p, id, lost
    <3>5. Filter(InsertBack(order, p, id), ToSet(order)) = Filter(order, ToSet(order))
      BY <1>2, <3>1, <3>2, <3>4, FilterInsert
    <3>6. QED
      BY <2>1, <3>3, <3>5
  <2>4. QED
    BY <2>2, <2>3
<1> HIDE DEF lost, id
<1>5. ASSUME (Resent)' PROVE (LeftBody)'
  <2>1. LeftBody /\ order = before.order /\ ToSet(order) = Known
    BY <1>1, <1>3, <1>5 DEF LeftBody, NotedBody
  <2>2. Filter(order', Known) = before.order /\ DOMAIN rows \ Known \subseteq kept
    BY <1>2, <1>4, <2>1
  <2>3. QED
    BY <1>1, <1>3, <2>1, <2>2 DEF LeftBody
<1>6. QED
  BY <1>1, <1>3, <1>5 DEF SameBody

LEMMA SameOfTheRest ==
  ASSUME SameBody,
         \/ Look("look", "delete") \/ Look("relook", "redelete") \/ AllNew \/ FinishUpdate
         \/ UNCHANGED <<tableVars, updateVars>>
  PROVE  SameBody'
<1>1. ASSUME NEW here, NEW there, Look(here, there),
             <<here, there>> \in {<<"look", "delete">>, <<"relook", "redelete">>}
      PROVE  SameBody'
  <2>1. /\ stage = here /\ stage' = there /\ here # "idle"
        /\ UNCHANGED <<rows, order, before, sticky, remote, disturbed, cleared>>
    BY <1>1 DEF Look, Step, tableVars
  <2>2. /\ NotedBody /\ (NotedBody)' /\ (Mine)' = Mine /\ (Known)' = Known
        /\ (Resent)' => Resent /\ LeftBody
    BY <2>1, NotedStays
  <2>3. ASSUME (Resent)' PROVE (LeftBody)'
    BY <1>1, <2>1, <2>2, <2>3 DEF LeftBody
  <2>4. QED
    BY <1>1, <2>1, <2>2, <2>3 DEF SameBody
<1>2. CASE AllNew
  <2>1. /\ stage = "diff" /\ stage' = "done" /\ cleared
        /\ UNCHANGED <<rows, before, sticky, remote>>
    BY <1>2 DEF AllNew, Step, tableVars
  <2>2. (NotedBody)' /\ ((Resent)' => Resent /\ LeftBody)
    BY <2>1, NotedStays
  <2>3. ~(Resent)'
    BY <2>1, <2>2 DEF LeftBody
  <2>4. QED
    BY <2>1, <2>2, <2>3 DEF SameBody
<1>3. CASE FinishUpdate
  BY <1>3 DEF SameBody, FinishUpdate, Step, Locals, tableVars
<1>4. CASE UNCHANGED <<tableVars, updateVars>>
  <2>1. (Mine)' = Mine /\ (Known)' = Known /\ (InRemoteOrder)' = InRemoteOrder
    BY <1>4 DEF tableVars, updateVars, Mine, Known, InRemoteOrder
  <2>2. (NotedBody)' = NotedBody /\ (Resent)' = Resent
    BY <1>4, <2>1 DEF tableVars, updateVars, NotedBody, Resent
  <2>3. (LeftBody)' = LeftBody
    BY <1>4, <2>1 DEF tableVars, updateVars, LeftBody
  <2>4. QED
    BY <1>4, <2>2, <2>3 DEF tableVars, updateVars, SameBody
<1>5. QED
  BY <1>1, <1>2, <1>3, <1>4

LEMMA SameInductive ==
  GroupTypes /\ SurvivorInv /\ WholeInv /\ MirrorInv /\ SameInv /\ [GroupNext]_groupVars => SameInv'
<1> SUFFICES ASSUME GroupTypes, SurvivorInv, WholeInv, MirrorInv, SameInv, [GroupNext]_groupVars, ~meddled'
             PROVE  SameBody'
  BY DEF SameInv
<1>1. WholeBody /\ MirrorBody /\ SameBody
  BY MeddledStays DEF WholeInv, MirrorInv, SameInv
<1>2. CASE UNCHANGED groupVars
  BY <1>1, <1>2, SameOfTheRest DEF groupVars
<1>3. CASE StopProfile \/ \E id \in DOMAIN rows : StartProfile(id)
  BY <1>1, <1>3, SameOfTheRest DEF StopProfile, StartProfile, Deed
<1>4. CASE \/ \E id \in DOMAIN rows : DeleteByHand(id)
           \/ \E outbound \in Outbound \cup {Selector} : AddByHand(outbound)
  <2>1. stage = "idle" /\ stage' = "idle" /\ disturbed' = disturbed
    BY <1>4 DEF DeleteByHand, AddByHand, Deed, updateVars
  <2>2. rows' = [id \in DOMAIN rows' |-> rows'[id]]
    BY <1>4 DEF DeleteByHand, AddByHand, Restrict, Put, With
  <2>3. QED
    BY <1>1, <2>1, <2>2 DEF SameBody
<1>5. CASE GroupNext
  BY <1>1, <1>3, <1>4, <1>5, SameOfBegin, SameOfClearDelete, SameOfAddBatch, SameOfDiff, SameOfReorder,
     SameOfCleanup, SameOfReinsert, SameOfTheRest DEF GroupNext
<1>6. QED
  BY <1>2, <1>5

(* A refresh that brings what the group has, and does not clear it first, leaves every      *)
(* id, every row and every place as they were, the selectors' places included, and tells    *)
(* nobody; what it adds is gone again, but for what was started meanwhile.                  *)
(* (GroupUpdater::Update: the diff pairs every profile, the cleanup deletes the rest.)      *)
THEOREM SameRemoteTheorem == GroupSpec => []SameRemoteChangesNothing
<1>1. GroupInit => SameInv
  BY DEF GroupInit, SameInv, SameBody
<1>2. SameInv => SameRemoteChangesNothing
  <2> SUFFICES ASSUME SameInv, stage = "done", ~meddled, ~before.clear,
                      [i \in DOMAIN Mine |-> before.rows[Mine[i]]] = remote
               PROVE  /\ \A id \in Known : id \in DOMAIN rows /\ rows[id] = before.rows[id]
                      /\ Filter(order, Known) = before.order
                      /\ disturbed \cap Known = {}
                      /\ DOMAIN rows \ Known \subseteq kept
    BY DEF SameRemoteChangesNothing, Mine, Known
  <2>1. Resent
    BY DEF Resent
  <2>2. LeftBody
    BY <2>1 DEF SameInv, SameBody
  <2>3. QED
    BY <2>2 DEF LeftBody
<1>3. QED
  BY <1>1, <1>2, GroupInitially, MirrorInitially, TypesInductive, SurvivorInductive, WholeInductive,
     MirrorInductive, SameInductive, PTL DEF GroupSpec
=============================================================================
