------------------------------- MODULE Lists -------------------------------
(***************************************************************************)
(* Lists and tables: what is left of a list, what is put into one, and the  *)
(* rows that join a table. The lists are computed by recursive functions,   *)
(* which can be proved about, as SelectSeq, the folds of the community      *)
(* modules and @@ cannot (ListsProofs).                                     *)
(***************************************************************************)
EXTENDS Naturals, Sequences, SequencesExt

\* The table f, and what g has of the keys f has not.
With(f, g) == [x \in DOMAIN f \cup DOMAIN g |-> IF x \in DOMAIN f THEN f[x] ELSE g[x]]

\* The table f with a row for a key it may not have.
Put(f, key, row) == With(f, [x \in {key} |-> row])

\* The elements of s that are in T, in their order.
Filter(s, T) ==
    LET filtered[n \in 0..Len(s)] ==
          IF n = 0 THEN <<>>
          ELSE IF s[n] \in T THEN Append(filtered[n - 1], s[n])
          ELSE filtered[n - 1]
    IN  filtered[Len(s)]

\* x at a position, counted from 0, or behind all when s is shorter.
InsertBack(s, position, x) ==
    LET n == IF position < Len(s) THEN position ELSE Len(s)
    IN  SubSeq(s, 1, n) \o <<x>> \o SubSeq(s, n + 1, Len(s))

\* Each <<position, x>> of places in turn.
InsertAll(s, places) ==
    LET inserted[n \in 0..Len(places)] ==
          IF n = 0 THEN s ELSE InsertBack(inserted[n - 1], places[n][1], places[n][2])
    IN  inserted[Len(places)]

\* The elements of the first n of some lists.
Total(lists, n) ==
    LET total[i \in 0..n] == IF i = 0 THEN 0 ELSE total[i - 1] + Len(lists[i])
    IN  total[n]
=============================================================================
