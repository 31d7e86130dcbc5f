------------------------------- MODULE Listings --------------------------------
(***************************************************************************)
(* Array.prototype.filter and sort, the second stable.  They are defined   *)
(* by the places of the elements: SelectSeq and SortSeq would do for TLC,  *)
(* but the order of ties is open in the second, and the provers know the   *)
(* definition of neither.                                                  *)
(***************************************************************************)
EXTENDS Integers, Sequences, FiniteSets

(* The elements of s at the places I in the order of the pairs `order`: i  *)
(* comes at the position that counts the places up to i.                   *)
Rank(i, I, order) == Cardinality({j \in I : <<j, i>> \in order})

Arranged(s, I, order) ==
  [k \in 1 .. Cardinality(I) |-> s[CHOOSE i \in I : Rank(i, I, order) = k]]

Ascending(I) == {p \in I \X I : p[1] <= p[2]}

At(s, I) == Arranged(s, I, Ascending(I))

Filtered(s, Test(_)) == At(s, {i \in 1 .. Len(s) : Test(s[i])})

Sorted(s, Before(_, _)) ==
  LET I == 1 .. Len(s) IN
  Arranged(s, I, {p \in I \X I : \/ Before(s[p[1]], s[p[2]])
                                 \/ p[1] <= p[2] /\ ~Before(s[p[2]], s[p[1]])})
=============================================================================
