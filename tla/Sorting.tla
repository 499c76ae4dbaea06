------------------------------ MODULE Sorting ------------------------------
(***************************************************************************)
(* What slices.Sort and slices.SortFunc do to elements whose keys differ,  *)
(* and what a loop that appends some elements of a slice leaves.  The      *)
(* community modules' SetToSortSeq and SelectSeq mean the same; they rest  *)
(* on SortSeq and SelectSeq, which no proof can look into.                 *)
(***************************************************************************)
EXTENDS Integers, FiniteSets

\* The elements of s are in increasing order of their keys.
Ascending(s, key) == \A i, j \in DOMAIN s : i < j => key[s[i]] < key[s[j]]

\* The elements of a finite set in that order.
Sorted(S, key) == CHOOSE s \in [1 .. Cardinality(S) -> S] : Ascending(s, key)
SortedNumbers(S) == Sorted(S, [n \in S |-> n])

\* The elements of s that are in T, where s has them.
Keep(s, T) ==
  LET at == SortedNumbers({k \in DOMAIN s : s[k] \in T}) IN [i \in DOMAIN at |-> s[at[i]]]
=============================================================================
