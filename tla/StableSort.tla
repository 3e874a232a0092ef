------------------------------ MODULE StableSort ------------------------------
(* Sorting as the language does it: what comes before comes first, and of two that *)
(* do not come before each other the one that came first. By positions, so that    *)
(* entries are chosen and sorted in one step.                                     *)
EXTENDS Integers, FiniteSets

(* The entries of s at the positions I in order.                                  *)
SortedAt(s, I, Before(_, _)) ==
  LET Ahead(j, i) == Before(s[j], s[i]) \/ (~ Before(s[i], s[j]) /\ j < i)
      At(p) == CHOOSE i \in I : Cardinality({j \in I : Ahead(j, i)}) + 1 = p
  IN  [p \in 1 .. Cardinality(I) |-> s[At(p)]]
===============================================================================
