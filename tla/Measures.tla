------------------------------ MODULE Measures ------------------------------
(***************************************************************************)
(* The order behind the theorems that something ends: triples and longer   *)
(* tuples of natural numbers, compared lexicographically.                  *)
(***************************************************************************)
EXTENDS Naturals

Triples == Nat \X Nat \X Nat
Less(s, t) == \/ s[1] < t[1]
              \/ s[1] = t[1] /\ s[2] < t[2]
              \/ s[1] = t[1] /\ s[2] = t[2] /\ s[3] < t[3]

\* The same order of tuples of n numbers.
Tuples(n) == [1 .. n -> Nat]
Lower(n, s, t) == \E k \in 1 .. n : /\ s[k] < t[k]
                                    /\ \A j \in 1 .. (k - 1) : s[j] = t[j]
=============================================================================
