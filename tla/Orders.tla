-------------------------------- MODULE Orders --------------------------------
(***************************************************************************)
(* Sorting by a strict order, stated by places: the element with k - 1     *)
(* others before it comes k-th.                                            *)
(***************************************************************************)
EXTENDS Integers, FiniteSets

(* S, finite, as a sequence in which what is before comes first.           *)
Sorted(S, Before(_, _)) ==
  [k \in 1..Cardinality(S) |->
     CHOOSE e \in S : Cardinality({f \in S : Before(f, e)}) = k - 1]
===============================================================================
