------------------------------ MODULE Picking ------------------------------
(***************************************************************************)
(* The comprehension [x for x in seq if ...]: what stands at some of the   *)
(* positions of a sequence, in its order.  It is told by the set of        *)
(* positions rather than by a test of the elements, so that facts about it *)
(* can be stated once for all its uses.                                    *)
(***************************************************************************)
EXTENDS Naturals, FiniteSets

\* How many positions of I come before i.
Position(I, i) == Cardinality({j \in I : j < i})

Picked(seq, I) == [k \in 1..Cardinality(I) |-> seq[CHOOSE i \in I : Position(I, i) = k - 1]]
=============================================================================
