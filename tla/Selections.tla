----------------------------- MODULE Selections -----------------------------
(***************************************************************************)
(* The elements of a sequence at chosen positions, in their order: what    *)
(* Array.prototype.filter returns.  Not recursive, unlike SelectSeq, so    *)
(* that what both hubs of live events build with it can be proved about.   *)
(***************************************************************************)
EXTENDS Integers, FiniteSets

Rank(positions, i) == Cardinality({j \in positions : j <= i})

Nth(positions, n) == CHOOSE i \in positions : Rank(positions, i) = n

Chosen(seq, positions) == [n \in 1 .. Cardinality(positions) |-> seq[Nth(positions, n)]]
=============================================================================
