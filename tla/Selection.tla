----------------------------- MODULE Selection -----------------------------
(***************************************************************************)
(* What is left of a sequence when some of its elements go: retain, filter *)
(* and the sets that remember what was seen.                               *)
(***************************************************************************)
EXTENDS Integers, Sequences, FiniteSets

\* The k-th of a set of positions.
Nth(positions, k) == CHOOSE i \in positions : Cardinality({j \in positions : j <= i}) = k

\* The elements at these positions, in their order.
At(seq, positions) == [k \in 1..Cardinality(positions) |-> seq[Nth(positions, k)]]

\* Every element once, at its first position.
Distinct(seq) == At(seq, {i \in DOMAIN seq : \A j \in 1..(i - 1) : seq[j] # seq[i]})
=============================================================================
