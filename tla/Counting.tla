------------------------------ MODULE Counting -------------------------------
(* How often a value occurs in sequences, as cardinalities of sets of       *)
(* positions.                                                               *)
EXTENDS Integers, Sequences, FiniteSets

Elements(seq) == {seq[i] : i \in 1..Len(seq)}
Positions(seq, x) == {i \in 1..Len(seq) : seq[i] = x}
Count(seq, x) == Cardinality(Positions(seq, x))

(* The size of a family of sets, counted with multiplicity. *)
Total(family) == Cardinality(UNION {{k} \X family[k] : k \in DOMAIN family})

=============================================================================
