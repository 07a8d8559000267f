------------------------------ MODULE Thinning ------------------------------
(* What a loop over a vector leaves that erases elements on its way.          *)
EXTENDS Naturals, Sequences, FiniteSets

\* rest is the sequence order without the elements of gone: p picks the places
\* that are kept, in their order.
Thinned(order, gone, rest) ==
  LET kept == {i \in 1..Len(order) : order[i] \notin gone}
  IN  \E p \in [1..Cardinality(kept) -> kept] :
        /\ \A i, j \in DOMAIN p : i < j => p[i] < p[j]
        /\ rest = [i \in DOMAIN p |-> order[p[i]]]
=============================================================================
