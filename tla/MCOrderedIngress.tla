-------------------------- MODULE MCOrderedIngress --------------------------
(* Outcomes of the model: an empty reply (0 bytes), a text (2), one that is  *)
(* larger than the whole cache (4) and an error the boundary check rejects.  *)
EXTENDS OrderedIngress, TLC

MCOutcomes == {"empty", "text", "huge", "badError"}
PlainOutcomes == {"empty", "text", "huge"}
PlainInvalidErrors == {}
MCInvalidErrors == {"badError"}
MCSafeError == "text"
Bytes(o) == CASE o = "empty" -> 0 [] o = "huge"  -> 4 [] OTHER -> 2
MCSize == [o \in MCOutcomes |-> Bytes(o)]
PlainSize == [o \in PlainOutcomes |-> Bytes(o)]

\* Peers and requests, or streams and epochs, are only compared, and the runs
\* that use the symmetry check safety properties that quantify over them.
ContentSymmetry == Permutations(Peers) \cup Permutations(Requests)
SessionSymmetry == Permutations(Streams) \cup Permutations(Epochs)
=============================================================================
