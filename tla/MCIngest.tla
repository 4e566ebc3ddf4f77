------------------------------ MODULE MCIngest ------------------------------
(* Instance of Ingest for TLC: which request carries which body.             *)
EXTENDS Ingest

CONSTANTS g1, g2, g3, p1, m1, i1

MCBody == [r \in Requests |-> CASE r = m1 -> "malformed"
                                [] r = i1 -> "invalid"
                                [] r = p1 -> "poison"
                                [] OTHER  -> "good"]

\* Nothing tells good events apart.
GoodSymmetry == Permutations({g1, g2, g3} \cap Requests)
=============================================================================
