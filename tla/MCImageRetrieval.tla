-------------------------- MODULE MCImageRetrieval --------------------------
(* Instances of ImageRetrieval for TLC: small libraries whose rankings      *)
(* compete for the same assets.                                            *)
EXTENDS ImageRetrieval

CONSTANTS a1, a2, a3

\* Nothing found, one hit, and two rankings that want each other's best hit.
Competing == {<<>>, <<a1>>, <<a1, a2, a3>>, <<a2, a1>>}
SecondUnnamed == {<<2, 1>>}
=============================================================================
