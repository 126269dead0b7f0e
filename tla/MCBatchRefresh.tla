--------------------------- MODULE MCBatchRefresh ---------------------------
(* Small instances of BatchRefresh. *)
EXTENDS BatchRefresh, TLC

CONSTANTS s1, s2, s3, w1, w2, w3

TwoSymbols   == {s1, s2}
ThreeSymbols == {s1, s2, s3}
OneFlaky     == {s1}
OneDaily     == {s1}
TwoDaily     == {s1, s2}
ThreeWorkers == {w1, w2, w3}

Symmetry == Permutations({w1, w2, w3})
=============================================================================
