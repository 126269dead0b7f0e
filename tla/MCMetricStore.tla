--------------------------- MODULE MCMetricStore ---------------------------
(* Small instances of MetricStore: one or two writers of one coordinate.    *)
EXTENDS MetricStore, TLC

CONSTANTS w1, w2

OneWriter  == {w1}
TwoWriters == {w1, w2}

Rounded   == {0, 2, 4}    \* multiples of Scale, neighbours within the tolerance
Unrounded == {1}          \* between two steps of the column

Symmetry == Permutations({w1, w2})
=============================================================================
