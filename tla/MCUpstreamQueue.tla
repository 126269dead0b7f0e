-------------------------- MODULE MCUpstreamQueue --------------------------
(* Small instances of UpstreamQueue for TLC. *)
EXTENDS UpstreamQueue, TLC

CONSTANTS mops, twse, p1, p2, p3, p4, r1, r2

OneSource    == {mops}
TwoSources   == {mops, twse}
ThreeProcs   == {p1, p2, p3}
FourProcs    == {p1, p2, p3, p4}
OneRequest   == {r1}
TwoRequests  == {r1, r2}

TwoProcs     == {p1, p2}
Symmetry     == Permutations(Procs) \union Permutations(Requests)
=============================================================================
