-------------------------- MODULE MCMagicFormulaRank --------------------------
(***************************************************************************)
(* Three companies, one of them financial, two quarters and two values; a   *)
(* processor and a backfill beside it.                                     *)
(***************************************************************************)
EXTENDS MagicFormulaRank

CONSTANTS processor, backfill
Market == 1 .. 3
Banks == {3}
TwoQuarters == 1 .. 2
TwoValues == 1 .. 2
OneProcessor == {processor}
OneScript == {backfill}
=============================================================================
