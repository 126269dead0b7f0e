------------------------- MODULE MCStatementMetrics -------------------------
(* The small company of MCCompany, for the metrics of StatementCatalogue. *)
EXTENDS StatementCatalogue, MCCompany
=============================================================================
