-------------------------- MODULE MCMarketMetrics --------------------------
(***************************************************************************)
(* The small company of MCCompany, for the metrics of MarketCatalogue:     *)
(* half of its histories, and the changes these metrics can tell apart.    *)
(***************************************************************************)
EXTENDS MarketCatalogue, MCCompany

MarketSituations ==
  {situation(Complete, AllAnnounced, "manufacturing", CompanyPrices), situation(Complete, NotYet, "financial", CompanyPrices),
   situation(Recent, NotYet, "software", CompanyPrices), situation(Pending, NotYet, "manufacturing", CompanyPrices),
   situation(Half, LateRecords, "software", CompanyPrices), situation(Complete, NotYet, "service", <<>>),
   situation(Complete, OutOfOrder, "manufacturing", CompanyPrices), situation(Half, OutOfOrder, "software", CompanyPrices)}

MarketRevisions ==
  {[tables |-> {t}, quarter |-> q, variant |-> v] :
     t \in Statements, q \in {LastQuarter, LastQuarter - 1, LastQuarter - 5}, v \in {"corrected", "loss", "sparse", "scarce"}}
  \union {[tables |-> {t}, quarter |-> LastQuarter - 4, variant |-> "corrected"] : t \in Statements}
  \union {[tables |-> Statements \union Yearly, quarter |-> q, variant |-> "original"] : q \in {LastQuarter, LastQuarter - 1, LastQuarter - 3}}
  \union {[tables |-> {"annualReport"}, quarter |-> q, variant |-> v] :
            q \in {LastQuarter, LastQuarter - 4, LastQuarter - 12}, v \in {"corrected", "loss", "sparse"}}

\* The quarter before the last, and whichever is the latest.
MarketAsked == {Null, LastQuarter - 1}

\* A company that files everything.
PlainSituation == {situation(Complete, AllAnnounced, "manufacturing", CompanyPrices)}
=============================================================================
