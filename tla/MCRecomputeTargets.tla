------------------------- MODULE MCRecomputeTargets -------------------------
(* A small instance of RecomputeTargets: the kinds of rows of the three     *)
(* upstreams, quarters before, in and after the history there is.           *)
EXTENDS RecomputeTargets, TLC

CONSTANTS a, b

Key(k) == k @@ [f \in Fields |-> Null]

R(source, table, symbol, key) ==
  [source |-> source, table |-> table, symbol |-> symbol, key |-> Key(key)]

Old == 20240514   \* 113Q2
New == 20240715   \* 113Q3

Rows ==
  {R("twse", "daily_price", a, "date" :> Old),
   R("twse", "daily_price", a, "date" :> New),
   R("twse", "daily_price", b, "date" :> New),
   R("twse", "daily_valuation", a, "date" :> Old),
   R("twse", "daily_price", b, "quarter" :> 1),
   R("twse", "daily_taiex_index", Null, "date" :> New),
   R("twse", "ex_right_dividend", Null, "date" :> New),
   R("tpex", "daily_price", a, "date" :> New),
   R("tpex", "monthly_revenue", b, "year_month" :> 202405),
   R("twse", "monthly_revenue", b, "year" :> 2024 @@ "month" :> 4),
   R("mops", "income_statement", a, "year" :> 113 @@ "quarter" :> 1),
   R("mops", "income_statement", a, "year" :> 108 @@ "quarter" :> 4),
   R("mops", "income_statement", Null, "year" :> 113 @@ "quarter" :> 1),
   R("mops", "financial_report_announcement", a, "fiscal_year" :> 113 @@ "fiscal_quarter" :> 2),
   R("mops", "capital_stock_history", a, "effective_year" :> 2024 @@ "effective_month" :> 12),
   R("mops", "dividend_distribution", b, "rights_record_date" :> New),
   R("mops", "preferred_stock_redemption_override", b, "date" :> New),
   R("mops", "company_profile", a, "date" :> New)}
=============================================================================
