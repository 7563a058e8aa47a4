----------------------------- MODULE MCPricing -----------------------------
(***************************************************************************)
(* Pricing with a calendar of two-day months: every second day starts one, *)
(* so a run of a few days crosses months, and the first and the last day   *)
(* of a month are both there.                                              *)
(***************************************************************************)
EXTENDS Pricing

TwoDayMonthStart(d) == d - (d % 2)
TwoDays(d) == 2
=============================================================================
