---------------------------- MODULE MCQuotaAlerts ----------------------------
(* A small instance of QuotaAlerts: one window, whose start is known or not,  *)
(* and two evaluations that meet at it.                                       *)
EXTENDS QuotaAlerts, TLC
=============================================================================
