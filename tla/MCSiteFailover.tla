--------------------------- MODULE MCSiteFailover ---------------------------
(* A small instance of SiteFailover: two addresses, a read and a write that   *)
(* meet at them, and that may have come from a log-in at the fallback.        *)
EXTENDS SiteFailover, TLC
=============================================================================
