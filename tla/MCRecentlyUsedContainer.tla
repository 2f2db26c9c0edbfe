---------------------- MODULE MCRecentlyUsedContainer ----------------------
(* RecentlyUsedContainer for TLC: three keys for two places.                 *)
EXTENDS RecentlyUsedContainer

CONSTANTS t1, t2, a, b, c, v1, v2, v3, v4
=============================================================================
