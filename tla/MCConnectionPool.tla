-------------------------- MODULE MCConnectionPool --------------------------
(* ConnectionPool for TLC.                                                   *)
EXTENDS ConnectionPool

CONSTANTS k1, k2, k3, k4, t1, t2, t3, x1, x2
=============================================================================
