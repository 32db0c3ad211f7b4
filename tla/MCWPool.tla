------------------------------ MODULE MCWPool -------------------------------
(* wpool.Pool and Adaptive: the constants are given in MCWPool.cfg.         *)
EXTENDS WPool
=============================================================================
