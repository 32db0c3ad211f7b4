------------------------------- MODULE MCMpsc -------------------------------
(* mpsc.Ring for TLC: the constants are given in MCMpsc.cfg.                *)
EXTENDS Mpsc
=============================================================================
