------------------------------- MODULE MCSpsc -------------------------------
(* spsc.Ring with a small ring and a few laps around it. *)
EXTENDS Spsc
=============================================================================
