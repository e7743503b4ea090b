------------------------------- MODULE MCMarker -------------------------------
(* A counter of two bits' worth less one: every cycle has three positions.   *)
EXTENDS Marker
===============================================================================
