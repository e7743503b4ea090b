-------------------------------- MODULE MCLife --------------------------------
(* Two contexts at once, one of which may lose its card.                      *)
EXTENDS ContextLife
===============================================================================
