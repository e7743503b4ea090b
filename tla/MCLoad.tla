-------------------------------- MODULE MCLoad --------------------------------
(***************************************************************************)
(* Blocks of two bytes, a resource of seven: streams of up to eight bytes  *)
(* take each block more than once, end in or on the edge of a block, or    *)
(* are too long for the resource.  Offsets lie inside it, past its end,    *)
(* and where offset + n wraps around.                                      *)
(***************************************************************************)
EXTENDS StreamLoad
===============================================================================
