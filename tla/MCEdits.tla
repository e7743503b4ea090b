------------------------------- MODULE MCEdits -------------------------------
(* A page of 36 bytes is exactly full with the count of edits and two        *)
(* copies.                                                                   *)
EXTENDS CmdListEdits

MCAllKinds == {"h2c", "c2h", "d2d", "infreq"}
=============================================================================
