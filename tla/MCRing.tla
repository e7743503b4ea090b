-------------------------------- MODULE MCRing --------------------------------
(***************************************************************************)
(* An instance of CmdRing for TLC: commands of three, two and one pages on *)
(* the ring of two pages that every context has.                           *)
(***************************************************************************)
EXTENDS CmdRing, TLC

CONSTANTS p1, p2, p3

MCProducer == {p1, p2, p3}
MCPages == p1 :> 3 @@ p2 :> 2 @@ p3 :> 1
=============================================================================
