-------------------------------- MODULE MCList --------------------------------
(* A list of a card-to-host copy and a copy list of two host-to-card copies.   *)
(* A card-to-host copy that writes what the last one reads is scheduled on its *)
(* own.                                                                        *)
EXTENDS CommandList

MCCopies == {"a", "b", "c", "s"}
MCListRes == {"x", "y", "z"}
MCResOf == [c \in MCCopies |-> CASE c = "a" -> "x" [] c = "c" -> "z" [] OTHER -> "y"]
MCFlags == [r \in MCListRes |-> CASE r = "x" -> {"INPUT"} [] r = "y" -> {"INPUT", "OUTPUT"} [] OTHER -> {"OUTPUT"}]
MCVec == <<<<"c">>, <<"a", "b">>>>
MCNoThread == [t \in {} |-> "x"]
=============================================================================
