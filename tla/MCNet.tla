-------------------------------- MODULE MCNet --------------------------------
(***************************************************************************)
(* A network with three ids for requests.  One thread builds it, creates   *)
(* and destroys requests, often enough for an id to be used again and for  *)
(* ranges to meet; the other sets a property, or destroys a request or the *)
(* network.  Both may add resources, in two pages: one that has both an   *)
(* id and configuration, and one with the rest of the configuration.       *)
(***************************************************************************)
EXTENDS Network

MCThread == {"t1", "t2"}
MCDoes == [t \in MCThread |-> IF t = "t1" THEN {"create", "destroy", "add"} ELSE Call \ {"create"}]
MCCalls == [t \in MCThread |-> IF t = "t1" THEN 3 ELSE 1]
MCSizes == {<<1, 2>>}
=============================================================================
