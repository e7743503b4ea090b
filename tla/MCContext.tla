------------------------------ MODULE MCContext ------------------------------
(* One thread creates copies and one creates a command list.                *)
EXTENDS InfContext

MCThread == {"a", "b"}
MCDoes == [t \in MCThread |-> IF t = "a" THEN "COPY" ELSE "CMD"]
MCCreates == [t \in MCThread |-> IF t = "a" THEN 2 ELSE 1]
=============================================================================
