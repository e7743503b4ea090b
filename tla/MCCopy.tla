-------------------------------- MODULE MCCopy --------------------------------
(***************************************************************************)
(* Instances of CopyCommand for TLC.  "in" is an input that two threads    *)
(* lock for the CPU, "out" an output (the CPU locks it for read), "inout"  *)
(* carries copies in both directions, and "free" is lockless.              *)
(***************************************************************************)
EXTENDS CopyCommand

MCRes == {"in", "out", "free"}
MCUsage == [r \in MCRes |-> CASE r = "in" -> {"INPUT"}
                             [] r = "out" -> {"OUTPUT"}
                             [] OTHER -> {"INPUT", "LOCKLESS"}]
MCCpuThread == {"t1", "t2", "t3"}
MCCpuRes == [t \in MCCpuThread |-> IF t = "t2" THEN "out" ELSE "in"]
MCCopy3 == {"h2c", "c2h", "lockless"}
MCCopyRes == [c \in MCCopy3 |-> CASE c = "h2c" -> "in" [] c = "c2h" -> "out" [] OTHER -> "free"]

\* Two readers and a writer of one resource.
OneThread == {"t1"}
RWUsage == [r \in {"inout"} |-> {"INPUT", "OUTPUT"}]
RWCpuRes == [t \in OneThread |-> "inout"]
RWCopy == {"a", "b", "w"}
RWCopyRes == [c \in RWCopy |-> "inout"]
=============================================================================
