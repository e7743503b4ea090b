-------------------------------- MODULE RWLock --------------------------------
(***************************************************************************)
(* What nnpiHostRes promises its users: each object is held by any number  *)
(* of readers or by one writer.  An actor holds an object at most once.    *)
(***************************************************************************)
CONSTANTS Object, Actor

VARIABLES
    readers,  \* [Object -> SUBSET Actor]
    writers   \* [Object -> SUBSET Actor]

Init ==
    /\ readers = [o \in Object |-> {}]
    /\ writers = [o \in Object |-> {}]

AcquireRead(o, a) ==
    /\ writers[o] = {}
    /\ a \notin readers[o]
    /\ readers' = [readers EXCEPT ![o] = @ \cup {a}]
    /\ UNCHANGED writers

AcquireWrite(o, a) ==
    /\ readers[o] = {} /\ writers[o] = {}
    /\ writers' = [writers EXCEPT ![o] = {a}]
    /\ UNCHANGED readers

ReleaseRead(o, a) ==
    /\ a \in readers[o]
    /\ readers' = [readers EXCEPT ![o] = @ \ {a}]
    /\ UNCHANGED writers

ReleaseWrite(o, a) ==
    /\ a \in writers[o]
    /\ writers' = [writers EXCEPT ![o] = @ \ {a}]
    /\ UNCHANGED readers

Next == \E o \in Object, a \in Actor :
    \/ AcquireRead(o, a)
    \/ AcquireWrite(o, a)
    \/ ReleaseRead(o, a)
    \/ ReleaseWrite(o, a)

Spec == Init /\ [][Next]_<<readers, writers>>
=============================================================================
