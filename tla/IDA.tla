--------------------------------- MODULE IDA ---------------------------------
(***************************************************************************)
(* nnpiIDA (src/nnpi_drv/nnpiUtils.{h,cpp}): the allocator of the protocol *)
(* ids of a context's resources, copies, networks, command lists and       *)
(* inference requests.  The free ids are kept as ranges in a std::map, the *)
(* first id of a range to its last.  Both operations run under the         *)
(* allocator's mutex.                                                      *)
(***************************************************************************)
EXTENDS Integers, FiniteSets

CONSTANTS
    MaxId,  \* the largest id
    Two32   \* ids are uint32_t: their arithmetic is modulo this

ASSUME IDAAssumption ==
    /\ MaxId \in Nat /\ Two32 \in Nat
    /\ MaxId + 1 < Two32

Id == 0 .. MaxId

VARIABLES
    m_free_ranges,  \* a function from the first id of each free range to its last
    m_num_alloc,
    held            \* history: the ids that callers got and did not free

vars == <<m_free_ranges, m_num_alloc, held>>

\* operator[] of std::map as the target of an assignment, and erase.
Put(map, k, v) == [x \in DOMAIN map \cup {k} |-> IF x = k THEN v ELSE map[x]]
Erase(map, k) == [x \in DOMAIN map \ {k} |-> map[x]]

Least(k, S) == k \in S /\ \A x \in S : k <= x

Init ==
    /\ m_free_ranges = [x \in {0} |-> MaxId]
    /\ m_num_alloc = 0
    /\ held = {}

\* Mutant: a range of two ids is taken for one of one.
alloc_early(id) ==
    /\ Least(id, DOMAIN m_free_ranges)
    /\ LET last == m_free_ranges[id] IN
       m_free_ranges' =
           Erase(IF id + 1 < last THEN Put(m_free_ranges, id + 1, last) ELSE m_free_ranges, id)
    /\ m_num_alloc' = m_num_alloc + 1
    /\ held' = held \cup {id}

\* The first id of the first range; alloc returns -1, and changes nothing,
\* when there is none.
alloc(id) ==
    /\ Least(id, DOMAIN m_free_ranges)
    /\ LET last == m_free_ranges[id] IN
       m_free_ranges' =
           Erase(IF id < last THEN Put(m_free_ranges, id + 1, last) ELSE m_free_ranges, id)
    /\ m_num_alloc' = m_num_alloc + 1
    /\ held' = held \cup {id}

\* The ranges that the loop of free(id) stops at.
Neighbours(id) ==
    {lo \in DOMAIN m_free_ranges :
        lo = (id + 1) % Two32 \/ m_free_ranges[lo] = (id - 1) % Two32}

\* free: a range that starts after id, or ends before it, is extended by id;
\* with none id is a range of its own.
free(id) ==
    /\ id \in held
    /\ \/ /\ Neighbours(id) = {}
          /\ m_free_ranges' = Put(m_free_ranges, id, id)
       \/ \E lo \in Neighbours(id) :
             /\ Least(lo, Neighbours(id))
             /\ m_free_ranges' =
                    IF lo = (id + 1) % Two32
                    THEN Erase(Put(m_free_ranges, id, m_free_ranges[lo]), lo)
                    ELSE Put(m_free_ranges, lo, id)
    /\ m_num_alloc' = (m_num_alloc - 1) % Two32
    /\ held' = held \ {id}

Next == \E id \in Id : alloc(id) \/ free(id)

Spec == Init /\ [][Next]_vars

-----------------------------------------------------------------------------
\* Ranges are of ids, and the count is one.
TypeOK ==
    /\ DOMAIN m_free_ranges \subseteq Id
    /\ \A lo \in DOMAIN m_free_ranges : m_free_ranges[lo] \in Id
    /\ m_num_alloc \in 0 .. MaxId + 1
    /\ held \subseteq Id

\* The ranges do not overlap, so that an id is in one at most.
Disjoint ==
    \A a, b \in DOMAIN m_free_ranges : a < b => m_free_ranges[a] < b

\* An id is in a free range exactly when no caller holds it: alloc never hands
\* out an id twice, fails only when every id is held, and loses none, whatever
\* the order in which ids are freed and ranges extended.
FreeExact ==
    \A id \in Id :
        id \notin held <=> \E lo \in DOMAIN m_free_ranges : lo <= id /\ id <= m_free_ranges[lo]

\* get_num_alloc() is the number of ids held: add_resources relies on it to
\* refuse a network with inference requests.
NumExact == m_num_alloc = Cardinality(held)
=============================================================================
