---------------------------- MODULE NetworkProofs ----------------------------
(***************************************************************************)
(* The proofs about Network, and about the allocator of ids that it runs,  *)
(* for any threads, calls, sizes, pages and failures.                      *)
(*                                                                         *)
(* The inductive invariant NetInv, at the end, is a conjunction of parts,  *)
(* each with the lemma that a step keeps it:                               *)
(*   Types      what the variables hold, and the call a thread is in;      *)
(*   Locking    who has the mutex of the context, and what is sent;        *)
(*   Ids        an id is in one place at a time, and then it is held;      *)
(*   Claims     an id that is held is in such a place, or it is lost;      *)
(*   Pages      the pages in the channel follow each other and the chain;  *)
(*   Stage      what there can be before the network is built and after;   *)
(*   OwnAnswer  a command or its answer is in one place, and its thread    *)
(*              waits for it;                                              *)
(*   Numbered   the handle of a request that is being made is not known;   *)
(*   Destroys   handles are of live requests until they are destroyed;     *)
(*   Adds       no request meets a command that adds resources;            *)
(*   Resources  the card has what is counted and what threads have learnt, *)
(*              or are to learn, that they added.                          *)
(* The lemmas about steps, FromFile to CardEvent, say once what an action  *)
(* changes; the proofs cite them and not the actions.                      *)
(***************************************************************************)
EXTENDS Network, FiniteSetTheorems, SequenceTheorems, TLAPS

-----------------------------------------------------------------------------
(***************************************************************************)
(* The allocator of ids                                                    *)
(***************************************************************************)

(***************************************************************************)
(* The ranges R, from the ids in D, hold exactly the ids that are not in   *)
(* H: no range is empty, none overlaps another.                            *)
(***************************************************************************)
Exact(R, D, H) ==
    /\ D \subseteq Id /\ H \subseteq Id
    /\ \A lo \in D : R[lo] \in Id /\ lo <= R[lo]
    /\ \A a, b \in D : a < b => R[a] < b
    /\ \A id \in Id : id \notin H <=> \E lo \in D : lo <= id /\ id <= R[lo]

\* The inductive invariant.
IDAInv ==
    /\ Exact(m_free_ranges, DOMAIN m_free_ranges, held)
    /\ NumExact

\* Unsigned arithmetic wraps around only below zero, and to a value that is no
\* id.
LEMMA NoWrap ==
    ASSUME NEW id \in Id
    PROVE  /\ (id + 1) % Two32 = id + 1
           /\ id > 0 => (id - 1) % Two32 = id - 1
           /\ id = 0 => (id - 1) % Two32 \notin Id
<1> USE IDAAssumption DEF Id
<1>1. (id + 1) % Two32 = id + 1
  <2>1. id + 1 \in 0 .. Two32 - 1
    OBVIOUS
  <2> QED
    BY <2>1
<1>2. ASSUME id > 0 PROVE (id - 1) % Two32 = id - 1
  <2>1. id - 1 \in 0 .. Two32 - 1
    BY <1>2
  <2> QED
    BY <2>1
<1>3. ASSUME id = 0 PROVE (id - 1) % Two32 \notin Id
  <2>1. (-1) % Two32 = Two32 - 1
    OBVIOUS
  <2> QED
    BY <1>3, <2>1
<1> QED
  BY <1>1, <1>2, <1>3

\* Ids and the ends of ranges are numbers.
LEMMA Numbers ==
    ASSUME NEW R, NEW D, NEW H, Exact(R, D, H)
    PROVE  /\ Id \subseteq Int /\ D \subseteq Id /\ D \subseteq Int
           /\ \A lo \in D : R[lo] \in Int
BY DEF Exact, Id

\* An id that is held is beside every range.
LEMMA Beside ==
    ASSUME NEW R, NEW D, NEW H, Exact(R, D, H), NEW id \in H
    PROVE  id \in Id /\ \A lo \in D : id < lo \/ R[lo] < id
<1>1. id \in Id /\ id \in Int
  BY Numbers DEF Exact
<1>2. ASSUME NEW lo \in D PROVE id < lo \/ R[lo] < id
  <2>1. ~(lo <= id /\ id <= R[lo])
    BY <1>1 DEF Exact
  <2> QED
    BY <1>1, <2>1, Numbers
<1> QED
  BY <1>1, <1>2

\* alloc, when the first range has more ids than one: it loses its first.
LEMMA TakeFirst ==
    ASSUME NEW R, NEW D, NEW H, Exact(R, D, H),
           NEW id \in D, \A x \in D : id <= x, id < R[id],
           NEW R2, NEW D2, D2 = (D \cup {id + 1}) \ {id},
           \A x \in D2 : R2[x] = IF x = id + 1 THEN R[id] ELSE R[x]
    PROVE  Exact(R2, D2, H \cup {id})
<1> USE DEF Exact
<1>0. /\ Id \subseteq Int /\ D \subseteq Id /\ D \subseteq Int
      /\ \A x \in D : R[x] \in Int
  BY Numbers
<1>1. id \in Id /\ id + 1 \in Id /\ R[id] \in Id /\ id + 1 \in D2 /\ R2[id + 1] = R[id]
  BY IDAAssumption DEF Id
<1>2. \A x \in D : x # id => R[id] < x /\ x \in D2 /\ R2[x] = R[x]
  BY <1>0, <1>1
<1>3. \A lo \in D2 : lo \in Id /\ R2[lo] \in Id /\ lo <= R2[lo]
  BY <1>0, <1>1, <1>2
<1>4. \A a, b \in D2 : a < b => R2[a] < b
  BY <1>0, <1>1, <1>2
<1>5. ASSUME NEW i \in Id PROVE i \notin H \cup {id} <=> \E lo \in D2 : lo <= i /\ i <= R2[lo]
  <2>1. ASSUME NEW lo \in D2, lo <= i, i <= R2[lo] PROVE i \notin H /\ i # id
    <3>1. CASE lo = id + 1
      BY <1>0, <1>1, <2>1, <3>1
    <3>2. CASE lo # id + 1
      BY <1>0, <1>1, <1>2, <2>1, <3>2
    <3> QED
      BY <3>1, <3>2
  <2>2. ASSUME i \notin H, i # id PROVE \E lo \in D2 : lo <= i /\ i <= R2[lo]
    <3>1. PICK lo \in D : lo <= i /\ i <= R[lo]
      BY <2>2
    <3>2. CASE lo = id
      <4>1. id + 1 <= i /\ i <= R2[id + 1]
        BY <1>0, <1>1, <2>2, <3>1, <3>2
      <4> QED
        BY <1>1, <4>1
    <3>3. CASE lo # id
      BY <1>2, <3>1, <3>3
    <3> QED
      BY <3>2, <3>3
  <2> QED
    BY <2>1, <2>2
<1> QED
  BY <1>1, <1>3, <1>4, <1>5

\* alloc, when the first range is one id: it goes away.
LEMMA TakeOnly ==
    ASSUME NEW R, NEW D, NEW H, Exact(R, D, H),
           NEW id \in D, R[id] = id,
           NEW R2, NEW D2, D2 = D \ {id}, \A x \in D2 : R2[x] = R[x]
    PROVE  Exact(R2, D2, H \cup {id})
<1> USE DEF Exact
<1>0. /\ Id \subseteq Int /\ D \subseteq Id /\ D \subseteq Int
      /\ \A x \in D : R[x] \in Int
  BY Numbers
<1>1. \A lo \in D2 : lo \in Id /\ R2[lo] \in Id /\ lo <= R2[lo]
  OBVIOUS
<1>2. \A a, b \in D2 : a < b => R2[a] < b
  OBVIOUS
<1>3. ASSUME NEW i \in Id PROVE i \notin H \cup {id} <=> \E lo \in D2 : lo <= i /\ i <= R2[lo]
  <2>1. \A lo \in D2 : ~(lo <= id /\ id <= R2[lo])
    BY <1>0
  <2>2. CASE i = id
    BY <2>1, <2>2
  <2>3. CASE i # id
    BY <1>0, <2>3
  <2> QED
    BY <2>2, <2>3
<1> QED
  BY <1>0, <1>1, <1>2, <1>3

\* free, when no range is next to the id: it is a range of its own.
LEMMA GiveAlone ==
    ASSUME NEW R, NEW D, NEW H, Exact(R, D, H), NEW id \in H,
           NEW R2, NEW D2, D2 = D \cup {id},
           \A x \in D2 : R2[x] = IF x = id THEN id ELSE R[x]
    PROVE  Exact(R2, D2, H \ {id})
<1> USE DEF Exact
<1>0. /\ Id \subseteq Int /\ D \subseteq Id /\ D \subseteq Int
      /\ \A x \in D : R[x] \in Int
  BY Numbers
<1>1. id \in Id /\ \A lo \in D : id < lo \/ R[lo] < id
  BY Beside
<1>2. id \in D2 /\ R2[id] = id /\ \A x \in D : x \in D2 /\ x # id /\ R2[x] = R[x]
  BY <1>0, <1>1
<1>3. \A lo \in D2 : lo \in Id /\ R2[lo] \in Id /\ lo <= R2[lo]
  BY <1>0, <1>2
<1>4. \A a, b \in D2 : a < b => R2[a] < b
  BY <1>0, <1>1, <1>2
<1>5. ASSUME NEW i \in Id PROVE i \notin H \ {id} <=> \E lo \in D2 : lo <= i /\ i <= R2[lo]
  <2>1. CASE i = id
    BY <1>0, <1>2, <2>1
  <2>2. CASE i # id
    BY <1>0, <1>2, <2>2
  <2> QED
    BY <2>1, <2>2
<1> QED
  BY <1>0, <1>3, <1>4, <1>5

\* free, when a range starts after the id: it starts at the id now.
LEMMA GiveBefore ==
    ASSUME NEW R, NEW D, NEW H, Exact(R, D, H), NEW id \in H, id + 1 \in D,
           NEW R2, NEW D2, D2 = (D \cup {id}) \ {id + 1},
           \A x \in D2 : R2[x] = IF x = id THEN R[id + 1] ELSE R[x]
    PROVE  Exact(R2, D2, H \ {id})
<1> USE DEF Exact
<1>0. /\ Id \subseteq Int /\ D \subseteq Id /\ D \subseteq Int
      /\ \A x \in D : R[x] \in Int
  BY Numbers
<1>1. id \in Id /\ \A lo \in D : id < lo \/ R[lo] < id
  BY Beside
<1>2. id \in D2 /\ R2[id] = R[id + 1] /\ id + 1 <= R[id + 1] /\ R[id + 1] \in Id
  BY <1>0
<1>3. \A x \in D : x # id + 1 => x \in D2 /\ x # id /\ R2[x] = R[x]
  BY <1>0, <1>1
<1>4. \A lo \in D2 : lo \in Id /\ R2[lo] \in Id /\ lo <= R2[lo]
  BY <1>0, <1>2, <1>3
<1>5. \A a, b \in D2 : a < b => R2[a] < b
  BY <1>0, <1>1, <1>2, <1>3
<1>6. ASSUME NEW i \in Id PROVE i \notin H \ {id} <=> \E lo \in D2 : lo <= i /\ i <= R2[lo]
  <2>1. CASE i = id
    BY <1>0, <1>2, <2>1
  <2>2. CASE i # id
    <3>1. ASSUME NEW x \in D, x <= i, i <= R[x] PROVE \E y \in D2 : y <= i /\ i <= R2[y]
      <4>1. CASE x = id + 1
        BY <1>0, <1>2, <3>1, <4>1
      <4>2. CASE x # id + 1
        BY <1>3, <3>1, <4>2
      <4> QED
        BY <4>1, <4>2
    <3>2. ASSUME NEW y \in D2, y <= i, i <= R2[y] PROVE \E x \in D : x <= i /\ i <= R[x]
      <4>1. CASE y = id
        <5>1. id + 1 <= i /\ i <= R[id + 1]
          BY <1>0, <1>2, <2>2, <3>2, <4>1
        <5> QED
          BY <5>1
      <4>2. CASE y # id
        BY <3>2, <4>2
      <4> QED
        BY <4>1, <4>2
    <3> QED
      BY <2>2, <3>1, <3>2
  <2> QED
    BY <2>1, <2>2
<1> QED
  BY <1>0, <1>4, <1>5, <1>6

\* free, when a range ends before the id: it ends at the id now.
LEMMA GiveAfter ==
    ASSUME NEW R, NEW D, NEW H, Exact(R, D, H), NEW id \in H,
           NEW lo \in D, R[lo] = id - 1,
           NEW R2, \A x \in D : R2[x] = IF x = lo THEN id ELSE R[x]
    PROVE  Exact(R2, D, H \ {id})
<1> USE DEF Exact
<1>0. /\ Id \subseteq Int /\ D \subseteq Id /\ D \subseteq Int
      /\ \A x \in D : R[x] \in Int
  BY Numbers
<1>1. id \in Id /\ \A x \in D : id < x \/ R[x] < id
  BY Beside
<1>2. R2[lo] = id /\ lo < id /\ \A x \in D : x # lo => R2[x] = R[x]
  BY <1>0
<1>3. \A x \in D : R2[x] \in Id /\ x <= R2[x]
  BY <1>0, <1>2
<1>4. \A a, b \in D : a < b => R2[a] < b
  BY <1>0, <1>1, <1>2
<1>5. ASSUME NEW i \in Id PROVE i \notin H \ {id} <=> \E x \in D : x <= i /\ i <= R2[x]
  <2>1. CASE i = id
    BY <1>0, <1>2, <2>1
  <2>2. CASE i # id
    <3>1. \A x \in D : (x <= i /\ i <= R[x]) <=> (x <= i /\ i <= R2[x])
      BY <1>0, <1>2, <2>2
    <3> QED
      BY <2>2, <3>1
  <2> QED
    BY <2>1, <2>2
<1> QED
  BY <1>0, <1>3, <1>4, <1>5

\* alloc takes the first id of the first range.
LEMMA AllocRanges ==
    ASSUME IDAInv, NEW id \in Id, alloc(id)
    PROVE  Exact(m_free_ranges', DOMAIN m_free_ranges', held') /\ id \notin held
<1> DEFINE R == m_free_ranges
           D == DOMAIN m_free_ranges
           R2 == m_free_ranges'
           D2 == DOMAIN m_free_ranges'
<1>1. Exact(R, D, held)
  BY DEF IDAInv
<1>2. id \in D /\ (\A x \in D : id <= x) /\ held' = held \cup {id}
  BY DEF alloc, Least
<1>3. id \notin held
  BY <1>1, <1>2 DEF Exact, Id
<1>4. CASE id < R[id]
  <2>1. R2 = Erase(Put(R, id + 1, R[id]), id)
    BY <1>4 DEF alloc
  <2>2. id # id + 1
    BY DEF Id
  <2>3. D2 = (D \cup {id + 1}) \ {id} /\ \A x \in D2 : R2[x] = IF x = id + 1 THEN R[id] ELSE R[x]
    BY <2>1, <2>2 DEF Put, Erase
  <2> HIDE DEF R, D, R2, D2
  <2>4. Exact(R2, D2, held \cup {id})
    BY <1>1, <1>2, <1>4, <2>3, TakeFirst
  <2> QED
    BY <1>2, <1>3, <2>4 DEF R2, D2
<1>5. CASE ~(id < R[id])
  <2>1. R2 = Erase(R, id)
    BY <1>5 DEF alloc
  <2>2. R[id] = id
    BY <1>1, <1>2, <1>5 DEF Exact, Id
  <2>3. D2 = D \ {id} /\ \A x \in D2 : R2[x] = R[x]
    BY <2>1 DEF Erase
  <2> HIDE DEF R, D, R2, D2
  <2>4. Exact(R2, D2, held \cup {id})
    BY <1>1, <1>2, <2>2, <2>3, TakeOnly
  <2> QED
    BY <1>2, <1>3, <2>4 DEF R2, D2
<1> QED
  BY <1>4, <1>5

\* free puts the id back, on its own or at an end of one range.
LEMMA FreeRanges ==
    ASSUME IDAInv, NEW id \in Id, free(id)
    PROVE  Exact(m_free_ranges', DOMAIN m_free_ranges', held') /\ id \in held
<1> DEFINE R == m_free_ranges
           D == DOMAIN m_free_ranges
           R2 == m_free_ranges'
           D2 == DOMAIN m_free_ranges'
<1>1. Exact(R, D, held)
  BY DEF IDAInv
<1>2. id \in held /\ held' = held \ {id}
  BY DEF free
<1>3. \A lo \in D : lo \in Id /\ R[lo] \in Id
  BY <1>1 DEF Exact
<1>4. (id + 1) % Two32 = id + 1
  BY NoWrap
<1>5. \A lo \in D : R[lo] = (id - 1) % Two32 => R[lo] = id - 1
  BY <1>3, NoWrap DEF Id
<1>6. CASE R2 = Put(R, id, id)
  <2>1. D2 = D \cup {id} /\ \A x \in D2 : R2[x] = IF x = id THEN id ELSE R[x]
    BY <1>6 DEF Put
  <2> HIDE DEF R, D, R2, D2
  <2>2. Exact(R2, D2, held \ {id})
    BY <1>1, <1>2, <2>1, GiveAlone
  <2> QED
    BY <1>2, <2>2 DEF R2, D2
<1>7. ASSUME id + 1 \in D, R2 = Erase(Put(R, id, R[id + 1]), id + 1)
      PROVE  Exact(R2, D2, held \ {id})
  <2>1. id # id + 1
    BY DEF Id
  <2>2. D2 = (D \cup {id}) \ {id + 1} /\ \A x \in D2 : R2[x] = IF x = id THEN R[id + 1] ELSE R[x]
    BY <1>7, <2>1 DEF Put, Erase
  <2> HIDE DEF R, D, R2, D2
  <2> QED
    BY <1>1, <1>2, <1>7, <2>2, GiveBefore
<1>8. ASSUME NEW lo \in D, R[lo] = id - 1, R2 = Put(R, lo, id)
      PROVE  Exact(R2, D2, held \ {id})
  <2>1. D2 = D /\ \A x \in D : R2[x] = IF x = lo THEN id ELSE R[x]
    BY <1>8 DEF Put
  <2> HIDE DEF R, D, R2, D2
  <2>2. Exact(R2, D, held \ {id})
    BY <1>1, <1>2, <1>8, <2>1, GiveAfter
  <2> QED
    BY <2>1, <2>2
<1>9. CASE R2 # Put(R, id, id)
  <2>1. PICK lo \in Neighbours(id) :
            R2 = IF lo = (id + 1) % Two32 THEN Erase(Put(R, id, R[lo]), lo) ELSE Put(R, lo, id)
    BY <1>9 DEF free
  <2>2. lo \in D /\ (lo = id + 1 \/ (lo # id + 1 /\ R[lo] = id - 1))
    BY <1>4, <1>5 DEF Neighbours
  <2>3. Exact(R2, D2, held \ {id})
    BY <1>4, <1>7, <1>8, <2>1, <2>2
  <2> QED
    BY <1>2, <2>3
<1> QED
  BY <1>6, <1>9

\* A set of ids is finite, and there are MaxId + 1 of them.
LEMMA IdsFinite ==
    ASSUME NEW S, S \subseteq Id
    PROVE  IsFiniteSet(S) /\ Cardinality(S) \in 0 .. MaxId + 1
<1>1. IsFiniteSet(Id) /\ Cardinality(Id) = MaxId + 1
  BY IDAAssumption, FS_Interval DEF Id
<1>2. IsFiniteSet(S) /\ Cardinality(S) <= Cardinality(Id)
  BY <1>1, FS_Subset
<1>3. Cardinality(S) \in Nat
  BY <1>2, FS_CardinalityType
<1> QED
  BY <1>1, <1>2, <1>3, IDAAssumption

\* The invariant holds after an alloc,
LEMMA AllocKeeps ==
    ASSUME IDAInv, NEW id \in Id, alloc(id)
    PROVE  IDAInv'
<1>1. Exact(m_free_ranges', DOMAIN m_free_ranges', held') /\ id \notin held
  BY AllocRanges
<1>2. held' = held \cup {id} /\ m_num_alloc' = m_num_alloc + 1
  BY DEF alloc
<1>3. held \subseteq Id /\ m_num_alloc = Cardinality(held)
  BY DEF IDAInv, Exact, NumExact
<1>4. IsFiniteSet(held)
  BY <1>3, IdsFinite
<1>5. Cardinality(held') = Cardinality(held) + 1
  BY <1>1, <1>2, <1>4, FS_AddElement
<1> QED
  BY <1>1, <1>2, <1>3, <1>5 DEF IDAInv, NumExact

\* after a free,
LEMMA FreeKeeps ==
    ASSUME IDAInv, NEW id \in Id, free(id)
    PROVE  IDAInv'
<1>1. Exact(m_free_ranges', DOMAIN m_free_ranges', held') /\ id \in held
  BY FreeRanges
<1>2. held' = held \ {id} /\ m_num_alloc' = (m_num_alloc - 1) % Two32
  BY DEF free
<1>3. held \subseteq Id /\ m_num_alloc = Cardinality(held)
  BY DEF IDAInv, Exact, NumExact
<1>4. IsFiniteSet(held) /\ Cardinality(held) \in 0 .. MaxId + 1
  BY <1>3, IdsFinite
<1>5. IsFiniteSet(held') /\ Cardinality(held') \in Nat
  BY <1>1, IdsFinite, IDAAssumption DEF Exact
<1>6. Cardinality(held') = Cardinality(held) - 1
  BY <1>1, <1>2, <1>4, FS_RemoveElement
<1>7. Cardinality(held) - 1 \in 0 .. Two32 - 1
  BY <1>4, <1>5, <1>6, IDAAssumption
<1>8. (Cardinality(held) - 1) % Two32 = Cardinality(held) - 1
  BY <1>7, IDAAssumption
<1> QED
  BY <1>1, <1>2, <1>3, <1>6, <1>8 DEF IDAInv, NumExact

\* and at the start.
LEMMA IDAStart ==
    ASSUME Init
    PROVE  IDAInv
<1>1. DOMAIN m_free_ranges = {0} /\ m_free_ranges[0] = MaxId /\ held = {}
  BY DEF Init
<1>2. Exact(m_free_ranges, DOMAIN m_free_ranges, held)
  BY <1>1, IDAAssumption DEF Exact, Id
<1>3. NumExact
  BY FS_EmptySet DEF Init, NumExact
<1> QED
  BY <1>2, <1>3 DEF IDAInv

\* The free ranges are disjoint and hold exactly the ids that are not held,
\* which the count counts.
THEOREM IDAInductive == Spec => []IDAInv
<1>1. Init => IDAInv
  BY IDAStart
<1>2. IDAInv /\ [Next]_vars => IDAInv'
  <2> SUFFICES ASSUME IDAInv, [Next]_vars PROVE IDAInv'
    OBVIOUS
  <2>1. CASE UNCHANGED vars
    BY <2>1 DEF IDAInv, NumExact, vars
  <2> QED
    BY <2>1, AllocKeeps, FreeKeeps DEF Next
<1> QED
  BY <1>1, <1>2, PTL DEF Spec

\* The ranges are ranges of ids, and the count stays in its range: the
\* decrement of m_num_alloc never wraps around.
THEOREM IDATypeCorrect == Spec => []TypeOK
<1>1. IDAInv => TypeOK
  BY IdsFinite DEF IDAInv, Exact, NumExact, TypeOK
<1> QED
  BY <1>1, IDAInductive, PTL

\* An id is in no two ranges.
THEOREM IDADisjoint == Spec => []Disjoint
<1>1. IDAInv => Disjoint
  BY DEF IDAInv, Exact, Disjoint
<1> QED
  BY <1>1, IDAInductive, PTL

\* alloc hands out no id twice and loses none.
THEOREM IDAFreeExact == Spec => []FreeExact
<1>1. IDAInv => FreeExact
  BY DEF IDAInv, Exact, FreeExact
<1> QED
  BY <1>1, IDAInductive, PTL

\* get_num_alloc is exact.
THEOREM IDANumExact == Spec => []NumExact
<1>1. IDAInv => NumExact
  BY DEF IDAInv
<1> QED
  BY <1>1, IDAInductive, PTL

-----------------------------------------------------------------------------
(***************************************************************************)
(* What the variables hold, and where a thread can be                      *)
(***************************************************************************)

Requests == Id \X Nat
Answers == [of : Call \cup {"none", "build", "broken", "io_error"}, ok : BOOLEAN]
ThreadState ==
    [pc : {"idle", "file0", "file1", "lock", "send", "wait", "answered", "insert", "remove"} \cup Call,
     op : Call \cup {"none", "build"}, arg : Nat \X Nat, got : Answers]

\* What the two directions of the channel carry.
Item == {"res", "conf"} \X Nat
PageMessage ==
    [op : {"build", "add"}, by : Thread, first : BOOLEAN, num_res : Nat, size : Nat, items : Seq(Item)]
Message ==
    PageMessage \cup [op : {"property"}, by : Thread] \cup [op : {"create"}, by : Thread, req : Requests]
      \cup [op : {"destroy"}, req : Requests] \cup [op : {"destroy_net"}]
Reported ==
    [op : {"reply"}, key : Id \cup {-1}, what : Answers, by : Thread] \cup [op : {"infreq_destroyed"}, id : Id]
      \cup [op : {"devnet_destroyed", "context", "card"}]

HostTypes ==
    /\ thr \in [Thread -> ThreadState]
    /\ s_networks \in BOOLEAN /\ netDB \in BOOLEAN /\ s_infreqs \subseteq Requests /\ reqDB \subseteq Id
    /\ m_devres_vec \in Nat /\ m_mutex \in Thread \cup {NoOne} /\ sent \in Nat \X Nat
    /\ m_critical_error \in {"none", "context", "card"} /\ exited \in BOOLEAN
    /\ DOMAIN m_create_reply \subseteq Id \cup {-1}
    /\ \A k \in DOMAIN m_create_reply : m_create_reply[k].what \in Answers /\ m_create_reply[k].by \in Thread
    /\ made \in Nat /\ leaked \subseteq Id

CardTypes ==
    /\ h2c \in Seq(Message) /\ c2h \in Seq(Reported)
    /\ cardNet \in {"none", "up", "dying", "gone"} /\ cardRes \in Nat /\ cardReq \subseteq Requests /\ chain \in Seq(Item)

\* Which call a thread can be in at each point, and with what arguments.
Fits(t, p, o, a) ==
    /\ p \in {"file0", "file1"} => o = "build"
    /\ p \in {"lock", "send"} => o \in {"build", "add", "create"}
    /\ p \in {"wait", "answered"} => o \in {"build", "add", "create", "property"}
    /\ p \in Call => o = p
    /\ p = "insert" => o = "add"
    /\ p = "remove" => o \in {"destroy", "destroy_net"}
    /\ o = "create" /\ p # "create" => a \in Requests
    /\ o = "destroy" => a \in Requests
    /\ o \in {"build", "add"} /\ p # "file0" => a[1] + a[2] > 0
    /\ o = "build" /\ p # "file0" => a[1] > 0
    /\ o = "build" => t = Builder

Place(t) == (thr[t].pc = "idle" => thr[t] = Idle) /\ Fits(t, thr[t].pc, thr[t].op, thr[t].arg)

Types == HostTypes /\ CardTypes /\ IDAInv /\ \A t \in Thread : Place(t)

\* The mutex of the context is held from the first page, or the request, to the answer.
Sending(t) == thr[t].pc = "send" /\ thr[t].op \in {"build", "add"}
Inside(p, o) == p = "send" \/ (p = "wait" /\ o # "property")

\* What is left to send: the configuration comes after the last resource.
LeftToSend(t) ==
    /\ sent[1] <= thr[t].arg[1] /\ sent[2] <= thr[t].arg[2]
    /\ sent[2] > 0 => sent[1] = thr[t].arg[1]
    /\ sent[1] + sent[2] < thr[t].arg[1] + thr[t].arg[2]

Locking ==
    /\ \A t \in Thread : m_mutex = t <=> Inside(thr[t].pc, thr[t].op)
    /\ (\A t \in Thread : ~Sending(t)) => sent = <<0, 0>>
    /\ \A t \in Thread : Sending(t) => LeftToSend(t)

\* Where the id of a request can be: with a thread that has not sent it yet, in a request,
\* with the card's request, or in the event of its destruction.
Making(t, id) == thr[t].op = "create" /\ thr[t].pc \in {"lock", "send"} /\ thr[t].arg[1] = id
Asked(k, id) == k \in DOMAIN h2c /\ h2c[k].op = "create" /\ h2c[k].req[1] = id
Known(r, id) == r \in cardReq /\ r[1] = id
Gone(k, id) == k \in DOMAIN c2h /\ c2h[k].op = "infreq_destroyed" /\ c2h[k].id = id

\* It is in one place at most, and then it is held.
OnePlace(id) ==
    /\ \A t \in Thread : Making(t, id) =>
          /\ id \in held /\ \A u \in Thread : Making(u, id) => u = t
          /\ \A k \in DOMAIN h2c : ~Asked(k, id)
          /\ \A r \in cardReq : ~Known(r, id)
          /\ \A k \in DOMAIN c2h : ~Gone(k, id)
    /\ \A k \in DOMAIN h2c : Asked(k, id) =>
          /\ id \in held /\ \A j \in DOMAIN h2c : Asked(j, id) => j = k
          /\ \A r \in cardReq : ~Known(r, id)
          /\ \A j \in DOMAIN c2h : ~Gone(j, id)
    /\ \A r \in cardReq : Known(r, id) =>
          /\ id \in held /\ \A q \in cardReq : Known(q, id) => q = r
          /\ \A j \in DOMAIN c2h : ~Gone(j, id)
    /\ \A k \in DOMAIN c2h : Gone(k, id) =>
          id \in held /\ \A j \in DOMAIN c2h : Gone(j, id) => j = k

Ids == \A id \in Id : OnePlace(id)

-----------------------------------------------------------------------------
(***************************************************************************)
(* Queues                                                                  *)
(***************************************************************************)

\* A message is appended to a queue,
LEMMA AppendTo ==
    ASSUME NEW M, NEW q \in Seq(M), NEW m \in M, NEW r, r = Append(q, m)
    PROVE  /\ r \in Seq(M) /\ Len(q) + 1 \in DOMAIN r /\ r[Len(q) + 1] = m
           /\ \A i \in DOMAIN q : i \in DOMAIN r /\ r[i] = q[i] /\ i \in Nat /\ i < Len(q) + 1
           /\ \A i \in DOMAIN r : i \in DOMAIN q \/ i = Len(q) + 1
           /\ Len(q) \in Nat
OBVIOUS

\* or the first one is taken from it.
LEMMA TailOf ==
    ASSUME NEW M, NEW q \in Seq(M), q # <<>>, NEW r, r = Tail(q)
    PROVE  /\ r \in Seq(M) /\ Head(q) \in M
           /\ 1 \in DOMAIN q /\ Head(q) = q[1]
           /\ \A i \in DOMAIN r : i \in Nat \ {0} /\ i + 1 \in DOMAIN q /\ r[i] = q[i + 1]
           /\ \A i \in DOMAIN q : i \in Nat \ {0} /\ (i # 1 => i - 1 \in DOMAIN r /\ r[i - 1] = q[i])
OBVIOUS

\* The messages of r of some kinds are those of q, d places further to the front.
Carried(q, r, ops, d) ==
    /\ d \in {0, 1}
    /\ \A k \in DOMAIN r : k \in Nat /\ (r[k].op \in ops => k + d \in DOMAIN q /\ q[k + d] = r[k])

LEMMA CarriedSame == ASSUME NEW M, NEW q \in Seq(M), NEW r, r = q, NEW ops PROVE Carried(q, r, ops, 0)
BY DEF Carried

LEMMA CarriedAppend ==
    ASSUME NEW M, NEW q \in Seq(M), NEW m \in M, NEW r, r = Append(q, m), NEW ops, m.op \notin ops
    PROVE  Carried(q, r, ops, 0)
<1>1. /\ r[Len(q) + 1] = m /\ Len(q) \in Nat
      /\ \A i \in DOMAIN q : r[i] = q[i] /\ i \in Nat
      /\ \A i \in DOMAIN r : i \in DOMAIN q \/ i = Len(q) + 1
  BY AppendTo
<1>2. ASSUME NEW k \in DOMAIN r PROVE k \in Nat /\ (r[k].op \in ops => k + 0 \in DOMAIN q /\ q[k + 0] = r[k])
  BY <1>1
<1> QED
  BY <1>2 DEF Carried

LEMMA CarriedTail ==
    ASSUME NEW M, NEW q \in Seq(M), q # <<>>, NEW r, r = Tail(q), NEW ops
    PROVE  Carried(q, r, ops, 1)
<1>1. \A i \in DOMAIN r : i \in Nat \ {0} /\ i + 1 \in DOMAIN q /\ r[i] = q[i + 1]
  BY TailOf
<1> QED
  BY <1>1 DEF Carried

LEMMA MessageFields ==
    ASSUME NEW m \in Message
    PROVE  /\ m.op \in {"build", "add", "property", "create", "destroy", "destroy_net"}
           /\ m.op \in {"build", "add"} =>
                 /\ m.by \in Thread /\ m.first \in BOOLEAN /\ m.num_res \in Nat /\ m.size \in Nat /\ m.items \in Seq(Item)
           /\ m.op = "property" => m.by \in Thread
           /\ m.op = "create" => m.by \in Thread /\ m.req \in Requests
           /\ m.op = "destroy" => m.req \in Requests
BY DEF Message, PageMessage

LEMMA ReportedFields ==
    ASSUME NEW m \in Reported
    PROVE  /\ m.op \in {"reply", "infreq_destroyed", "devnet_destroyed", "context", "card"}
           /\ m.op = "reply" => m.key \in Id \cup {-1} /\ m.what \in Answers /\ m.by \in Thread
           /\ m.op = "infreq_destroyed" => m.id \in Id
BY DEF Reported

\* What a thread sends and what the card answers are messages.
LEMMA Messages ==
    /\ \A t \in Thread : [op |-> "property", by |-> t] \in Message
    /\ \A t \in Thread, r \in Requests : [op |-> "create", by |-> t, req |-> r] \in Message
    /\ \A r \in Requests : [op |-> "destroy", req |-> r] \in Message
    /\ [op |-> "destroy_net"] \in Message
BY DEF Message

LEMMA Reports ==
    /\ \A k \in Id \cup {-1}, t \in Thread, w \in Answers : [op |-> "reply", key |-> k, what |-> w, by |-> t] \in Reported
    /\ \A i \in Id : [op |-> "infreq_destroyed", id |-> i] \in Reported
    /\ \A e \in {"devnet_destroyed", "context", "card"} : [op |-> e] \in Reported
BY DEF Reported

-----------------------------------------------------------------------------
(***************************************************************************)
(* Steps of threads                                                        *)
(***************************************************************************)

\* t gets to p, in call o with argument a and answer g; no other thread moves.
Moves(t, p, o, a, g) ==
    /\ thr' \in [Thread -> ThreadState]
    /\ thr'[t].pc = p /\ thr'[t].op = o /\ thr'[t].arg = a /\ thr'[t].got = g
    /\ \A u \in Thread : u # t => thr'[u] = thr[u]

\* t goes on in its call.
Goes(t, p) == Moves(t, p, thr[t].op, thr[t].arg, thr[t].got)

\* t returns from its call.
Returns(t) == thr'[t] = Idle /\ Moves(t, "idle", "none", <<0, 0>>, Failure("none"))

LEMMA IdleType == Idle \in ThreadState /\ \A t \in Thread : thr[t] = Idle => thr[t].pc = "idle" /\ thr[t].op = "none"
BY DEF Idle, ThreadState, Answers, Failure

LEMMA GotoMoves ==
    ASSUME thr \in [Thread -> ThreadState], NEW t \in Thread, NEW to, Goto(t, to),
           to \in {"lock", "send", "wait", "answered", "insert", "remove"}
    PROVE  Goes(t, to)
<1> DEFINE r == [thr[t] EXCEPT !.pc = to]
<1>1. thr[t] \in ThreadState
  OBVIOUS
<1>2. r \in ThreadState /\ r.pc = to /\ r.op = thr[t].op /\ r.arg = thr[t].arg /\ r.got = thr[t].got
  BY <1>1 DEF ThreadState
<1>3. thr' = [thr EXCEPT ![t] = r]
  BY DEF Goto
<1> HIDE DEF r
<1> QED
  BY <1>2, <1>3 DEF Goes, Moves

LEMMA LeaveReturns ==
    ASSUME thr \in [Thread -> ThreadState], NEW t \in Thread, Leave(t)
    PROVE  Returns(t)
<1>1. thr' = [thr EXCEPT ![t] = Idle]
  BY DEF Leave, Goto
<1>2. thr' \in [Thread -> ThreadState] /\ thr'[t] = Idle /\ \A u \in Thread : u # t => thr'[u] = thr[u]
  BY <1>1, IdleType
<1> QED
  BY <1>2 DEF Returns, Moves, Idle

LEMMA GotoWithMoves ==
    ASSUME thr \in [Thread -> ThreadState], NEW t \in Thread, NEW r \in Answers, GotoWith(t, "answered", r)
    PROVE  Moves(t, "answered", thr[t].op, thr[t].arg, r)
<1> DEFINE s == [thr[t] EXCEPT !.pc = "answered", !.got = r]
<1>1. thr[t] \in ThreadState
  OBVIOUS
<1>2. s \in ThreadState /\ s.pc = "answered" /\ s.op = thr[t].op /\ s.arg = thr[t].arg /\ s.got = r
  BY <1>1 DEF ThreadState
<1>3. thr' = [thr EXCEPT ![t] = s]
  BY DEF GotoWith
<1> HIDE DEF s
<1> QED
  BY <1>2, <1>3 DEF Moves

\* t gets arguments for its call,
LEMMA ArgMoves ==
    ASSUME thr \in [Thread -> ThreadState], NEW t \in Thread, NEW to \in {"lock", "file1"}, NEW a \in Nat \X Nat,
           thr' = [thr EXCEPT ![t].pc = to, ![t].arg = a]
    PROVE  Moves(t, to, thr[t].op, a, thr[t].got)
<1> DEFINE s == [thr[t] EXCEPT !.pc = to, !.arg = a]
<1>1. thr[t] \in ThreadState
  OBVIOUS
<1>2. s \in ThreadState /\ s.pc = to /\ s.op = thr[t].op /\ s.arg = a /\ s.got = thr[t].got
  BY <1>1 DEF ThreadState
<1>3. thr' = [thr EXCEPT ![t] = s]
  OBVIOUS
<1> HIDE DEF s
<1> QED
  BY <1>2, <1>3 DEF Moves

\* or begins one.
LEMMA StartMoves ==
    ASSUME thr \in [Thread -> ThreadState], NEW t \in Thread, NEW c \in Call, NEW a \in Nat \X Nat,
           start(t, c, c, a)
    PROVE  Moves(t, c, c, a, thr[t].got)
<1> DEFINE s == [thr[t] EXCEPT !.pc = c, !.op = c, !.arg = a]
<1>1. thr[t] \in ThreadState
  OBVIOUS
<1>2. s \in ThreadState /\ s.pc = c /\ s.op = c /\ s.arg = a /\ s.got = thr[t].got
  BY <1>1 DEF ThreadState
<1>3. thr' = [thr EXCEPT ![t] = s]
  BY DEF start
<1> HIDE DEF s
<1> QED
  BY <1>2, <1>3 DEF Moves

\* What a step leaves as it is.
SameIds == m_free_ranges' = m_free_ranges /\ m_num_alloc' = m_num_alloc /\ held' = held
SameMaps == s_networks' = s_networks /\ s_infreqs' = s_infreqs /\ netDB' = netDB /\ reqDB' = reqDB
SameContext == m_create_reply' = m_create_reply /\ m_critical_error' = m_critical_error /\ exited' = exited
SameCard == cardNet' = cardNet /\ cardRes' = cardRes /\ cardReq' = cardReq /\ chain' = chain
SameHost ==
    SameIds /\ SameMaps /\ SameContext /\ m_devres_vec' = m_devres_vec /\ made' = made /\ c2h' = c2h /\ SameCard

LEMMA OwnAnswers == \A of \in {"broken", "io_error", "none"} : Failure(of) \in Answers
BY DEF Failure, Answers

LEMMA FromFile ==
    ASSUME Types, NEW t \in Thread, from_file(t)
    PROVE  /\ thr[t].pc \in {"file0", "file1"} /\ thr[t].op = "build"
           /\ \/ Returns(t)
              \/ \E to \in {"lock", "file1"}, k \in Nat \ {0} : Moves(t, to, "build", <<k, 1>>, thr[t].got)
           /\ SameHost /\ m_mutex' = m_mutex /\ sent' = sent /\ h2c' = h2c /\ leaked' = leaked /\ hist' = hist
<1> DEFINE n == thr[t].arg[1]
<1>1. thr \in [Thread -> ThreadState] /\ Place(t) /\ thr[t].pc \in {"file0", "file1"}
  BY DEF Types, HostTypes, from_file
<1>2. n \in Nat /\ thr[t].op = "build" /\ (thr[t].pc # "file0" => n > 0)
  BY <1>1 DEF Place, Fits, ThreadState
<1>3. ASSUME NEW to \in {"lock", "file1"}, NEW k \in Nat \ {0}, thr' = [thr EXCEPT ![t].pc = to, ![t].arg = <<k, 1>>]
      PROVE  Moves(t, to, "build", <<k, 1>>, thr[t].got)
  BY <1>1, <1>2, <1>3, ArgMoves
<1>4. \/ Leave(t)
      \/ thr' = [thr EXCEPT ![t].pc = "lock", ![t].arg = <<n + 1, 1>>]
      \/ thr' = [thr EXCEPT ![t].pc = "file1", ![t].arg = <<n + 1, 1>>]
      \/ thr[t].pc # "file0" /\ thr' = [thr EXCEPT ![t].pc = "lock", ![t].arg = <<n, 1>>]
  BY DEF from_file
<1>5. \/ Returns(t)
      \/ \E to \in {"lock", "file1"}, k \in Nat \ {0} : Moves(t, to, "build", <<k, 1>>, thr[t].got)
  <2>1. n + 1 \in Nat \ {0} /\ (thr[t].pc # "file0" => n \in Nat \ {0})
    BY <1>2
  <2>2. CASE Leave(t)
    BY <2>2, <1>1, LeaveReturns
  <2>3. CASE ~Leave(t)
    BY <2>1, <2>3, <1>3, <1>4
  <2> QED
    BY <2>2, <2>3
<1>6. SameHost /\ m_mutex' = m_mutex /\ sent' = sent /\ h2c' = h2c /\ leaked' = leaked /\ hist' = hist
  BY DEF from_file, idaVars, mapVars, cardVars, SameHost, SameIds, SameMaps, SameContext, SameCard
<1> QED
  BY <1>1, <1>2, <1>5, <1>6

LEMMA BuildDone ==
    ASSUME Types, NEW t \in Thread, build_done(t)
    PROVE  /\ thr[t].pc = "answered" /\ thr[t].op = "build" /\ Returns(t)
           /\ \/ thr[t].got = Success("build") /\ netDB' = TRUE /\ s_networks' = TRUE /\ m_devres_vec' = thr[t].arg[1]
              \/ thr[t].got # Success("build") /\ netDB' = netDB /\ s_networks' = s_networks /\ m_devres_vec' = m_devres_vec
           /\ SameIds /\ SameContext /\ SameCard /\ s_infreqs' = s_infreqs /\ reqDB' = reqDB /\ m_mutex' = m_mutex
           /\ sent' = sent /\ h2c' = h2c /\ c2h' = c2h /\ made' = made /\ leaked' = leaked /\ hist' = hist
<1>1. thr \in [Thread -> ThreadState]
  BY DEF Types, HostTypes
<1> QED
  BY <1>1, LeaveReturns DEF build_done, idaVars, cardVars, SameIds, SameContext, SameCard

LEMMA AddTest ==
    ASSUME Types, NEW t \in Thread, add_test(t)
    PROVE  /\ thr[t].pc = "add" /\ thr[t].op = "add" /\ (Returns(t) \/ (held = {} /\ Goes(t, "lock")))
           /\ SameHost /\ m_mutex' = m_mutex /\ sent' = sent /\ h2c' = h2c /\ leaked' = leaked /\ hist' = hist
<1>1. thr \in [Thread -> ThreadState] /\ Place(t) /\ IDAInv
  BY DEF Types, HostTypes
<1>2. thr[t].pc = "add" /\ thr[t].op = "add"
  BY <1>1 DEF add_test, Place, Fits, Call
<1>3. CASE m_num_alloc > 0
  <2>1. Returns(t)
    BY <1>1, <1>3, LeaveReturns DEF add_test, Leave
  <2> QED
    BY <1>2, <2>1 DEF add_test, idaVars, mapVars, cardVars, SameHost, SameIds, SameMaps, SameContext, SameCard
<1>4. CASE ~(m_num_alloc > 0)
  <2>1. held \subseteq Id /\ m_num_alloc = Cardinality(held)
    BY <1>1 DEF IDAInv, Exact, NumExact
  <2>2. IsFiniteSet(held) /\ Cardinality(held) = 0
    BY <1>4, <2>1, IdsFinite, IDAAssumption
  <2>3. held = {}
    BY <2>2, FS_EmptySet
  <2>4. Goes(t, "lock")
    BY <1>1, <1>4, GotoMoves DEF add_test
  <2> QED
    BY <1>2, <2>3, <2>4 DEF add_test, idaVars, mapVars, cardVars, SameHost, SameIds, SameMaps, SameContext, SameCard
<1> QED
  BY <1>3, <1>4

LEMMA Lock ==
    ASSUME Types, NEW t \in Thread, lock(t)
    PROVE  /\ thr[t].pc = "lock" /\ m_mutex = NoOne
           /\ \/ broken /\ m_mutex' = NoOne /\ Moves(t, "answered", thr[t].op, thr[t].arg, Failure("broken")) /\ thr[t].op # "create"
              \/ m_mutex' = t /\ Goes(t, "send")
           /\ hist' = IF thr[t].op = "add" /\ \E u \in Thread : UsesNetKey(u) /\ thr[u].op = "property"
                      THEN hist \cup {"overlap"} ELSE hist
           /\ SameHost /\ sent' = sent /\ h2c' = h2c /\ leaked' = leaked
<1>1. thr \in [Thread -> ThreadState]
  BY DEF Types, HostTypes
<1>2. thr[t].pc = "lock" /\ m_mutex = NoOne
  BY DEF lock
<1>3. \/ broken /\ m_mutex' = NoOne /\ GotoWith(t, "answered", Failure("broken")) /\ thr[t].op # "create"
      \/ m_mutex' = t /\ Goto(t, "send")
  BY DEF lock
<1>4. \/ broken /\ m_mutex' = NoOne /\ Moves(t, "answered", thr[t].op, thr[t].arg, Failure("broken")) /\ thr[t].op # "create"
      \/ m_mutex' = t /\ Goes(t, "send")
  BY <1>1, <1>3, GotoWithMoves, GotoMoves, OwnAnswers
<1> QED
  BY <1>2, <1>4 DEF lock, Note, idaVars, mapVars, cardVars, SameHost, SameIds, SameMaps, SameContext, SameCard

LEMMA SendPage ==
    ASSUME Types, NEW t \in Thread, send_page(t)
    PROVE  /\ thr[t].pc = "send" /\ thr[t].op \in {"build", "add"}
           /\ \/ /\ h2c' = Append(h2c, PageOf(t, n_res(t), n_conf(t))) /\ m_mutex' = m_mutex
                 /\ \/ Sent(t) # thr[t].arg /\ sent' = Sent(t) /\ thr' = thr
                    \/ Sent(t) = thr[t].arg /\ sent' = <<0, 0>> /\ Goes(t, "wait")
              \/ /\ h2c' = h2c /\ m_mutex' = NoOne /\ sent' = <<0, 0>>
                 /\ Moves(t, "answered", thr[t].op, thr[t].arg, Failure("io_error"))
           /\ SameHost /\ leaked' = leaked /\ hist' = hist
<1>1. thr \in [Thread -> ThreadState]
  BY DEF Types, HostTypes
<1>2. \/ /\ h2c' = Append(h2c, PageOf(t, n_res(t), n_conf(t))) /\ m_mutex' = m_mutex
         /\ \/ Sent(t) # thr[t].arg /\ sent' = Sent(t) /\ thr' = thr
            \/ Sent(t) = thr[t].arg /\ sent' = <<0, 0>> /\ Goto(t, "wait")
      \/ h2c' = h2c /\ m_mutex' = NoOne /\ sent' = <<0, 0>> /\ GotoWith(t, "answered", Failure("io_error"))
  BY DEF send_page
<1>3. \/ /\ h2c' = Append(h2c, PageOf(t, n_res(t), n_conf(t))) /\ m_mutex' = m_mutex
         /\ \/ Sent(t) # thr[t].arg /\ sent' = Sent(t) /\ thr' = thr
            \/ Sent(t) = thr[t].arg /\ sent' = <<0, 0>> /\ Goes(t, "wait")
      \/ /\ h2c' = h2c /\ m_mutex' = NoOne /\ sent' = <<0, 0>>
         /\ Moves(t, "answered", thr[t].op, thr[t].arg, Failure("io_error"))
  BY <1>1, <1>2, GotoWithMoves, GotoMoves, OwnAnswers
<1> QED
  BY <1>3 DEF send_page, idaVars, mapVars, cardVars, SameHost, SameIds, SameMaps, SameContext, SameCard

LEMMA Wait ==
    ASSUME Types, NEW t \in Thread, wait(t)
    PROVE  /\ thr[t].pc = "wait"
           /\ \/ broken /\ Moves(t, "answered", thr[t].op, thr[t].arg, Failure("broken")) /\ m_create_reply' = m_create_reply
              \/ /\ ~broken /\ Key(t) \in DOMAIN m_create_reply
                 /\ Moves(t, "answered", thr[t].op, thr[t].arg, m_create_reply[Key(t)].what)
                 /\ m_create_reply' = Erase(m_create_reply, Key(t))
           /\ m_mutex' = IF m_mutex = t THEN NoOne ELSE m_mutex
           /\ hist' = IF ~broken /\ m_create_reply[Key(t)].by # t THEN hist \cup {"foreign"} ELSE hist
           /\ SameIds /\ SameMaps /\ SameCard /\ m_critical_error' = m_critical_error /\ exited' = exited
           /\ m_devres_vec' = m_devres_vec /\ made' = made /\ c2h' = c2h /\ h2c' = h2c /\ sent' = sent /\ leaked' = leaked
<1>1. thr \in [Thread -> ThreadState] /\ \A k \in DOMAIN m_create_reply : m_create_reply[k].what \in Answers
  BY DEF Types, HostTypes
<1>2. \/ broken /\ GotoWith(t, "answered", Failure("broken")) /\ m_create_reply' = m_create_reply
      \/ /\ ~broken /\ Key(t) \in DOMAIN m_create_reply
         /\ GotoWith(t, "answered", m_create_reply[Key(t)].what)
         /\ m_create_reply' = Erase(m_create_reply, Key(t))
  BY DEF wait
<1>3. \/ broken /\ Moves(t, "answered", thr[t].op, thr[t].arg, Failure("broken")) /\ m_create_reply' = m_create_reply
      \/ /\ ~broken /\ Key(t) \in DOMAIN m_create_reply
         /\ Moves(t, "answered", thr[t].op, thr[t].arg, m_create_reply[Key(t)].what)
         /\ m_create_reply' = Erase(m_create_reply, Key(t))
  BY <1>1, <1>2, GotoWithMoves, OwnAnswers
<1> QED
  BY <1>3 DEF wait, Note, idaVars, mapVars, cardVars, SameIds, SameMaps, SameCard

LEMMA AddInsert ==
    ASSUME Types, NEW t \in Thread, add_insert(t)
    PROVE  /\ thr[t].pc = "answered" /\ thr[t].op = "add"
           /\ \/ thr[t].got = Success("add") /\ Goes(t, "insert")
              \/ thr[t].got # Success("add") /\ Returns(t)
           /\ \/ hist' = hist
              \/ hist' = hist \cup {"vec_race"}
           /\ SameHost /\ m_mutex' = m_mutex /\ sent' = sent /\ h2c' = h2c /\ leaked' = leaked
<1>1. thr \in [Thread -> ThreadState]
  BY DEF Types, HostTypes
<1>2. \/ thr[t].got = Success("add") /\ Goto(t, "insert")
      \/ thr[t].got # Success("add") /\ Leave(t)
  BY DEF add_insert, Leave
<1>3. \/ thr[t].got = Success("add") /\ Goes(t, "insert")
      \/ thr[t].got # Success("add") /\ Returns(t)
  BY <1>1, <1>2, GotoMoves, LeaveReturns
<1> QED
  BY <1>3 DEF add_insert, Note, idaVars, mapVars, cardVars, SameHost, SameIds, SameMaps, SameContext, SameCard

LEMMA AddDone ==
    ASSUME Types, NEW t \in Thread, add_done(t)
    PROVE  /\ thr[t].pc = "insert" /\ thr[t].op = "add" /\ Returns(t) /\ m_devres_vec' = m_devres_vec + thr[t].arg[1]
           /\ SameIds /\ SameMaps /\ SameContext /\ SameCard /\ m_mutex' = m_mutex /\ sent' = sent /\ h2c' = h2c
           /\ c2h' = c2h /\ made' = made /\ leaked' = leaked /\ hist' = hist
<1>1. thr \in [Thread -> ThreadState] /\ Place(t) /\ thr[t].pc = "insert"
  BY DEF Types, HostTypes, add_done
<1> QED
  BY <1>1, LeaveReturns DEF add_done, Place, Fits, idaVars, mapVars, cardVars, SameIds, SameMaps, SameContext, SameCard

LEMMA PropertySend ==
    ASSUME Types, NEW t \in Thread, property_send(t)
    PROVE  /\ thr[t].pc = "property" /\ thr[t].op = "property"
           /\ \/ h2c' = Append(h2c, [op |-> "property", by |-> t]) /\ Goes(t, "wait")
              \/ h2c' = h2c /\ Returns(t)
           /\ hist' = IF \E u \in Thread \ {t} : UsesNetKey(u) THEN hist \cup {"overlap"} ELSE hist
           /\ SameHost /\ m_mutex' = m_mutex /\ sent' = sent /\ leaked' = leaked
<1>1. thr \in [Thread -> ThreadState] /\ Place(t) /\ thr[t].pc = "property"
  BY DEF Types, HostTypes, property_send
<1>2. \/ h2c' = Append(h2c, [op |-> "property", by |-> t]) /\ Goto(t, "wait")
      \/ h2c' = h2c /\ Leave(t)
  BY DEF property_send
<1>3. \/ h2c' = Append(h2c, [op |-> "property", by |-> t]) /\ Goes(t, "wait")
      \/ h2c' = h2c /\ Returns(t)
  BY <1>1, <1>2, GotoMoves, LeaveReturns
<1>4. thr[t].op = "property"
  BY <1>1 DEF Place, Fits, Call
<1> QED
  BY <1>1, <1>3, <1>4 DEF property_send, Note, idaVars, mapVars, cardVars, SameHost, SameIds, SameMaps, SameContext, SameCard

LEMMA PropertyDone ==
    ASSUME Types, NEW t \in Thread, property_done(t)
    PROVE  /\ thr[t].pc = "answered" /\ thr[t].op = "property" /\ Returns(t)
           /\ SameHost /\ m_mutex' = m_mutex /\ sent' = sent /\ h2c' = h2c /\ leaked' = leaked /\ hist' = hist
<1>1. thr \in [Thread -> ThreadState]
  BY DEF Types, HostTypes
<1> QED
  BY <1>1, LeaveReturns DEF property_done, idaVars, mapVars, cardVars, SameHost, SameIds, SameMaps, SameContext, SameCard

LEMMA CreateAlloc ==
    ASSUME Types, NEW t \in Thread, create_alloc(t)
    PROVE  /\ thr[t].pc = "create" /\ thr[t].op = "create"
           /\ \/ Returns(t) /\ SameIds /\ made' = made /\ hist' = hist
              \/ /\ m_devres_vec # 0 /\ ~broken /\ made' = made + 1
                 /\ \E id \in Id : alloc(id) /\ Moves(t, "lock", "create", <<id, made + 1>>, thr[t].got)
                 /\ hist' = IF \E u \in Thread : thr[u].op = "add" /\ thr[u].pc \in {"lock", "send", "wait"}
                            THEN hist \cup {"raced"} ELSE hist
           /\ SameMaps /\ SameContext /\ SameCard /\ m_mutex' = m_mutex /\ sent' = sent /\ h2c' = h2c /\ c2h' = c2h
           /\ m_devres_vec' = m_devres_vec /\ leaked' = leaked
<1>1. thr \in [Thread -> ThreadState] /\ Place(t) /\ thr[t].pc = "create" /\ made \in Nat
  BY DEF Types, HostTypes, create_alloc
<1>2. thr[t].op = "create"
  BY <1>1 DEF Place, Fits, Call
<1>3. \A id \in Id : <<id, made + 1>> \in Nat \X Nat
  BY <1>1 DEF Id
<1>4. ASSUME NEW id \in Id, thr' = [thr EXCEPT ![t].pc = "lock", ![t].arg = <<id, made + 1>>]
      PROVE  Moves(t, "lock", "create", <<id, made + 1>>, thr[t].got)
  BY <1>1, <1>2, <1>3, <1>4, ArgMoves
<1>5. \/ Returns(t) /\ SameIds /\ made' = made /\ hist' = hist
      \/ /\ m_devres_vec # 0 /\ ~broken /\ made' = made + 1
         /\ \E id \in Id : alloc(id) /\ Moves(t, "lock", "create", <<id, made + 1>>, thr[t].got)
         /\ hist' = IF \E u \in Thread : thr[u].op = "add" /\ thr[u].pc \in {"lock", "send", "wait"}
                    THEN hist \cup {"raced"} ELSE hist
  <2>1. CASE m_devres_vec = 0 \/ broken \/ DOMAIN m_free_ranges = {}
    BY <2>1, <1>1, LeaveReturns DEF create_alloc, idaVars, SameIds
  <2>2. CASE ~(m_devres_vec = 0 \/ broken \/ DOMAIN m_free_ranges = {})
    BY <2>2, <1>4 DEF create_alloc, Note
  <2> QED
    BY <2>1, <2>2
<1> QED
  BY <1>1, <1>2, <1>5 DEF create_alloc, mapVars, cardVars, SameMaps, SameContext, SameCard

LEMMA CreateSend ==
    ASSUME Types, NEW t \in Thread, create_send(t)
    PROVE  /\ thr[t].pc = "send" /\ thr[t].op = "create" /\ thr[t].arg \in Requests
           /\ \/ /\ h2c' = Append(h2c, [op |-> "create", by |-> t, req |-> thr[t].arg]) /\ m_mutex' = m_mutex
                 /\ Goes(t, "wait")
              \/ /\ h2c' = h2c /\ m_mutex' = NoOne
                 /\ Moves(t, "answered", "create", thr[t].arg, Failure("io_error"))
           /\ SameHost /\ sent' = sent /\ leaked' = leaked /\ hist' = hist
<1>1. thr \in [Thread -> ThreadState] /\ Place(t)
  BY DEF Types, HostTypes
<1>2. thr[t].pc = "send" /\ thr[t].op = "create"
  BY DEF create_send
<1>3. thr[t].arg \in Requests
  BY <1>1, <1>2 DEF Place, Fits
<1>4. \/ /\ h2c' = Append(h2c, [op |-> "create", by |-> t, req |-> thr[t].arg]) /\ m_mutex' = m_mutex
         /\ Goto(t, "wait")
      \/ h2c' = h2c /\ m_mutex' = NoOne /\ GotoWith(t, "answered", Failure("io_error"))
  BY DEF create_send
<1>5. \/ /\ h2c' = Append(h2c, [op |-> "create", by |-> t, req |-> thr[t].arg]) /\ m_mutex' = m_mutex
         /\ Goes(t, "wait")
      \/ h2c' = h2c /\ m_mutex' = NoOne /\ Moves(t, "answered", "create", thr[t].arg, Failure("io_error"))
  BY <1>1, <1>2, <1>4, GotoWithMoves, GotoMoves, OwnAnswers
<1> QED
  BY <1>2, <1>3, <1>5 DEF create_send, idaVars, mapVars, cardVars, SameHost, SameIds, SameMaps, SameContext, SameCard

LEMMA CreateDone ==
    ASSUME Types, NEW t \in Thread, create_done(t)
    PROVE  /\ thr[t].pc = "answered" /\ thr[t].op = "create" /\ thr[t].arg \in Requests /\ Returns(t)
           /\ \/ /\ thr[t].got = Success("create") /\ leaked' = leaked
                 /\ reqDB' = reqDB \cup {thr[t].arg[1]} /\ s_infreqs' = s_infreqs \cup {thr[t].arg}
              \/ /\ thr[t].got # Success("create") /\ leaked' = leaked \cup {thr[t].arg[1]}
                 /\ reqDB' = reqDB /\ s_infreqs' = s_infreqs
           /\ SameIds /\ SameContext /\ SameCard /\ s_networks' = s_networks /\ netDB' = netDB /\ m_mutex' = m_mutex
           /\ m_devres_vec' = m_devres_vec /\ sent' = sent /\ h2c' = h2c /\ c2h' = c2h /\ made' = made /\ hist' = hist
<1>1. thr \in [Thread -> ThreadState] /\ Place(t) /\ thr[t].pc = "answered" /\ thr[t].op = "create"
  BY DEF Types, HostTypes, create_done
<1> QED
  BY <1>1, LeaveReturns DEF create_done, Place, Fits, idaVars, cardVars, SameIds, SameContext, SameCard

LEMMA DestroySend ==
    ASSUME Types, NEW t \in Thread, destroy_send(t)
    PROVE  /\ thr[t].pc = "destroy" /\ thr[t].op = "destroy" /\ thr[t].arg \in Requests /\ Goes(t, "remove")
           /\ \/ h2c' = h2c /\ leaked' \in {leaked, leaked \cup {thr[t].arg[1]}}
              \/ h2c' = Append(h2c, [op |-> "destroy", req |-> thr[t].arg]) /\ leaked' = leaked
           /\ SameHost /\ m_mutex' = m_mutex /\ sent' = sent /\ hist' = hist
<1>1. thr \in [Thread -> ThreadState] /\ Place(t) /\ thr[t].pc = "destroy"
  BY DEF Types, HostTypes, destroy_send
<1>2. thr[t].op = "destroy" /\ thr[t].arg \in Requests
  BY <1>1 DEF Place, Fits, Call
<1>3. Goes(t, "remove")
  BY <1>1, GotoMoves DEF destroy_send
<1>4. \/ h2c' = h2c /\ leaked' \in {leaked, leaked \cup {thr[t].arg[1]}}
      \/ h2c' = Append(h2c, [op |-> "destroy", req |-> thr[t].arg]) /\ leaked' = leaked
  BY DEF destroy_send
<1> QED
  BY <1>1, <1>2, <1>3, <1>4 DEF destroy_send, idaVars, mapVars, cardVars, SameHost, SameIds, SameMaps, SameContext, SameCard

LEMMA DestroyRemove ==
    ASSUME Types, NEW t \in Thread, destroy_remove(t)
    PROVE  /\ thr[t].pc = "remove" /\ thr[t].op = "destroy" /\ Returns(t) /\ s_infreqs' = s_infreqs \ {thr[t].arg}
           /\ SameIds /\ SameContext /\ SameCard /\ s_networks' = s_networks /\ netDB' = netDB /\ reqDB' = reqDB
           /\ m_mutex' = m_mutex /\ m_devres_vec' = m_devres_vec /\ sent' = sent /\ h2c' = h2c /\ c2h' = c2h
           /\ made' = made /\ leaked' = leaked /\ hist' = hist
<1>1. thr \in [Thread -> ThreadState]
  BY DEF Types, HostTypes
<1> QED
  BY <1>1, LeaveReturns DEF destroy_remove, idaVars, cardVars, SameIds, SameContext, SameCard

LEMMA DestroyNetSend ==
    ASSUME Types, NEW t \in Thread, destroy_net_send(t)
    PROVE  /\ thr[t].pc = "destroy_net" /\ thr[t].op = "destroy_net"
           /\ \/ card_fatal /\ Goes(t, "remove") /\ h2c' = h2c
              \/ Goes(t, "remove") /\ h2c' = Append(h2c, [op |-> "destroy_net"])
              \/ Returns(t) /\ h2c' = h2c
           /\ SameHost /\ m_mutex' = m_mutex /\ sent' = sent /\ leaked' = leaked /\ hist' = hist
<1>1. thr \in [Thread -> ThreadState] /\ Place(t) /\ thr[t].pc = "destroy_net"
  BY DEF Types, HostTypes, destroy_net_send
<1>2. thr[t].op = "destroy_net"
  BY <1>1 DEF Place, Fits, Call
<1>3. \/ card_fatal /\ Goto(t, "remove") /\ h2c' = h2c
      \/ Goto(t, "remove") /\ h2c' = Append(h2c, [op |-> "destroy_net"])
      \/ Leave(t) /\ h2c' = h2c
  BY DEF destroy_net_send
<1>4. \/ card_fatal /\ Goes(t, "remove") /\ h2c' = h2c
      \/ Goes(t, "remove") /\ h2c' = Append(h2c, [op |-> "destroy_net"])
      \/ Returns(t) /\ h2c' = h2c
  BY <1>1, <1>3, GotoMoves, LeaveReturns
<1> QED
  BY <1>1, <1>2, <1>4 DEF destroy_net_send, idaVars, mapVars, cardVars, SameHost, SameIds, SameMaps, SameContext, SameCard

LEMMA DestroyNetRemove ==
    ASSUME Types, NEW t \in Thread, destroy_net_remove(t)
    PROVE  /\ thr[t].pc = "remove" /\ thr[t].op = "destroy_net" /\ Returns(t) /\ s_networks' = FALSE
           /\ SameIds /\ SameContext /\ SameCard /\ s_infreqs' = s_infreqs /\ netDB' = netDB /\ reqDB' = reqDB
           /\ m_mutex' = m_mutex /\ m_devres_vec' = m_devres_vec /\ sent' = sent /\ h2c' = h2c /\ c2h' = c2h
           /\ made' = made /\ leaked' = leaked /\ hist' = hist
<1>1. thr \in [Thread -> ThreadState]
  BY DEF Types, HostTypes
<1> QED
  BY <1>1, LeaveReturns DEF destroy_net_remove, idaVars, cardVars, SameIds, SameContext, SameCard

\* The start of a call, on the network
LEMMA FindNetwork ==
    ASSUME Types, NEW t \in Thread, NEW c \in Call, find_network(t, c)
    PROVE  /\ thr[t] = Idle /\ s_networks /\ c # "destroy"
           /\ \E s \in Nat \X Nat : Moves(t, c, c, s, thr[t].got) /\ (c = "add" => s[1] + s[2] > 0)
           /\ SameHost /\ m_mutex' = m_mutex /\ sent' = sent /\ h2c' = h2c /\ leaked' = leaked /\ hist' = hist
<1>1. thr \in [Thread -> ThreadState] /\ Place(t)
  BY DEF Types, HostTypes
<1>2. PICK s \in IF c = "add" THEN Sizes ELSE {<<0, 0>>} : start(t, c, c, s)
  BY DEF find_network
<1>3. s \in Nat \X Nat /\ (c = "add" => s[1] + s[2] > 0)
  BY NetworkAssumption
<1>4. Moves(t, c, c, s, thr[t].got)
  BY <1>1, <1>2, <1>3, StartMoves
<1>5. thr[t] = Idle
  BY <1>1, <1>2 DEF start, Place, Fits
<1> QED
  BY <1>2, <1>3, <1>4, <1>5
  DEF find_network, start, idaVars, mapVars, cardVars, SameHost, SameIds, SameMaps, SameContext, SameCard

\* and on a request.
LEMMA FindRequest ==
    ASSUME Types, NEW t \in Thread, NEW r \in s_infreqs, find_infreq(t, r)
    PROVE  /\ thr[t] = Idle /\ r \in Requests /\ Moves(t, "destroy", "destroy", r, thr[t].got)
           /\ hist' = IF \E u \in Thread : thr[u].pc \in {"destroy", "remove"} /\ thr[u].op = "destroy" /\ thr[u].arg = r
                      THEN hist \cup {"twice"} ELSE hist
           /\ SameHost /\ m_mutex' = m_mutex /\ sent' = sent /\ h2c' = h2c /\ leaked' = leaked
<1>1. thr \in [Thread -> ThreadState] /\ Place(t) /\ r \in Requests
  BY DEF Types, HostTypes
<1>2. start(t, "destroy", "destroy", r)
  BY DEF find_infreq
<1>3. r \in Nat \X Nat
  BY <1>1 DEF Requests, Id
<1>4. Moves(t, "destroy", "destroy", r, thr[t].got)
  BY <1>1, <1>2, <1>3, StartMoves DEF Call
<1>5. thr[t] = Idle
  BY <1>1, <1>2 DEF start, Place, Fits
<1> QED
  BY <1>1, <1>2, <1>4, <1>5
  DEF find_infreq, Note, start, idaVars, mapVars, cardVars, SameHost, SameIds, SameMaps, SameContext, SameCard

-----------------------------------------------------------------------------
(***************************************************************************)
(* Steps of the response thread and of the card                            *)
(***************************************************************************)

SameLocal ==
    /\ thr' = thr /\ m_devres_vec' = m_devres_vec /\ m_mutex' = m_mutex /\ sent' = sent /\ h2c' = h2c /\ SameCard
    /\ made' = made /\ leaked' = leaked /\ hist' = hist
SameDriver ==
    /\ thr' = thr /\ SameIds /\ SameMaps /\ SameContext /\ m_devres_vec' = m_devres_vec /\ m_mutex' = m_mutex
    /\ sent' = sent /\ made' = made /\ leaked' = leaked

LEMMA ReplyStep ==
    ASSUME process_create_reply
    PROVE  /\ c2h # <<>> /\ Head(c2h).op = "reply" /\ c2h' = Tail(c2h)
           /\ m_create_reply' = Put(m_create_reply, Head(c2h).key, [what |-> Head(c2h).what, by |-> Head(c2h).by])
           /\ SameLocal /\ SameIds /\ SameMaps /\ m_critical_error' = m_critical_error /\ exited' = exited
BY DEF process_create_reply, Event, Local, idaVars, mapVars, cardVars, SameLocal, SameIds, SameMaps, SameCard

LEMMA RequestGone ==
    ASSUME infreq_destroyed
    PROVE  /\ c2h # <<>> /\ Head(c2h).op = "infreq_destroyed" /\ c2h' = Tail(c2h)
           /\ \/ netDB /\ reqDB' = reqDB \ {Head(c2h).id} /\ free(Head(c2h).id)
              \/ ~netDB /\ reqDB' = reqDB /\ SameIds
           /\ SameLocal /\ SameContext /\ s_networks' = s_networks /\ s_infreqs' = s_infreqs /\ netDB' = netDB
<1>1. \/ netDB /\ reqDB' = reqDB \ {Head(c2h).id} /\ free(Head(c2h).id)
      \/ ~netDB /\ reqDB' = reqDB /\ SameIds
  BY DEF infreq_destroyed, idaVars, SameIds
<1> QED
  BY <1>1 DEF infreq_destroyed, Event, Local, cardVars, SameLocal, SameContext, SameCard

LEMMA NetworkGone ==
    ASSUME devnet_destroyed
    PROVE  /\ c2h # <<>> /\ Head(c2h).op = "devnet_destroyed" /\ c2h' = Tail(c2h) /\ netDB' = FALSE
           /\ SameLocal /\ SameIds /\ SameContext /\ s_networks' = s_networks /\ s_infreqs' = s_infreqs /\ reqDB' = reqDB
BY DEF devnet_destroyed, Event, Local, idaVars, cardVars, SameLocal, SameIds, SameContext, SameCard

LEMMA Critical ==
    ASSUME critical_event
    PROVE  /\ c2h # <<>> /\ Head(c2h).op \in {"context", "card"} /\ c2h' = Tail(c2h)
           /\ m_critical_error' = IF broken THEN m_critical_error ELSE Head(c2h).op
           /\ exited' = (Head(c2h).op = "card")
           /\ \/ exited' /\ netDB' = FALSE /\ reqDB' = {}
              \/ ~exited' /\ netDB' = netDB /\ reqDB' = reqDB
           /\ SameLocal /\ SameIds /\ s_networks' = s_networks /\ s_infreqs' = s_infreqs /\ m_create_reply' = m_create_reply
BY DEF critical_event, Local, idaVars, cardVars, SameLocal, SameIds, SameCard

\* What the card has of the command of a page, and the answer that it sends.
Got(m) == (IF m.first THEN <<>> ELSE chain) \o m.items
ReplyTo(key, what) == [op |-> "reply", key |-> key, what |-> what, by |-> Head(h2c).by]

\* A page that is not the last one, and the last one: the network is made, or gets its
\* resources, or the card refuses.
PageKept(m) ==
    /\ Len(Got(m)) < m.size /\ chain' = Got(m)
    /\ c2h' = c2h /\ cardNet' = cardNet /\ cardRes' = cardRes /\ hist' = hist
PageLast(m) ==
    /\ ~(Len(Got(m)) < m.size) /\ chain' = <<>>
    /\ hist' = hist \cup (IF Got(m) = Items("res", 0, m.num_res) \o Items("conf", 0, m.size - m.num_res) THEN {} ELSE {"garbled"})
                    \cup (IF m.op = "add" /\ cardReq # {} THEN {"late"} ELSE {})
PageMade(m) ==
    /\ m.op = "build" \/ cardNet = "up"
    /\ cardNet' = "up" /\ cardRes' = cardRes + m.num_res /\ c2h' = Append(c2h, ReplyTo(-1, Success(m.op)))
PageRefused(m) == cardNet' = cardNet /\ cardRes' = cardRes /\ c2h' = Append(c2h, ReplyTo(-1, Failure(m.op)))

LEMMA CardPage ==
    ASSUME card_page
    PROVE  /\ h2c # <<>> /\ ~Dead /\ Head(h2c).op \in {"build", "add"} /\ h2c' = Tail(h2c) /\ SameDriver /\ cardReq' = cardReq
           /\ \/ PageKept(Head(h2c))
              \/ PageLast(Head(h2c)) /\ PageMade(Head(h2c))
              \/ PageLast(Head(h2c)) /\ PageRefused(Head(h2c))
<1>1. h2c # <<>> /\ ~Dead /\ Head(h2c).op \in {"build", "add"} /\ h2c' = Tail(h2c) /\ SameDriver /\ cardReq' = cardReq
  BY DEF card_page, Take, Host, idaVars, mapVars, SameDriver, SameIds, SameMaps, SameContext
<1>2. \/ PageKept(Head(h2c))
      \/ PageLast(Head(h2c)) /\ PageMade(Head(h2c))
      \/ PageLast(Head(h2c)) /\ PageRefused(Head(h2c))
  <2>1. CASE Len(Got(Head(h2c))) < Head(h2c).size
    BY <2>1 DEF card_page, Got, PageKept
  <2>2. CASE ~(Len(Got(Head(h2c))) < Head(h2c).size)
    <3>1. PageLast(Head(h2c))
      BY <2>2 DEF card_page, Got, PageLast
    <3>2. PageMade(Head(h2c)) \/ PageRefused(Head(h2c))
      BY <2>2 DEF card_page, Got, Answer, ReplyTo, PageMade, PageRefused
    <3> QED
      BY <3>1, <3>2
  <2> QED
    BY <2>1, <2>2
<1> QED
  BY <1>1, <1>2

LEMMA CardAsked ==
    ASSUME card_asked
    PROVE  /\ h2c # <<>> /\ ~Dead /\ Head(h2c).op \in {"property", "create"} /\ h2c' = Tail(h2c) /\ SameDriver
           /\ cardNet' = cardNet /\ cardRes' = cardRes /\ chain' = chain /\ hist' = hist
           /\ LET m == Head(h2c)
                  key == IF m.op = "create" THEN m.req[1] ELSE -1
              IN \/ /\ cardNet = "up" /\ c2h' = Append(c2h, ReplyTo(key, Success(m.op)))
                    /\ cardReq' = IF m.op = "create" THEN cardReq \cup {m.req} ELSE cardReq
                 \/ c2h' = Append(c2h, ReplyTo(key, Failure(m.op))) /\ cardReq' = cardReq
<1>1. /\ h2c # <<>> /\ ~Dead /\ Head(h2c).op \in {"property", "create"} /\ h2c' = Tail(h2c) /\ SameDriver
      /\ cardNet' = cardNet /\ cardRes' = cardRes /\ chain' = chain /\ hist' = hist
  BY DEF card_asked, Take, Host, idaVars, mapVars, SameDriver, SameIds, SameMaps, SameContext
<1> QED
  BY <1>1 DEF card_asked, Answer, ReplyTo

LEMMA CardDestroys ==
    ASSUME card_destroys
    PROVE  /\ h2c # <<>> /\ ~Dead /\ Head(h2c).op = "destroy" /\ h2c' = Tail(h2c) /\ SameDriver
           /\ cardNet' = cardNet /\ cardRes' = cardRes /\ chain' = chain
           /\ LET m == Head(h2c)
                  R == {r \in cardReq : r[1] = m.req[1]}
              IN /\ cardReq' = cardReq \ R
                 /\ hist' = IF R \cap {m.req} # R THEN hist \cup {"wrong"} ELSE hist
                 /\ \/ R = {} /\ c2h' = c2h
                    \/ R # {} /\ c2h' = Append(c2h, [op |-> "infreq_destroyed", id |-> m.req[1]])
<1>1. /\ h2c # <<>> /\ ~Dead /\ Head(h2c).op = "destroy" /\ h2c' = Tail(h2c) /\ SameDriver
      /\ cardNet' = cardNet /\ cardRes' = cardRes /\ chain' = chain
  BY DEF card_destroys, Take, Host, idaVars, mapVars, SameDriver, SameIds, SameMaps, SameContext
<1> QED
  BY <1>1 DEF card_destroys, Note

LEMMA CardNetDestroy ==
    ASSUME card_net_destroy
    PROVE  /\ h2c # <<>> /\ ~Dead /\ Head(h2c).op = "destroy_net" /\ h2c' = Tail(h2c) /\ SameDriver
           /\ cardNet' = IF cardNet = "up" THEN "dying" ELSE cardNet
           /\ c2h' = c2h /\ cardRes' = cardRes /\ cardReq' = cardReq /\ chain' = chain /\ hist' = hist
BY DEF card_net_destroy, Take, Host, idaVars, mapVars, SameDriver, SameIds, SameMaps, SameContext

LEMMA CardNetGone ==
    ASSUME card_net_gone
    PROVE  /\ cardNet = "dying" /\ cardReq = {} /\ cardNet' = "gone" /\ c2h' = Append(c2h, [op |-> "devnet_destroyed"])
           /\ SameDriver /\ h2c' = h2c /\ cardRes' = cardRes /\ cardReq' = cardReq /\ chain' = chain /\ hist' = hist
BY DEF card_net_gone, Host, idaVars, mapVars, SameDriver, SameIds, SameMaps, SameContext

LEMMA CardEvent ==
    ASSUME card_event
    PROVE  /\ \E e \in {"context", "card"} : c2h' = Append(c2h, [op |-> e])
           /\ SameDriver /\ h2c' = h2c /\ SameCard /\ hist' = hist
<1>1. \E e \in {"context", "card"} : c2h' = Append(c2h, [op |-> e])
  BY DEF card_event
<1> QED
  BY <1>1 DEF card_event, Host, idaVars, mapVars, cardVars, SameDriver, SameIds, SameMaps, SameContext, SameCard

-----------------------------------------------------------------------------
(***************************************************************************)
(* The mutex, and the pages of a command                                   *)
(***************************************************************************)

\* The parts of a page that a thread is about to send.
LEMMA PageSize ==
    ASSUME Types, Locking, NEW t \in Thread, Sending(t)
    PROVE  /\ thr[t].arg \in Nat \X Nat /\ sent \in Nat \X Nat
           /\ n_res(t) \in Nat /\ n_conf(t) \in Nat /\ n_res(t) + n_conf(t) > 0
           /\ sent[1] + n_res(t) <= thr[t].arg[1] /\ sent[2] + n_conf(t) <= thr[t].arg[2]
           /\ n_conf(t) > 0 => sent[1] + n_res(t) = thr[t].arg[1]
           /\ n_res(t) > 0 => sent[2] = 0
           /\ n_res(t) = 0 => sent[1] = thr[t].arg[1]
<1>1. thr[t].arg \in Nat \X Nat /\ sent \in Nat \X Nat /\ LeftToSend(t)
  BY DEF Types, HostTypes, Locking, ThreadState
<1>2. Page \in Nat /\ Page > 0
  BY NetworkAssumption
<1> DEFINE a1 == thr[t].arg[1]
           a2 == thr[t].arg[2]
           s1 == sent[1]
           s2 == sent[2]
           r == n_res(t)
           c == n_conf(t)
<1>3. /\ a1 \in Nat /\ a2 \in Nat /\ s1 \in Nat /\ s2 \in Nat
      /\ s1 <= a1 /\ s2 <= a2 /\ (s2 > 0 => s1 = a1) /\ s1 + s2 < a1 + a2
  BY <1>1 DEF LeftToSend
<1>4. r = IF a1 - s1 > Page THEN Page ELSE a1 - s1
  BY DEF n_res
<1>5. c = IF a2 - s2 > Page - r THEN Page - r ELSE a2 - s2
  BY DEF n_conf
<1> HIDE DEF a1, a2, s1, s2, r, c
<1>6. r \in Nat /\ r <= Page /\ s1 + r <= a1 /\ (r < Page => s1 + r = a1)
  BY <1>2, <1>3, <1>4
<1>7. c \in Nat /\ s2 + c <= a2 /\ c <= Page - r
  BY <1>2, <1>3, <1>5, <1>6
<1>8. (c > 0 => s1 + r = a1) /\ (r > 0 => s2 = 0) /\ (r = 0 => s1 = a1)
  BY <1>2, <1>3, <1>6, <1>7
<1>9. r + c > 0
  BY <1>2, <1>3, <1>5, <1>6, <1>7, <1>8
<1> QED
  BY <1>1, <1>6, <1>7, <1>8, <1>9 DEF a1, a2, s1, s2, r, c

LEMMA PageSent ==
    ASSUME Types, Locking, NEW t \in Thread, Sending(t)
    PROVE  /\ Sent(t) \in Nat \X Nat
           /\ Sent(t)[1] = sent[1] + n_res(t) /\ Sent(t)[2] = sent[2] + n_conf(t)
           /\ Sent(t)[1] <= thr[t].arg[1] /\ Sent(t)[2] <= thr[t].arg[2]
           /\ Sent(t)[2] > 0 => Sent(t)[1] = thr[t].arg[1]
           /\ Sent(t)[1] + Sent(t)[2] > 0
           /\ IF Sent(t) = thr[t].arg THEN Sent(t)[1] + Sent(t)[2] = thr[t].arg[1] + thr[t].arg[2]
              ELSE Sent(t)[1] + Sent(t)[2] < thr[t].arg[1] + thr[t].arg[2]
<1> DEFINE a1 == thr[t].arg[1]
           a2 == thr[t].arg[2]
           s1 == sent[1]
           s2 == sent[2]
           r == n_res(t)
           c == n_conf(t)
           S == Sent(t)
<1>0. LeftToSend(t)
  BY DEF Locking
<1>1. /\ thr[t].arg = <<a1, a2>> /\ a1 \in Nat /\ a2 \in Nat /\ s1 \in Nat /\ s2 \in Nat /\ r \in Nat /\ c \in Nat
      /\ r + c > 0 /\ s1 + r <= a1 /\ s2 + c <= a2 /\ (c > 0 => s1 + r = a1) /\ (r = 0 => s1 = a1)
      /\ (s2 > 0 => s1 = a1)
  BY <1>0, PageSize DEF LeftToSend
<1>2. S = <<s1 + r, s2 + c>>
  BY DEF Sent
<1> HIDE DEF a1, a2, s1, s2, r, c, S
<1>3. S \in Nat \X Nat /\ S[1] = s1 + r /\ S[2] = s2 + c
  BY <1>1, <1>2
<1>4. S[1] <= a1 /\ S[2] <= a2 /\ S[1] + S[2] > 0 /\ (S[2] > 0 => S[1] = a1)
  BY <1>1, <1>3
<1>5. IF S = thr[t].arg THEN S[1] + S[2] = a1 + a2 ELSE S[1] + S[2] < a1 + a2
  <2>1. CASE S = thr[t].arg
    BY <1>1, <1>3, <2>1
  <2>2. CASE S # thr[t].arg
    <3>1. s1 + r # a1 \/ s2 + c # a2
      BY <1>1, <1>2, <2>2
    <3> QED
      BY <1>1, <1>3, <2>2, <3>1
  <2> QED
    BY <2>1, <2>2
<1> QED
  BY <1>3, <1>4, <1>5 DEF a1, a2, s1, s2, r, c, S

\* A thread that neither gets nor loses the mutex,
LEMMA LockingKept ==
    ASSUME Types, Locking, NEW t \in Thread, NEW p, NEW o, NEW a, NEW g, Moves(t, p, o, a, g),
           ~Inside(thr[t].pc, thr[t].op), ~Inside(p, o), m_mutex' = m_mutex, sent' = sent
    PROVE  Locking'
<1>1. \A u \in Thread : Inside(thr'[u].pc, thr'[u].op) <=> Inside(thr[u].pc, thr[u].op)
  BY DEF Moves
<1>2. \A u \in Thread : /\ Sending(u)' <=> Sending(u)
                        /\ Sending(u) => thr'[u] = thr[u]
  BY DEF Moves, Sending, Inside
<1>3. \A u \in Thread : Sending(u)' => LeftToSend(u)'
  BY <1>2 DEF Locking, LeftToSend
<1> QED
  BY <1>1, <1>2, <1>3 DEF Locking

\* or one that gets it, or loses it.
LEMMA LockingMoves ==
    ASSUME Types, Locking, NEW t \in Thread, NEW p, NEW o, NEW a, NEW g, Moves(t, p, o, a, g),
           m_mutex \in {t, NoOne}, m_mutex' = IF Inside(p, o) THEN t ELSE NoOne,
           ~(p = "send" /\ o \in {"build", "add"}), sent' = <<0, 0>>
    PROVE  Locking'
<1>1. NoOne \notin Thread
  BY NetworkAssumption
<1>2. \A u \in Thread : u # t => ~Inside(thr[u].pc, thr[u].op) /\ thr'[u] = thr[u]
  BY <1>1 DEF Locking, Moves
<1>3. \A u \in Thread : m_mutex' = u <=> Inside(thr'[u].pc, thr'[u].op)
  BY <1>1, <1>2 DEF Moves
<1>4. \A u \in Thread : ~Sending(u)'
  BY <1>2 DEF Sending, Inside, Moves
<1> QED
  BY <1>3, <1>4 DEF Locking

LEMMA LockingSame ==
    ASSUME Locking, thr' = thr, m_mutex' = m_mutex, sent' = sent
    PROVE  Locking'
BY DEF Locking, Sending, LeftToSend

\* Nobody sends while nobody has the mutex.
LEMMA NothingSent ==
    ASSUME Types, Locking, m_mutex = NoOne
    PROVE  sent = <<0, 0>>
BY NetworkAssumption DEF Locking, Sending, Inside

LEMMA LockingHeld == ASSUME Types, Locking, [NetNext]_netVars PROVE Locking'
<1> USE DEF Inside
<1>1. ASSUME NEW t \in Thread, from_file(t) PROVE Locking'
  BY <1>1, FromFile, LockingKept DEF Returns
<1>2. ASSUME NEW t \in Thread, build_done(t) PROVE Locking'
  BY <1>2, BuildDone, LockingKept DEF Returns
<1>3. ASSUME NEW t \in Thread, add_test(t) PROVE Locking'
  <2>1. ASSUME Returns(t) PROVE Locking'
    BY <1>3, <2>1, AddTest, LockingKept DEF Returns, SameHost
  <2>2. ASSUME Goes(t, "lock") PROVE Locking'
    BY <1>3, <2>2, AddTest, LockingKept DEF Goes, SameHost
  <2> QED
    BY <1>3, <2>1, <2>2, AddTest
<1>4. ASSUME NEW t \in Thread, lock(t) PROVE Locking'
  <2>1. thr[t].pc = "lock" /\ m_mutex = NoOne /\ sent' = sent /\ sent = <<0, 0>>
    BY <1>4, Lock, NothingSent
  <2>2. ASSUME m_mutex' = NoOne, Moves(t, "answered", thr[t].op, thr[t].arg, Failure("broken")) PROVE Locking'
    BY <2>1, <2>2, LockingMoves
  <2>3. ASSUME m_mutex' = t, Goes(t, "send") PROVE Locking'
    <3>1. thr[t].op \in {"build", "add", "create"} /\ Place(t) /\ thr[t].arg \in Nat \X Nat
      BY <2>1 DEF Types, HostTypes, ThreadState, Place, Fits
    <3>2. CASE thr[t].op = "create"
      BY <2>1, <2>3, <3>2, LockingMoves DEF Goes
    <3>3. CASE thr[t].op # "create"
      <4>1. Sending(t)' /\ thr'[t].arg = thr[t].arg
        BY <2>3, <3>1, <3>3 DEF Sending, Goes, Moves
      <4>2. thr[t].arg[1] + thr[t].arg[2] > 0
        BY <2>1, <3>1, <3>3 DEF Place, Fits
      <4>3. LeftToSend(t)'
        BY <2>1, <3>1, <4>1, <4>2 DEF LeftToSend
      <4>4. \A u \in Thread : u # t => ~Inside(thr[u].pc, thr[u].op) /\ thr'[u] = thr[u] /\ m_mutex' # u
        BY <2>1, <2>3, NetworkAssumption DEF Locking, Goes, Moves
      <4> QED
        BY <2>3, <4>1, <4>3, <4>4 DEF Locking, Sending, Goes, Moves
    <3> QED
      BY <3>2, <3>3
  <2> QED
    BY <1>4, <2>2, <2>3, Lock
<1>5. ASSUME NEW t \in Thread, send_page(t) PROVE Locking'
  <2>1. Sending(t) /\ m_mutex = t
    BY <1>5, SendPage DEF Sending, Locking
  <2>2. ASSUME m_mutex' = m_mutex, Sent(t) # thr[t].arg, sent' = Sent(t), thr' = thr PROVE Locking'
    <3>1. LeftToSend(t)'
      BY <2>1, <2>2, PageSent DEF LeftToSend
    <3>2. \A u \in Thread : u # t => ~Sending(u)
      BY <2>1 DEF Locking, Sending
    <3> QED
      BY <2>1, <2>2, <3>1, <3>2 DEF Locking, Sending
  <2>3. ASSUME m_mutex' = m_mutex, sent' = <<0, 0>>, Goes(t, "wait") PROVE Locking'
    BY <2>1, <2>3, LockingMoves DEF Goes, Sending
  <2>4. ASSUME m_mutex' = NoOne, sent' = <<0, 0>>, Moves(t, "answered", thr[t].op, thr[t].arg, Failure("io_error")) PROVE Locking'
    BY <2>1, <2>4, LockingMoves
  <2> QED
    BY <1>5, <2>2, <2>3, <2>4, SendPage
<1>6. ASSUME NEW t \in Thread, wait(t) PROVE Locking'
  <2>1. thr[t].pc = "wait" /\ sent' = sent /\ m_mutex' = IF m_mutex = t THEN NoOne ELSE m_mutex
    BY <1>6, Wait
  <2>2. PICK g : Moves(t, "answered", thr[t].op, thr[t].arg, g)
    BY <1>6, Wait
  <2>3. CASE thr[t].op = "property"
    <3>1. m_mutex # t
      BY <2>1, <2>3 DEF Locking
    <3> QED
      BY <2>1, <2>2, <2>3, <3>1, LockingKept
  <2>4. CASE thr[t].op # "property"
    <3>1. m_mutex = t
      BY <2>1, <2>4 DEF Locking
    <3>2. sent = <<0, 0>>
      BY <2>1, <3>1 DEF Locking, Sending
    <3> QED
      BY <2>1, <2>2, <3>1, <3>2, LockingMoves
  <2> QED
    BY <2>3, <2>4
<1>7. ASSUME NEW t \in Thread, add_insert(t) PROVE Locking'
  <2>1. ASSUME Returns(t) PROVE Locking'
    BY <1>7, <2>1, AddInsert, LockingKept DEF Returns
  <2>2. ASSUME Goes(t, "insert") PROVE Locking'
    BY <1>7, <2>2, AddInsert, LockingKept DEF Goes
  <2> QED
    BY <1>7, <2>1, <2>2, AddInsert
<1>8. ASSUME NEW t \in Thread, add_done(t) PROVE Locking'
  BY <1>8, AddDone, LockingKept DEF Returns
<1>9. ASSUME NEW t \in Thread, property_send(t) PROVE Locking'
  <2>1. ASSUME Returns(t) PROVE Locking'
    BY <1>9, <2>1, PropertySend, LockingKept DEF Returns
  <2>2. ASSUME Goes(t, "wait") PROVE Locking'
    BY <1>9, <2>2, PropertySend, LockingKept DEF Goes
  <2> QED
    BY <1>9, <2>1, <2>2, PropertySend
<1>10. ASSUME NEW t \in Thread, property_done(t) PROVE Locking'
  BY <1>10, PropertyDone, LockingKept DEF Returns
<1>11. ASSUME NEW t \in Thread, create_alloc(t) PROVE Locking'
  <2>1. ASSUME Returns(t) PROVE Locking'
    BY <1>11, <2>1, CreateAlloc, LockingKept DEF Returns
  <2>2. ASSUME NEW id, Moves(t, "lock", "create", id, thr[t].got) PROVE Locking'
    BY <1>11, <2>2, CreateAlloc, LockingKept
  <2> QED
    BY <1>11, <2>1, <2>2, CreateAlloc
<1>12. ASSUME NEW t \in Thread, create_send(t) PROVE Locking'
  <2>1. m_mutex = t /\ sent' = sent /\ thr[t].pc = "send" /\ thr[t].op = "create"
    BY <1>12, CreateSend DEF Locking
  <2>2. sent = <<0, 0>>
    BY <2>1 DEF Locking, Sending
  <2>3. ASSUME m_mutex' = m_mutex, Goes(t, "wait") PROVE Locking'
    BY <2>1, <2>2, <2>3, LockingMoves DEF Goes
  <2>4. ASSUME m_mutex' = NoOne, Moves(t, "answered", "create", thr[t].arg, Failure("io_error")) PROVE Locking'
    BY <2>1, <2>2, <2>4, LockingMoves
  <2> QED
    BY <1>12, <2>3, <2>4, CreateSend
<1>13. ASSUME NEW t \in Thread, create_done(t) PROVE Locking'
  BY <1>13, CreateDone, LockingKept DEF Returns
<1>14. ASSUME NEW t \in Thread, destroy_send(t) PROVE Locking'
  BY <1>14, DestroySend, LockingKept DEF Goes
<1>15. ASSUME NEW t \in Thread, destroy_remove(t) PROVE Locking'
  BY <1>15, DestroyRemove, LockingKept DEF Returns
<1>16. ASSUME NEW t \in Thread, destroy_net_send(t) PROVE Locking'
  <2>1. ASSUME Returns(t) PROVE Locking'
    BY <1>16, <2>1, DestroyNetSend, LockingKept DEF Returns
  <2>2. ASSUME Goes(t, "remove") PROVE Locking'
    BY <1>16, <2>2, DestroyNetSend, LockingKept DEF Goes
  <2> QED
    BY <1>16, <2>1, <2>2, DestroyNetSend
<1>17. ASSUME NEW t \in Thread, destroy_net_remove(t) PROVE Locking'
  BY <1>17, DestroyNetRemove, LockingKept DEF Returns
<1>18. ASSUME NEW t \in Thread, NEW c \in Call, find_network(t, c) PROVE Locking'
  <2>1. PICK s : Moves(t, c, c, s, thr[t].got)
    BY <1>18, FindNetwork
  <2>2. ~Inside(thr[t].pc, thr[t].op) /\ ~Inside(c, c) /\ m_mutex' = m_mutex /\ sent' = sent
    BY <1>18, FindNetwork, IdleType DEF Call
  <2> QED
    BY <2>1, <2>2, LockingKept
<1>19. ASSUME NEW t \in Thread, NEW r \in s_infreqs, find_infreq(t, r) PROVE Locking'
  BY <1>19, FindRequest, IdleType, LockingKept
<1>20. CASE Respond
  <2>1. thr' = thr /\ m_mutex' = m_mutex /\ sent' = sent
    BY <1>20, ReplyStep, RequestGone, NetworkGone, Critical DEF Respond, SameLocal
  <2> QED
    BY <2>1, LockingSame
<1>21. CASE CardWork \/ card_event
  <2>1. thr' = thr /\ m_mutex' = m_mutex /\ sent' = sent
    BY <1>21, CardPage, CardAsked, CardDestroys, CardNetDestroy, CardNetGone, CardEvent DEF CardWork, SameDriver
  <2> QED
    BY <2>1, LockingSame
<1>22. CASE UNCHANGED netVars
  BY <1>22, LockingSame DEF netVars
<1> QED
  BY <1>1, <1>2, <1>3, <1>4, <1>5, <1>6, <1>7, <1>8, <1>9, <1>10, <1>11, <1>12, <1>13, <1>14, <1>15, <1>16, <1>17,
     <1>18, <1>19, <1>20, <1>21, <1>22 DEF NetNext, Do, Begin

-----------------------------------------------------------------------------
(***************************************************************************)
(* Types                                                                   *)
(***************************************************************************)

\* The p-th item of a command with n resources.
Entry(n, p) == IF p <= n THEN <<"res", p>> ELSE <<"conf", p - n>>

LEMMA ItemsAre ==
    ASSUME NEW kind \in {"res", "conf"}, NEW from \in Nat, NEW n \in Nat
    PROVE  /\ Items(kind, from, n) \in Seq(Item) /\ Len(Items(kind, from, n)) = n
           /\ \A k \in 1 .. n : Items(kind, from, n)[k] = <<kind, from + k>>
<1> DEFINE d == Items(kind, from, n)
<1>1. d = [k \in 1 .. n |-> <<kind, from + k>>]
  BY DEF Items
<1>2. \A k \in 1 .. n : <<kind, from + k>> \in Item
  BY DEF Item
<1>3. d \in [1 .. n -> Item] /\ \A k \in 1 .. n : d[k] = <<kind, from + k>>
  BY <1>1, <1>2
<1> HIDE DEF d
<1>4. d \in Seq(Item) /\ Len(d) = n
  BY <1>3
<1> QED
  BY <1>3, <1>4 DEF d

\* What the items of a page are.
LEMMA PageItems ==
    ASSUME Types, Locking, NEW t \in Thread, Sending(t), NEW m, m = PageOf(t, n_res(t), n_conf(t))
    PROVE  /\ m \in Message /\ m.op = thr[t].op /\ m.by = t /\ (m.first <=> sent = <<0, 0>>)
           /\ m.num_res = thr[t].arg[1] /\ m.size = thr[t].arg[1] + thr[t].arg[2]
           /\ m.items \in Seq(Item) /\ Len(m.items) = n_res(t) + n_conf(t)
           /\ \A k \in 1 .. Len(m.items) : m.items[k] = Entry(thr[t].arg[1], sent[1] + sent[2] + k)
<1> DEFINE a1 == thr[t].arg[1]
           a2 == thr[t].arg[2]
           s1 == sent[1]
           s2 == sent[2]
           r == n_res(t)
           c == n_conf(t)
           b == sent = <<0, 0>>
           d == Items("res", s1, r)
           e == Items("conf", s2, c)
<1>1. /\ a1 \in Nat /\ a2 \in Nat /\ s1 \in Nat /\ s2 \in Nat /\ r \in Nat /\ c \in Nat
      /\ s1 + r <= a1 /\ (c > 0 => s1 + r = a1) /\ (r > 0 => s2 = 0)
  BY PageSize
<1>2. d \in Seq(Item) /\ Len(d) = r /\ \A k \in 1 .. r : d[k] = <<"res", s1 + k>>
  BY <1>1, ItemsAre
<1>3. e \in Seq(Item) /\ Len(e) = c /\ \A k \in 1 .. c : e[k] = <<"conf", s2 + k>>
  BY <1>1, ItemsAre
<1>4. /\ m = [op |-> thr[t].op, by |-> t, first |-> b, num_res |-> a1, size |-> a1 + a2, items |-> d \o e]
  BY DEF PageOf
<1>5. thr[t].op \in {"build", "add"} /\ b \in BOOLEAN
  BY DEF Sending
<1> HIDE DEF a1, a2, s1, s2, r, c, b, d, e
<1>6. d \o e \in Seq(Item) /\ Len(d \o e) = r + c
  <2>1. d \in Seq(Item) /\ e \in Seq(Item) /\ Len(d) = r /\ Len(e) = c
    BY <1>2, <1>3
  <2> QED
    BY <2>1
<1>7. m \in Message
  <2>1. m \in PageMessage
    BY <1>1, <1>4, <1>5, <1>6 DEF PageMessage
  <2> QED
    BY <2>1 DEF Message
<1>8. \A k \in 1 .. r + c : (d \o e)[k] = Entry(a1, s1 + s2 + k)
  <2> TAKE k \in 1 .. r + c
  <2>1. CASE k <= r
    <3>1. (d \o e)[k] = d[k] /\ k \in 1 .. r
      BY <1>1, <1>2, <1>3, <2>1
    <3>2. s2 = 0 /\ s1 + s2 + k = s1 + k /\ s1 + k <= a1
      BY <1>1, <2>1
    <3> QED
      BY <1>2, <3>1, <3>2 DEF Entry
  <2>2. CASE ~(k <= r)
    <3>1. (d \o e)[k] = e[k - r] /\ k - r \in 1 .. c
      BY <1>1, <1>2, <1>3, <2>2
    <3>2. c > 0 /\ s1 + r = a1
      <4>1. 1 <= k - r /\ k - r <= c /\ k \in Nat
        BY <3>1
      <4>2. c > 0
        BY <1>1, <4>1
      <4> QED
        BY <1>1, <4>2
    <3>3. s1 + s2 + k > a1 /\ (s1 + s2 + k) - a1 = s2 + (k - r) /\ s1 + s2 + k \in Nat
      BY <1>1, <2>2, <3>2
    <3>4. e[k - r] = <<"conf", s2 + (k - r)>>
      BY <1>3, <3>1
    <3>5. Entry(a1, s1 + s2 + k) = <<"conf", (s1 + s2 + k) - a1>>
      BY <1>1, <3>3 DEF Entry
    <3> QED
      BY <3>1, <3>3, <3>4, <3>5
  <2> QED
    BY <2>1, <2>2
<1>9. /\ m.op = thr[t].op /\ m.by = t /\ m.num_res = a1 /\ m.size = a1 + a2
      /\ m.items = d \o e
  BY <1>4
<1>10. m.first = b
  BY <1>4
<1> QED
  BY <1>6, <1>7, <1>8, <1>9, <1>10 DEF a1, a2, s1, s2, r, c, b

LEMMA PlacesMove ==
    ASSUME Types, NEW t \in Thread, NEW p, NEW o, NEW a, NEW g, Moves(t, p, o, a, g), Fits(t, p, o, a),
           p = "idle" => thr'[t] = Idle
    PROVE  \A u \in Thread : Place(u)'
<1>1. ASSUME NEW u \in Thread, u # t PROVE Place(u)'
  <2>1. thr'[u] = thr[u] /\ Place(u)
    BY <1>1 DEF Moves, Types
  <2> QED
    BY <2>1 DEF Place, Fits
<1>2. Place(t)'
  <2>1. thr'[t].pc = p /\ thr'[t].op = o /\ thr'[t].arg = a
    BY DEF Moves
  <2> QED
    BY <2>1 DEF Place, Fits
<1> QED
  BY <1>1, <1>2

LEMMA ReturnFits == ASSUME Types, NEW t \in Thread, Returns(t) PROVE \A u \in Thread : Place(u)'
<1>1. Fits(t, "idle", "none", <<0, 0>>)
  BY DEF Fits, Call
<1> QED
  BY <1>1, PlacesMove DEF Returns

LEMMA PlacesSame == ASSUME Types, thr' = thr PROVE \A u \in Thread : Place(u)'
BY DEF Types, Place, Fits

LEMMA IDASame == ASSUME IDAInv, SameIds PROVE IDAInv'
BY DEF SameIds, IDAInv, NumExact

\* The variables of the host that most steps leave as they are.
LEMMA HostKept ==
    ASSUME HostTypes, thr' \in [Thread -> ThreadState], m_mutex' \in Thread \cup {NoOne}, sent' \in Nat \X Nat,
           leaked' \subseteq Id, SameMaps, SameContext, m_devres_vec' = m_devres_vec, made' = made
    PROVE  HostTypes'
BY DEF HostTypes, SameMaps, SameContext

LEMMA CardKept ==
    ASSUME CardTypes, h2c' \in Seq(Message), c2h' \in Seq(Reported), SameCard
    PROVE  CardTypes'
BY DEF CardTypes, SameCard

\* A step of a thread that sends at most one message.
LEMMA ThreadTypes ==
    ASSUME Types, NEW t \in Thread, SameHost, \A u \in Thread : Place(u)', thr' \in [Thread -> ThreadState],
           m_mutex' \in {m_mutex, t, NoOne}, sent' \in Nat \X Nat, leaked' \subseteq Id,
           h2c' = h2c \/ \E m \in Message : h2c' = Append(h2c, m)
    PROVE  Types'
<1>1. HostTypes /\ CardTypes /\ IDAInv
  BY DEF Types
<1>2. SameIds /\ SameMaps /\ SameContext /\ m_devres_vec' = m_devres_vec /\ made' = made /\ c2h' = c2h /\ SameCard
  BY DEF SameHost
<1>3. h2c' \in Seq(Message) /\ c2h' \in Seq(Reported)
  BY <1>1, <1>2, AppendTo DEF CardTypes
<1>4. m_mutex' \in Thread \cup {NoOne}
  BY <1>1 DEF HostTypes
<1> QED
  BY <1>1, <1>2, <1>3, <1>4, IDASame, HostKept, CardKept DEF Types

\* A step of the response thread.
LEMMA ResponseTypes ==
    ASSUME Types, SameLocal, c2h # <<>>, c2h' = Tail(c2h), IDAInv', s_networks' = s_networks, s_infreqs' = s_infreqs,
           netDB' \in BOOLEAN, reqDB' \subseteq Id, m_critical_error' \in {"none", "context", "card"}, exited' \in BOOLEAN,
           \/ m_create_reply' = m_create_reply
           \/ /\ Head(c2h).op = "reply"
              /\ m_create_reply' = Put(m_create_reply, Head(c2h).key, [what |-> Head(c2h).what, by |-> Head(c2h).by])
    PROVE  Types'
<1>1. HostTypes /\ CardTypes
  BY DEF Types
<1>2. h2c' \in Seq(Message) /\ c2h' \in Seq(Reported) /\ Head(c2h) \in Reported
  BY <1>1, TailOf DEF CardTypes, SameLocal
<1>3. CardTypes'
  BY <1>1, <1>2, CardKept DEF SameLocal
<1>4. \A u \in Thread : Place(u)'
  BY PlacesSame DEF SameLocal
<1>5. /\ DOMAIN m_create_reply' \subseteq Id \cup {-1}
      /\ \A k \in DOMAIN m_create_reply' : m_create_reply'[k].what \in Answers /\ m_create_reply'[k].by \in Thread
  <2>1. CASE m_create_reply' = m_create_reply
    BY <1>1, <2>1 DEF HostTypes
  <2>2. ASSUME Head(c2h).op = "reply",
               m_create_reply' = Put(m_create_reply, Head(c2h).key, [what |-> Head(c2h).what, by |-> Head(c2h).by])
        PROVE <1>5!:
    <3>1. Head(c2h).key \in Id \cup {-1} /\ Head(c2h).what \in Answers /\ Head(c2h).by \in Thread
      BY <1>2, <2>2, ReportedFields
    <3> QED
      BY <1>1, <2>2, <3>1 DEF HostTypes, Put
  <2> QED
    BY <2>1, <2>2
<1>6. HostTypes'
  BY <1>1, <1>5 DEF HostTypes, SameLocal
<1> QED
  BY <1>3, <1>4, <1>6 DEF Types

\* A step of the card.
LEMMA CardStepTypes ==
    ASSUME Types, SameDriver, h2c' \in Seq(Message), c2h' \in Seq(Reported),
           cardNet' \in {"none", "up", "dying", "gone"}, cardRes' \in Nat, cardReq' \subseteq Requests, chain' \in Seq(Item)
    PROVE  Types'
<1>1. HostTypes /\ CardTypes /\ IDAInv
  BY DEF Types
<1>2. \A u \in Thread : Place(u)'
  BY PlacesSame DEF SameDriver
<1>3. HostTypes'
  BY <1>1, HostKept DEF SameDriver, HostTypes
<1>4. CardTypes'
  BY DEF CardTypes
<1>5. IDAInv'
  BY <1>1, IDASame DEF SameDriver
<1> QED
  BY <1>2, <1>3, <1>4, <1>5 DEF Types

LEMMA Outcomes == \A of \in Call \cup {"build"} : Success(of) \in Answers /\ Failure(of) \in Answers
BY DEF Success, Failure, Answers

LEMMA TypesHeld == ASSUME Types, Locking, [NetNext]_netVars PROVE Types'
<1>0. HostTypes /\ CardTypes /\ IDAInv /\ (\A t \in Thread : thr[t] \in ThreadState /\ Place(t)) /\ NoOne \notin Thread
  BY NetworkAssumption DEF Types, HostTypes
<1>00. /\ m_mutex \in Thread \cup {NoOne} /\ sent \in Nat \X Nat /\ <<0, 0>> \in Nat \X Nat /\ leaked \subseteq Id
       /\ \A t \in Thread : thr[t].arg \in Nat \X Nat
  BY <1>0 DEF HostTypes, ThreadState
<1>1. ASSUME NEW t \in Thread, from_file(t) PROVE Types'
  <2>1. /\ SameHost /\ m_mutex' = m_mutex /\ sent' = sent /\ h2c' = h2c /\ leaked' = leaked
        /\ thr[t].op = "build" /\ thr[t].pc \in {"file0", "file1"}
    BY <1>1, FromFile
  <2>2. ASSUME Returns(t) PROVE Types'
    BY <1>00, <2>1, <2>2, ReturnFits, ThreadTypes DEF Returns, Moves
  <2>3. ASSUME NEW to \in {"lock", "file1"}, NEW k \in Nat \ {0}, Moves(t, to, "build", <<k, 1>>, thr[t].got) PROVE Types'
    <3>1. t = Builder
      BY <1>0, <2>1 DEF Place, Fits
    <3>2. Fits(t, to, "build", <<k, 1>>)
      BY <3>1 DEF Fits, Call
    <3>3. \A u \in Thread : Place(u)'
      BY <2>3, <3>2, PlacesMove
    <3> QED
      BY <1>00, <2>1, <2>3, <3>3, ThreadTypes DEF Moves
  <2> QED
    BY <1>1, <2>2, <2>3, FromFile
<1>2. ASSUME NEW t \in Thread, build_done(t) PROVE Types'
  <2>1. Returns(t) /\ SameIds /\ SameCard /\ h2c' = h2c /\ c2h' = c2h
    BY <1>2, BuildDone
  <2>2. HostTypes'
    BY <1>0, <1>00, <1>2, <2>1, BuildDone DEF HostTypes, Returns, Moves, SameContext
  <2> QED
    BY <1>0, <2>1, <2>2, IDASame, CardKept, ReturnFits DEF Types, CardTypes
<1>3. ASSUME NEW t \in Thread, add_test(t) PROVE Types'
  <2>1. SameHost /\ m_mutex' = m_mutex /\ sent' = sent /\ h2c' = h2c /\ leaked' = leaked /\ thr[t].op = "add" /\ thr[t].pc = "add"
    BY <1>3, AddTest
  <2>2. ASSUME Returns(t) PROVE Types'
    BY <1>00, <2>1, <2>2, ReturnFits, ThreadTypes DEF Returns, Moves
  <2>3. ASSUME Goes(t, "lock") PROVE Types'
    <3>1. Fits(t, "lock", "add", thr[t].arg)
      BY <1>0, <2>1 DEF Place, Fits, Call
    <3>2. \A u \in Thread : Place(u)'
      BY <2>1, <2>3, <3>1, PlacesMove DEF Goes
    <3> QED
      BY <1>00, <2>1, <2>3, <3>2, ThreadTypes DEF Goes, Moves
  <2> QED
    BY <1>3, <2>2, <2>3, AddTest
<1>4. ASSUME NEW t \in Thread, lock(t) PROVE Types'
  <2>1. SameHost /\ sent' = sent /\ h2c' = h2c /\ leaked' = leaked /\ thr[t].pc = "lock"
    BY <1>4, Lock
  <2>2. ASSUME NEW p \in {"answered", "send"}, NEW g, Moves(t, p, thr[t].op, thr[t].arg, g), m_mutex' \in {NoOne, t},
               thr[t].op # "create" \/ p = "send"
        PROVE Types'
    <3>1. Fits(t, p, thr[t].op, thr[t].arg)
      BY <1>0, <2>1, <2>2 DEF Place, Fits, Call
    <3>2. \A u \in Thread : Place(u)'
      BY <2>1, <2>2, <3>1, PlacesMove
    <3> QED
      BY <1>00, <2>1, <2>2, <3>2, ThreadTypes DEF Moves
  <2> QED
    BY <1>4, <2>2, Lock DEF Goes
<1>5. ASSUME NEW t \in Thread, send_page(t) PROVE Types'
  <2>1. SameHost /\ leaked' = leaked /\ thr[t].pc = "send" /\ thr[t].op \in {"build", "add"} /\ Sending(t)
    BY <1>5, SendPage DEF Sending
  <2>2. PageOf(t, n_res(t), n_conf(t)) \in Message /\ Sent(t) \in Nat \X Nat
    BY <2>1, PageItems, PageSent
  <2>3. ASSUME thr' = thr, sent' = Sent(t), m_mutex' = m_mutex, h2c' = Append(h2c, PageOf(t, n_res(t), n_conf(t))) PROVE Types'
    <3>1. \A u \in Thread : Place(u)'
      BY <2>3, PlacesSame
    <3>2. thr' \in [Thread -> ThreadState]
      BY <1>0, <2>3 DEF HostTypes
    <3> QED
      BY <1>00, <2>1, <2>2, <2>3, <3>1, <3>2, ThreadTypes
  <2>4. ASSUME NEW p \in {"answered", "wait"}, NEW g, Moves(t, p, thr[t].op, thr[t].arg, g), m_mutex' \in {NoOne, m_mutex},
               sent' = <<0, 0>>, h2c' = h2c \/ h2c' = Append(h2c, PageOf(t, n_res(t), n_conf(t)))
        PROVE Types'
    <3>1. Fits(t, p, thr[t].op, thr[t].arg)
      BY <1>0, <2>1, <2>4 DEF Place, Fits, Call
    <3>2. \A u \in Thread : Place(u)'
      BY <2>1, <2>4, <3>1, PlacesMove
    <3> QED
      BY <1>00, <2>1, <2>2, <2>4, <3>2, ThreadTypes DEF Moves
  <2> QED
    BY <1>5, <2>3, <2>4, SendPage DEF Goes
<1>6. ASSUME NEW t \in Thread, wait(t) PROVE Types'
  <2>1. /\ SameIds /\ SameMaps /\ SameCard /\ m_critical_error' = m_critical_error /\ exited' = exited
        /\ m_devres_vec' = m_devres_vec /\ made' = made /\ c2h' = c2h /\ h2c' = h2c /\ sent' = sent /\ leaked' = leaked
        /\ thr[t].pc = "wait" /\ m_mutex' \in {m_mutex, NoOne}
    BY <1>6, Wait
  <2>2. PICK g : Moves(t, "answered", thr[t].op, thr[t].arg, g)
    BY <1>6, Wait
  <2>3. Fits(t, "answered", thr[t].op, thr[t].arg)
    BY <1>0, <2>1 DEF Place, Fits, Call
  <2>4. \A u \in Thread : Place(u)'
    BY <2>2, <2>3, PlacesMove
  <2>5. /\ DOMAIN m_create_reply' \subseteq Id \cup {-1}
        /\ \A k \in DOMAIN m_create_reply' : m_create_reply'[k].what \in Answers /\ m_create_reply'[k].by \in Thread
    <3>1. CASE m_create_reply' = m_create_reply
      BY <1>0, <3>1 DEF HostTypes
    <3>2. CASE m_create_reply' = Erase(m_create_reply, Key(t))
      BY <1>0, <3>2 DEF HostTypes, Erase
    <3> QED
      BY <1>6, <3>1, <3>2, Wait
  <2>6. HostTypes'
    BY <1>0, <1>00, <2>1, <2>2, <2>5 DEF HostTypes, SameMaps, Moves
  <2> QED
    BY <1>0, <2>1, <2>4, <2>6, IDASame, CardKept DEF Types, CardTypes
<1>7. ASSUME NEW t \in Thread, add_insert(t) PROVE Types'
  <2>1. SameHost /\ m_mutex' = m_mutex /\ sent' = sent /\ h2c' = h2c /\ leaked' = leaked /\ thr[t].op = "add" /\ thr[t].pc = "answered"
    BY <1>7, AddInsert
  <2>2. ASSUME Returns(t) PROVE Types'
    BY <1>00, <2>1, <2>2, ReturnFits, ThreadTypes DEF Returns, Moves
  <2>3. ASSUME Goes(t, "insert") PROVE Types'
    <3>1. Fits(t, "insert", "add", thr[t].arg)
      BY <1>0, <2>1 DEF Place, Fits, Call
    <3>2. \A u \in Thread : Place(u)'
      BY <2>1, <2>3, <3>1, PlacesMove DEF Goes
    <3> QED
      BY <1>00, <2>1, <2>3, <3>2, ThreadTypes DEF Goes, Moves
  <2> QED
    BY <1>7, <2>2, <2>3, AddInsert
<1>8. ASSUME NEW t \in Thread, add_done(t) PROVE Types'
  <2>1. Returns(t) /\ SameIds /\ SameMaps /\ SameCard /\ h2c' = h2c /\ c2h' = c2h
    BY <1>8, AddDone
  <2>2. HostTypes'
    BY <1>0, <1>00, <1>8, <2>1, AddDone DEF HostTypes, Returns, Moves, SameContext, SameMaps
  <2> QED
    BY <1>0, <2>1, <2>2, IDASame, CardKept, ReturnFits DEF Types, CardTypes
<1>9. ASSUME NEW t \in Thread, property_send(t) PROVE Types'
  <2>1. SameHost /\ m_mutex' = m_mutex /\ sent' = sent /\ leaked' = leaked /\ thr[t].op = "property" /\ thr[t].pc = "property"
    BY <1>9, PropertySend
  <2>2. ASSUME Returns(t), h2c' = h2c PROVE Types'
    BY <1>00, <2>1, <2>2, ReturnFits, ThreadTypes DEF Returns, Moves
  <2>3. ASSUME Goes(t, "wait"), h2c' = Append(h2c, [op |-> "property", by |-> t]) PROVE Types'
    <3>1. Fits(t, "wait", "property", thr[t].arg)
      BY DEF Fits, Call
    <3>2. \A u \in Thread : Place(u)'
      BY <2>1, <2>3, <3>1, PlacesMove DEF Goes
    <3> QED
      BY <1>00, <2>1, <2>3, <3>2, ThreadTypes, Messages DEF Goes, Moves
  <2> QED
    BY <1>9, <2>2, <2>3, PropertySend
<1>10. ASSUME NEW t \in Thread, property_done(t) PROVE Types'
  BY <1>00, <1>10, PropertyDone, ReturnFits, ThreadTypes DEF Returns, Moves
<1>11. ASSUME NEW t \in Thread, create_alloc(t) PROVE Types'
  <2>1. /\ SameMaps /\ SameContext /\ SameCard /\ m_mutex' = m_mutex /\ sent' = sent /\ h2c' = h2c /\ c2h' = c2h
        /\ m_devres_vec' = m_devres_vec /\ leaked' = leaked
    BY <1>11, CreateAlloc
  <2>2. CardTypes'
    BY <1>0, <2>1, CardKept DEF CardTypes
  <2>3. ASSUME Returns(t), SameIds, made' = made PROVE Types'
    BY <1>0, <1>00, <2>1, <2>2, <2>3, ReturnFits, HostKept, IDASame DEF Returns, Moves, Types
  <2>4. ASSUME NEW id \in Id, alloc(id), made' = made + 1, Moves(t, "lock", "create", <<id, made + 1>>, thr[t].got) PROVE Types'
    <3>1. made \in Nat /\ <<id, made + 1>> \in Requests
      BY <1>0 DEF HostTypes, Requests
    <3>2. Fits(t, "lock", "create", <<id, made + 1>>)
      BY <3>1 DEF Fits, Call
    <3>3. \A u \in Thread : Place(u)'
      BY <2>4, <3>2, PlacesMove
    <3>4. IDAInv'
      BY <1>0, <2>4, AllocKeeps
    <3>5. HostTypes'
      BY <1>0, <1>00, <2>1, <2>4, <3>1 DEF HostTypes, SameMaps, SameContext, Moves
    <3> QED
      BY <2>2, <3>3, <3>4, <3>5 DEF Types
  <2> QED
    BY <1>11, <2>3, <2>4, CreateAlloc
<1>12. ASSUME NEW t \in Thread, create_send(t) PROVE Types'
  <2>1. SameHost /\ sent' = sent /\ leaked' = leaked /\ thr[t].op = "create" /\ thr[t].pc = "send" /\ thr[t].arg \in Requests
    BY <1>12, CreateSend
  <2>2. ASSUME NEW p \in {"answered", "wait"}, NEW g, Moves(t, p, "create", thr[t].arg, g), m_mutex' \in {NoOne, m_mutex},
               h2c' = h2c \/ h2c' = Append(h2c, [op |-> "create", by |-> t, req |-> thr[t].arg])
        PROVE Types'
    <3>1. Fits(t, p, "create", thr[t].arg)
      BY <2>1, <2>2 DEF Fits, Call
    <3>2. \A u \in Thread : Place(u)'
      BY <2>1, <2>2, <3>1, PlacesMove
    <3> QED
      BY <1>00, <2>1, <2>2, <3>2, ThreadTypes, Messages DEF Moves
  <2> QED
    BY <1>12, <2>1, <2>2, CreateSend DEF Goes
<1>13. ASSUME NEW t \in Thread, create_done(t) PROVE Types'
  <2>1. Returns(t) /\ SameIds /\ SameCard /\ h2c' = h2c /\ c2h' = c2h /\ thr[t].arg \in Requests
    BY <1>13, CreateDone
  <2>2. thr[t].arg[1] \in Id
    BY <2>1 DEF Requests
  <2>3. HostTypes'
    BY <1>0, <1>00, <1>13, <2>1, <2>2, CreateDone DEF HostTypes, Returns, Moves, SameContext
  <2> QED
    BY <1>0, <2>1, <2>3, IDASame, CardKept, ReturnFits DEF Types, CardTypes
<1>14. ASSUME NEW t \in Thread, destroy_send(t) PROVE Types'
  <2>1. /\ SameHost /\ m_mutex' = m_mutex /\ sent' = sent /\ thr[t].op = "destroy" /\ thr[t].arg \in Requests
        /\ Goes(t, "remove") /\ leaked' \in {leaked, leaked \cup {thr[t].arg[1]}}
        /\ (h2c' = h2c \/ h2c' = Append(h2c, [op |-> "destroy", req |-> thr[t].arg]))
    BY <1>14, DestroySend
  <2>2. Fits(t, "remove", "destroy", thr[t].arg)
    BY <2>1 DEF Fits, Call
  <2>3. \A u \in Thread : Place(u)'
    BY <2>1, <2>2, PlacesMove DEF Goes
  <2>4. leaked' \subseteq Id
    BY <1>00, <2>1 DEF Requests
  <2> QED
    BY <1>00, <2>1, <2>3, <2>4, ThreadTypes, Messages DEF Goes, Moves
<1>15. ASSUME NEW t \in Thread, destroy_remove(t) PROVE Types'
  <2>1. Returns(t) /\ SameIds /\ SameCard /\ h2c' = h2c /\ c2h' = c2h
    BY <1>15, DestroyRemove
  <2>2. HostTypes'
    BY <1>0, <1>00, <1>15, <2>1, DestroyRemove DEF HostTypes, Returns, Moves, SameContext
  <2> QED
    BY <1>0, <2>1, <2>2, IDASame, CardKept, ReturnFits DEF Types, CardTypes
<1>16. ASSUME NEW t \in Thread, destroy_net_send(t) PROVE Types'
  <2>1. SameHost /\ m_mutex' = m_mutex /\ sent' = sent /\ leaked' = leaked /\ thr[t].op = "destroy_net"
    BY <1>16, DestroyNetSend
  <2>2. ASSUME Returns(t), h2c' = h2c PROVE Types'
    BY <1>00, <2>1, <2>2, ReturnFits, ThreadTypes DEF Returns, Moves
  <2>3. ASSUME Goes(t, "remove"), h2c' = h2c \/ h2c' = Append(h2c, [op |-> "destroy_net"]) PROVE Types'
    <3>1. Fits(t, "remove", "destroy_net", thr[t].arg)
      BY DEF Fits, Call
    <3>2. \A u \in Thread : Place(u)'
      BY <2>1, <2>3, <3>1, PlacesMove DEF Goes
    <3> QED
      BY <1>00, <2>1, <2>3, <3>2, ThreadTypes, Messages DEF Goes, Moves
  <2> QED
    BY <1>16, <2>2, <2>3, DestroyNetSend
<1>17. ASSUME NEW t \in Thread, destroy_net_remove(t) PROVE Types'
  <2>1. Returns(t) /\ SameIds /\ SameCard /\ h2c' = h2c /\ c2h' = c2h
    BY <1>17, DestroyNetRemove
  <2>2. HostTypes'
    BY <1>0, <1>00, <1>17, <2>1, DestroyNetRemove DEF HostTypes, Returns, Moves, SameContext
  <2> QED
    BY <1>0, <2>1, <2>2, IDASame, CardKept, ReturnFits DEF Types, CardTypes
<1>18. ASSUME NEW t \in Thread, NEW c \in Call, find_network(t, c) PROVE Types'
  <2>1. SameHost /\ m_mutex' = m_mutex /\ sent' = sent /\ h2c' = h2c /\ leaked' = leaked /\ c # "destroy"
    BY <1>18, FindNetwork
  <2>2. PICK s \in Nat \X Nat : Moves(t, c, c, s, thr[t].got) /\ (c = "add" => s[1] + s[2] > 0)
    BY <1>18, FindNetwork
  <2>3. Fits(t, c, c, s)
    BY <2>1, <2>2 DEF Fits, Call
  <2>4. \A u \in Thread : Place(u)'
    BY <2>2, <2>3, PlacesMove DEF Call
  <2> QED
    BY <1>00, <2>1, <2>2, <2>4, ThreadTypes DEF Moves
<1>19. ASSUME NEW t \in Thread, NEW r \in s_infreqs, find_infreq(t, r) PROVE Types'
  <2>1. SameHost /\ m_mutex' = m_mutex /\ sent' = sent /\ h2c' = h2c /\ leaked' = leaked /\ r \in Requests
        /\ Moves(t, "destroy", "destroy", r, thr[t].got)
    BY <1>19, FindRequest
  <2>2. Fits(t, "destroy", "destroy", r)
    BY <2>1 DEF Fits, Call
  <2>3. \A u \in Thread : Place(u)'
    BY <2>1, <2>2, PlacesMove
  <2> QED
    BY <1>00, <2>1, <2>3, ThreadTypes DEF Moves
<1>20. CASE process_create_reply
  BY <1>0, <1>20, ReplyStep, IDASame, ResponseTypes DEF SameMaps, HostTypes
<1>21. CASE infreq_destroyed
  <2>1. Head(c2h).op = "infreq_destroyed" /\ Head(c2h) \in Reported
    BY <1>0, <1>21, RequestGone, TailOf DEF CardTypes
  <2>2. Head(c2h).id \in Id
    BY <2>1, ReportedFields
  <2>3. IDAInv'
    BY <1>0, <1>21, <2>2, RequestGone, FreeKeeps, IDASame
  <2> QED
    BY <1>0, <1>21, <2>3, RequestGone, ResponseTypes DEF SameContext, HostTypes
<1>22. CASE devnet_destroyed
  BY <1>0, <1>22, NetworkGone, IDASame, ResponseTypes DEF SameContext, HostTypes
<1>23. CASE critical_event
  BY <1>0, <1>23, Critical, IDASame, ResponseTypes DEF HostTypes
<1>24. CASE card_page
  <2>1. /\ h2c # <<>> /\ Head(h2c).op \in {"build", "add"} /\ h2c' = Tail(h2c) /\ SameDriver /\ cardReq' = cardReq
    BY <1>24, CardPage
  <2>2. h2c' \in Seq(Message) /\ Head(h2c) \in Message
    BY <1>0, <2>1, TailOf DEF CardTypes
  <2>3. Head(h2c).items \in Seq(Item) /\ Head(h2c).num_res \in Nat /\ Head(h2c).by \in Thread
    BY <2>1, <2>2, MessageFields
  <2>4. Got(Head(h2c)) \in Seq(Item) /\ <<>> \in Seq(Item)
    BY <1>0, <2>3 DEF Got, CardTypes
  <2>5. \A of \in {"build", "add"} : ReplyTo(-1, Success(of)) \in Reported /\ ReplyTo(-1, Failure(of)) \in Reported
    BY <2>3, Outcomes, Reports DEF ReplyTo, Call
  <2>6. c2h' \in Seq(Reported)
    <3> DEFINE yes == ReplyTo(-1, Success(Head(h2c).op))
               no == ReplyTo(-1, Failure(Head(h2c).op))
    <3>1. c2h' = c2h \/ c2h' = Append(c2h, yes) \/ c2h' = Append(c2h, no)
      BY <1>24, CardPage DEF PageKept, PageMade, PageRefused
    <3>2. yes \in Reported /\ no \in Reported
      BY <2>1, <2>5
    <3> HIDE DEF yes, no
    <3> QED
      BY <1>0, <3>1, <3>2, AppendTo DEF CardTypes
  <2>7. cardNet' \in {"none", "up", "dying", "gone"} /\ cardRes' \in Nat /\ chain' \in Seq(Item)
    <3>1. CASE PageKept(Head(h2c))
      BY <1>0, <2>4, <3>1 DEF PageKept, CardTypes
    <3>2. CASE PageLast(Head(h2c)) /\ PageMade(Head(h2c))
      BY <1>0, <2>3, <2>4, <3>2 DEF PageLast, PageMade, CardTypes
    <3>3. CASE PageLast(Head(h2c)) /\ PageRefused(Head(h2c))
      BY <1>0, <2>4, <3>3 DEF PageLast, PageRefused, CardTypes
    <3> QED
      BY <1>24, <3>1, <3>2, <3>3, CardPage
  <2>8. cardReq' \subseteq Requests
    BY <1>0, <2>1 DEF CardTypes
  <2> QED
    BY <2>1, <2>2, <2>6, <2>7, <2>8, CardStepTypes
<1>25. CASE card_asked
  <2>1. /\ h2c # <<>> /\ Head(h2c).op \in {"property", "create"} /\ h2c' = Tail(h2c) /\ SameDriver
        /\ cardNet' = cardNet /\ cardRes' = cardRes /\ chain' = chain
    BY <1>25, CardAsked
  <2>2. h2c' \in Seq(Message) /\ Head(h2c) \in Message
    BY <1>0, <2>1, TailOf DEF CardTypes
  <2>3. Head(h2c).by \in Thread /\ (Head(h2c).op = "create" => Head(h2c).req \in Requests /\ Head(h2c).req[1] \in Id)
    BY <2>1, <2>2, MessageFields DEF Requests
  <2>4. \A k \in Id \cup {-1} : ReplyTo(k, Success(Head(h2c).op)) \in Reported /\ ReplyTo(k, Failure(Head(h2c).op)) \in Reported
    BY <2>1, <2>3, Outcomes, Reports DEF ReplyTo, Call
  <2>5. c2h' \in Seq(Reported)
    <3>1. \E m \in Reported : c2h' = Append(c2h, m)
      BY <1>25, <2>3, <2>4, CardAsked
    <3> QED
      BY <1>0, <3>1, AppendTo DEF CardTypes
  <2>6. cardReq' \subseteq Requests
    BY <1>0, <1>25, <2>3, CardAsked DEF CardTypes
  <2> QED
    BY <1>0, <2>1, <2>2, <2>5, <2>6, CardStepTypes DEF CardTypes
<1>26. CASE card_destroys
  <2>1. /\ h2c # <<>> /\ Head(h2c).op = "destroy" /\ h2c' = Tail(h2c) /\ SameDriver
        /\ cardNet' = cardNet /\ cardRes' = cardRes /\ chain' = chain
    BY <1>26, CardDestroys
  <2>2. h2c' \in Seq(Message) /\ Head(h2c) \in Message
    BY <1>0, <2>1, TailOf DEF CardTypes
  <2>3. Head(h2c).req[1] \in Id
    BY <2>1, <2>2, MessageFields DEF Requests
  <2>4. c2h' \in Seq(Reported)
    <3>1. c2h' = c2h \/ \E m \in Reported : c2h' = Append(c2h, m)
      BY <1>26, <2>3, CardDestroys, Reports
    <3> QED
      BY <1>0, <3>1, AppendTo DEF CardTypes
  <2>5. cardReq' \subseteq Requests
    BY <1>0, <1>26, CardDestroys DEF CardTypes
  <2> QED
    BY <1>0, <2>1, <2>2, <2>4, <2>5, CardStepTypes DEF CardTypes
<1>27. CASE card_net_destroy
  <2>1. h2c' \in Seq(Message)
    BY <1>0, <1>27, CardNetDestroy, TailOf DEF CardTypes
  <2> QED
    BY <1>0, <1>27, <2>1, CardNetDestroy, CardStepTypes DEF CardTypes
<1>28. CASE card_net_gone
  <2>1. c2h' \in Seq(Reported)
    BY <1>0, <1>28, CardNetGone, AppendTo, Reports DEF CardTypes
  <2> QED
    BY <1>0, <1>28, <2>1, CardNetGone, CardStepTypes DEF CardTypes
<1>29. CASE card_event
  <2>1. c2h' \in Seq(Reported)
    BY <1>0, <1>29, CardEvent, AppendTo, Reports DEF CardTypes
  <2> QED
    BY <1>0, <1>29, <2>1, CardEvent, CardStepTypes DEF CardTypes, SameCard
<1>30. CASE UNCHANGED netVars
  <2>1. SameIds /\ thr' = thr
    BY <1>30 DEF netVars, idaVars, SameIds
  <2>2. HostTypes' /\ CardTypes'
    BY <1>0, <1>30 DEF netVars, mapVars, cardVars, HostTypes, CardTypes
  <2> QED
    BY <1>0, <2>1, <2>2, IDASame, PlacesSame DEF Types
<1> QED
  BY <1>1, <1>2, <1>3, <1>4, <1>5, <1>6, <1>7, <1>8, <1>9, <1>10, <1>11, <1>12, <1>13, <1>14, <1>15, <1>16, <1>17,
     <1>18, <1>19, <1>20, <1>21, <1>22, <1>23, <1>24, <1>25, <1>26, <1>27, <1>28, <1>29, <1>30
  DEF NetNext, Do, Begin, Respond, CardWork

-----------------------------------------------------------------------------
(***************************************************************************)
(* The ids of requests                                                     *)
(***************************************************************************)

\* An id that nothing happens to.
LEMMA PlaceKept ==
    ASSUME NEW id \in Id, OnePlace(id),
           \A t \in Thread : Making(t, id)' => Making(t, id),
           NEW d \in Int, \A k \in DOMAIN h2c' : k \in Int /\ (Asked(k, id)' => Asked(k + d, id)),
           NEW e \in Int, \A k \in DOMAIN c2h' : k \in Int /\ (Gone(k, id)' => Gone(k + e, id)),
           \A r \in cardReq' : Known(r, id)' => Known(r, id),
           id \in held => id \in held'
    PROVE  OnePlace(id)'
<1>1. /\ \A k : Asked(k, id) => k \in DOMAIN h2c
      /\ \A k : Gone(k, id) => k \in DOMAIN c2h
      /\ \A r : Known(r, id) => r \in cardReq
  BY DEF Asked, Gone, Known
<1>2. ASSUME NEW t \in Thread, Making(t, id)'
      PROVE  /\ id \in held' /\ \A u \in Thread : Making(u, id)' => u = t
             /\ \A k \in DOMAIN h2c' : ~Asked(k, id)'
             /\ \A r \in cardReq' : ~Known(r, id)'
             /\ \A k \in DOMAIN c2h' : ~Gone(k, id)'
  BY <1>1, <1>2 DEF OnePlace
<1>3. ASSUME NEW k \in DOMAIN h2c', Asked(k, id)'
      PROVE  /\ id \in held' /\ \A j \in DOMAIN h2c' : Asked(j, id)' => j = k
             /\ \A r \in cardReq' : ~Known(r, id)'
             /\ \A j \in DOMAIN c2h' : ~Gone(j, id)'
  <2>1. \A j \in DOMAIN h2c' : Asked(j, id)' => j + d = k + d
    BY <1>1, <1>3 DEF OnePlace
  <2> QED
    BY <1>1, <1>3, <2>1 DEF OnePlace
<1>4. ASSUME NEW r \in cardReq', Known(r, id)'
      PROVE  /\ id \in held' /\ \A q \in cardReq' : Known(q, id)' => q = r
             /\ \A j \in DOMAIN c2h' : ~Gone(j, id)'
  BY <1>1, <1>4 DEF OnePlace
<1>5. ASSUME NEW k \in DOMAIN c2h', Gone(k, id)'
      PROVE  id \in held' /\ \A j \in DOMAIN c2h' : Gone(j, id)' => j = k
  <2>1. \A j \in DOMAIN c2h' : Gone(j, id)' => j + e = k + e
    BY <1>1, <1>5 DEF OnePlace
  <2> QED
    BY <1>1, <1>5, <2>1 DEF OnePlace
<1> QED
  BY <1>2, <1>3, <1>4, <1>5 DEF OnePlace

\* Where the carried messages were.
LEMMA AskedBefore ==
    ASSUME NEW d, Carried(h2c, h2c', {"create"}, d), NEW id
    PROVE  \A k \in DOMAIN h2c' : k \in Int /\ (Asked(k, id)' => Asked(k + d, id))
BY DEF Carried, Asked

LEMMA GoneBefore ==
    ASSUME NEW e, Carried(c2h, c2h', {"infreq_destroyed"}, e), NEW id
    PROVE  \A k \in DOMAIN c2h' : k \in Int /\ (Gone(k, id)' => Gone(k + e, id))
BY DEF Carried, Gone

\* A step that makes no request, sends none, and has none destroyed.
LEMMA IdsKept ==
    ASSUME Ids, \A t \in Thread, id \in Id : Making(t, id)' => Making(t, id),
           NEW d, Carried(h2c, h2c', {"create"}, d), NEW e, Carried(c2h, c2h', {"infreq_destroyed"}, e),
           cardReq' \subseteq cardReq, held' = held
    PROVE  Ids'
<1>1. d \in Int /\ e \in Int
  BY DEF Carried
<1>2. ASSUME NEW id \in Id PROVE OnePlace(id)'
  <2>1. \A r \in cardReq' : Known(r, id)' => Known(r, id)
    BY DEF Known
  <2> QED
    BY <1>1, <2>1, AskedBefore, GoneBefore, PlaceKept DEF Ids
<1> QED
  BY <1>2 DEF Ids

\* A thread step that neither takes an id nor sends a request.
LEMMA ThreadIds ==
    ASSUME Types, Ids, NEW t \in Thread, NEW p, NEW o, NEW a, NEW g, Moves(t, p, o, a, g),
           \A id \in Id : o = "create" /\ p \in {"lock", "send"} /\ a[1] = id => Making(t, id),
           h2c' = h2c \/ \E m \in Message : m.op # "create" /\ h2c' = Append(h2c, m),
           c2h' = c2h, cardReq' = cardReq, held' = held
    PROVE  Ids'
<1>1. \A u \in Thread, id \in Id : Making(u, id)' => Making(u, id)
  BY DEF Making, Moves
<1>2. h2c \in Seq(Message) /\ c2h \in Seq(Reported)
  BY DEF Types, CardTypes
<1>3. Carried(h2c, h2c', {"create"}, 0)
  <2>1. CASE h2c' = h2c
    BY <1>2, <2>1, CarriedSame
  <2>2. ASSUME NEW m \in Message, m.op # "create", h2c' = Append(h2c, m) PROVE Carried(h2c, h2c', {"create"}, 0)
    BY <1>2, <2>2, CarriedAppend
  <2> QED
    BY <2>1, <2>2
<1>4. Carried(c2h, c2h', {"infreq_destroyed"}, 0)
  BY <1>2, CarriedSame
<1> QED
  BY <1>1, <1>3, <1>4, IdsKept

\* A step of the response thread that gives no id back.
LEMMA ResponseIds ==
    ASSUME Types, Ids, SameLocal, c2h # <<>>, c2h' = Tail(c2h), held' = held
    PROVE  Ids'
<1>1. h2c \in Seq(Message) /\ c2h \in Seq(Reported)
  BY DEF Types, CardTypes
<1>2. Carried(h2c, h2c', {"create"}, 0)
  BY <1>1, CarriedSame DEF SameLocal
<1>3. Carried(c2h, c2h', {"infreq_destroyed"}, 1)
  BY <1>1, CarriedTail
<1>4. \A u \in Thread, id \in Id : Making(u, id)' => Making(u, id)
  BY DEF Making, SameLocal
<1> QED
  BY <1>2, <1>3, <1>4, IdsKept DEF SameLocal, SameCard

\* A step of the card that makes and destroys no request.
LEMMA CardIds ==
    ASSUME Types, Ids, SameDriver, cardReq' = cardReq,
           h2c' = h2c \/ (h2c # <<>> /\ h2c' = Tail(h2c)),
           c2h' = c2h \/ \E m \in Reported : m.op # "infreq_destroyed" /\ c2h' = Append(c2h, m)
    PROVE  Ids'
<1>1. h2c \in Seq(Message) /\ c2h \in Seq(Reported)
  BY DEF Types, CardTypes
<1>2. \E d : Carried(h2c, h2c', {"create"}, d)
  BY <1>1, CarriedSame, CarriedTail
<1>3. Carried(c2h, c2h', {"infreq_destroyed"}, 0)
  <2>1. CASE c2h' = c2h
    BY <1>1, <2>1, CarriedSame
  <2>2. ASSUME NEW m \in Reported, m.op # "infreq_destroyed", c2h' = Append(c2h, m)
        PROVE  Carried(c2h, c2h', {"infreq_destroyed"}, 0)
    BY <1>1, <2>2, CarriedAppend
  <2> QED
    BY <2>1, <2>2
<1>4. \A u \in Thread, id \in Id : Making(u, id)' => Making(u, id)
  BY DEF Making, SameDriver
<1> QED
  BY <1>2, <1>3, <1>4, IdsKept DEF SameDriver, SameIds

\* The id that a thread takes was in no place, as it was not held.
LEMMA AllocIds ==
    ASSUME Types, Ids, NEW t \in Thread, NEW i \in Id, NEW a, NEW g, alloc(i), Moves(t, "lock", "create", a, g),
           a[1] = i, thr[t].pc = "create", h2c' = h2c, c2h' = c2h, cardReq' = cardReq
    PROVE  Ids'
<1>1. i \notin held /\ held' = held \cup {i}
  BY AllocRanges DEF Types, alloc
<1>2. OnePlace(i)
  BY DEF Ids
<1>3. /\ \A u \in Thread : ~Making(u, i)
      /\ \A k \in DOMAIN h2c : ~Asked(k, i)
      /\ \A r \in cardReq : ~Known(r, i)
      /\ \A k \in DOMAIN c2h : ~Gone(k, i)
  BY <1>1, <1>2 DEF OnePlace
<1>4. OnePlace(i)'
  <2>1. /\ \A k \in DOMAIN h2c' : ~Asked(k, i)'
        /\ \A r \in cardReq' : ~Known(r, i)'
        /\ \A k \in DOMAIN c2h' : ~Gone(k, i)'
    BY <1>3 DEF Asked, Known, Gone
  <2>2. \A u \in Thread : Making(u, i)' => u = t
    BY <1>3 DEF Making, Moves
  <2> QED
    BY <1>1, <2>1, <2>2 DEF OnePlace
<1>5. ASSUME NEW id \in Id, id # i PROVE OnePlace(id)'
  <2>1. OnePlace(id) /\ 0 \in Int
    BY DEF Ids
  <2>2. \A u \in Thread : Making(u, id)' => Making(u, id)
    BY <1>5 DEF Making, Moves
  <2>3. h2c \in Seq(Message) /\ c2h \in Seq(Reported)
    BY DEF Types, CardTypes
  <2>4. \A k \in DOMAIN h2c' : k \in Int /\ (Asked(k, id)' => Asked(k + 0, id))
    BY <2>3 DEF Asked
  <2>5. \A k \in DOMAIN c2h' : k \in Int /\ (Gone(k, id)' => Gone(k + 0, id))
    BY <2>3 DEF Gone
  <2>6. \A r \in cardReq' : Known(r, id)' => Known(r, id)
    BY DEF Known
  <2> QED
    BY <1>1, <2>1, <2>2, <2>4, <2>5, <2>6, PlaceKept
<1> QED
  BY <1>4, <1>5 DEF Ids

\* A thread sends its request.
LEMMA SendIds ==
    ASSUME Types, Ids, NEW t \in Thread, NEW i \in Id, Making(t, i), Goes(t, "wait"),
           NEW m \in Message, m.op = "create", m.req[1] = i, h2c' = Append(h2c, m),
           c2h' = c2h, cardReq' = cardReq, held' = held
    PROVE  Ids'
<1> DEFINE n == Len(h2c) + 1
<1>1. h2c \in Seq(Message) /\ c2h \in Seq(Reported)
  BY DEF Types, CardTypes
<1>2. /\ n \in DOMAIN h2c' /\ h2c'[n] = m
      /\ \A k \in DOMAIN h2c' : k \in DOMAIN h2c \/ k = n
      /\ \A k \in DOMAIN h2c : h2c'[k] = h2c[k] /\ k \in Nat
      /\ n \in Nat
  BY <1>1, AppendTo
<1>3. OnePlace(i)
  BY DEF Ids
<1>4. OnePlace(i)'
  <2>1. \A u \in Thread : ~Making(u, i)'
    BY <1>3 DEF OnePlace, Making, Goes, Moves
  <2>2. \A k \in DOMAIN h2c' : Asked(k, i)' => k = n
    BY <1>2, <1>3 DEF OnePlace, Asked
  <2>3. (\A r \in cardReq' : ~Known(r, i)') /\ \A k \in DOMAIN c2h' : ~Gone(k, i)'
    BY <1>3 DEF OnePlace, Known, Gone
  <2>4. i \in held'
    BY <1>3 DEF OnePlace
  <2> QED
    BY <2>1, <2>2, <2>3, <2>4 DEF OnePlace
<1>5. ASSUME NEW id \in Id, id # i PROVE OnePlace(id)'
  <2>1. OnePlace(id) /\ 0 \in Int
    BY DEF Ids
  <2>2. \A u \in Thread : Making(u, id)' => Making(u, id)
    BY <1>5 DEF Making, Goes, Moves
  <2>4. \A k \in DOMAIN h2c' : k \in Int /\ (Asked(k, id)' => Asked(k + 0, id))
    BY <1>2, <1>5 DEF Asked
  <2>5. \A k \in DOMAIN c2h' : k \in Int /\ (Gone(k, id)' => Gone(k + 0, id))
    BY <1>1 DEF Gone
  <2>6. \A r \in cardReq' : Known(r, id)' => Known(r, id)
    BY DEF Known
  <2> QED
    BY <2>1, <2>2, <2>4, <2>5, <2>6, PlaceKept
<1> QED
  BY <1>4, <1>5 DEF Ids

\* The card makes the request.
LEMMA MadeIds ==
    ASSUME Types, Ids, SameDriver, h2c # <<>>, Head(h2c).op = "create", h2c' = Tail(h2c), NEW i \in Id, Head(h2c).req[1] = i,
           cardReq' = cardReq \cup {Head(h2c).req}, NEW m \in Reported, m.op # "infreq_destroyed", c2h' = Append(c2h, m)
    PROVE  Ids'
<1>1. h2c \in Seq(Message) /\ c2h \in Seq(Reported)
  BY DEF Types, CardTypes
<1>2. /\ Head(h2c) = h2c[1] /\ 1 \in DOMAIN h2c
      /\ \A k \in DOMAIN h2c' : k \in Nat \ {0} /\ k + 1 \in DOMAIN h2c /\ h2c'[k] = h2c[k + 1]
  BY <1>1, TailOf
<1>3. OnePlace(i) /\ Asked(1, i)
  BY <1>2 DEF Ids, Asked
<1>4. \A id, e : Carried(c2h, c2h', {"infreq_destroyed"}, e) => \A k \in DOMAIN c2h' : k \in Int /\ (Gone(k, id)' => Gone(k + e, id))
  BY GoneBefore
<1>5. Carried(c2h, c2h', {"infreq_destroyed"}, 0)
  BY <1>1, CarriedAppend
<1>6. \A id : \A k \in DOMAIN c2h' : k \in Int /\ (Gone(k, id)' => Gone(k + 0, id))
  BY <1>4, <1>5
<1>7. \A u \in Thread, id \in Id : Making(u, id)' => Making(u, id)
  BY DEF Making, SameDriver
<1>8. held' = held
  BY DEF SameDriver, SameIds
<1>9. OnePlace(i)'
  <2>1. \A u \in Thread : ~Making(u, i)'
    BY <1>2, <1>3, <1>7 DEF OnePlace
  <2>2. \A k \in DOMAIN h2c' : ~Asked(k, i)'
    <3>1. \A k \in DOMAIN h2c' : Asked(k, i)' => Asked(k + 1, i)
      BY <1>2 DEF Asked
    <3>2. \A k \in DOMAIN h2c' : k + 1 \in DOMAIN h2c /\ k + 1 # 1
      BY <1>2
    <3> QED
      BY <1>2, <1>3, <3>1, <3>2 DEF OnePlace
  <2>3. \A k \in DOMAIN c2h' : ~Gone(k, i)'
    BY <1>2, <1>3, <1>6 DEF OnePlace, Gone
  <2>4. \A r \in cardReq' : Known(r, i)' => r = Head(h2c).req
    BY <1>2, <1>3 DEF OnePlace, Known
  <2>5. i \in held'
    BY <1>2, <1>3, <1>8 DEF OnePlace
  <2> QED
    BY <2>1, <2>2, <2>3, <2>4, <2>5 DEF OnePlace
<1>10. ASSUME NEW id \in Id, id # i PROVE OnePlace(id)'
  <2>1. OnePlace(id) /\ 0 \in Int /\ 1 \in Int
    BY DEF Ids
  <2>2. \A k \in DOMAIN h2c' : k \in Int /\ (Asked(k, id)' => Asked(k + 1, id))
    BY <1>2 DEF Asked
  <2>3. \A r \in cardReq' : Known(r, id)' => Known(r, id)
    BY <1>10 DEF Known
  <2>4. \A u \in Thread : Making(u, id)' => Making(u, id)
    BY <1>7
  <2>5. \A k \in DOMAIN c2h' : k \in Int /\ (Gone(k, id)' => Gone(k + 0, id))
    BY <1>6
  <2> QED
    BY <1>8, <2>1, <2>2, <2>3, <2>4, <2>5, PlaceKept
<1> QED
  BY <1>9, <1>10 DEF Ids

\* The card destroys the request that has the id.
LEMMA DestroyedIds ==
    ASSUME Types, Ids, SameDriver, h2c # <<>>, h2c' = Tail(h2c), NEW i \in Id,
           cardReq' = cardReq \ {r \in cardReq : r[1] = i}, {r \in cardReq : r[1] = i} # {},
           c2h' = Append(c2h, [op |-> "infreq_destroyed", id |-> i])
    PROVE  Ids'
<1> DEFINE n == Len(c2h) + 1
           m == [op |-> "infreq_destroyed", id |-> i]
<1>1. h2c \in Seq(Message) /\ c2h \in Seq(Reported) /\ m \in Reported
  BY Reports DEF Types, CardTypes
<1>2. m.op = "infreq_destroyed" /\ m.id = i /\ c2h' = Append(c2h, m)
  OBVIOUS
<1> HIDE DEF m
<1>3. /\ n \in DOMAIN c2h' /\ c2h'[n] = m
      /\ \A k \in DOMAIN c2h' : k \in DOMAIN c2h \/ k = n
      /\ \A k \in DOMAIN c2h : c2h'[k] = c2h[k] /\ k \in Nat
      /\ n \in Nat
  BY <1>1, <1>2, AppendTo
<1>4. PICK r \in cardReq : Known(r, i)
  BY DEF Known
<1>5. OnePlace(i)
  BY DEF Ids
<1>6. Carried(h2c, h2c', {"create"}, 1)
  BY <1>1, CarriedTail
<1>7. \A u \in Thread, id \in Id : Making(u, id)' => Making(u, id)
  BY DEF Making, SameDriver
<1>8. held' = held
  BY DEF SameDriver, SameIds
<1>9. OnePlace(i)'
  <2>1. \A u \in Thread : ~Making(u, i)'
    BY <1>4, <1>5, <1>7 DEF OnePlace
  <2>2. \A k \in DOMAIN h2c' : ~Asked(k, i)'
    <3>1. \A k \in DOMAIN h2c' : Asked(k, i)' => Asked(k + 1, i)
      BY <1>6, AskedBefore
    <3> QED
      BY <1>4, <1>5, <3>1 DEF OnePlace, Asked
  <2>3. \A k \in DOMAIN c2h' : Gone(k, i)' => k = n
    BY <1>3, <1>4, <1>5 DEF OnePlace, Gone
  <2>4. \A q \in cardReq' : ~Known(q, i)'
    BY DEF Known
  <2>5. i \in held'
    BY <1>4, <1>5, <1>8 DEF OnePlace
  <2> QED
    BY <2>1, <2>2, <2>3, <2>4, <2>5 DEF OnePlace
<1>10. ASSUME NEW id \in Id, id # i PROVE OnePlace(id)'
  <2>1. OnePlace(id) /\ 0 \in Int /\ 1 \in Int
    BY DEF Ids
  <2>2. \A k \in DOMAIN h2c' : k \in Int /\ (Asked(k, id)' => Asked(k + 1, id))
    BY <1>6, AskedBefore
  <2>3. \A q \in cardReq' : Known(q, id)' => Known(q, id)
    BY DEF Known
  <2>4. \A u \in Thread : Making(u, id)' => Making(u, id)
    BY <1>7
  <2>5. \A k \in DOMAIN c2h' : k \in Int /\ (Gone(k, id)' => Gone(k + 0, id))
    BY <1>2, <1>3, <1>10 DEF Gone
  <2> QED
    BY <1>8, <2>1, <2>2, <2>3, <2>4, <2>5, PlaceKept
<1> QED
  BY <1>9, <1>10 DEF Ids

\* The response thread gives the id back.
LEMMA FreedIds ==
    ASSUME Types, Ids, SameLocal, c2h # <<>>, Head(c2h).op = "infreq_destroyed", c2h' = Tail(c2h), NEW i \in Id,
           Head(c2h).id = i, held' = held \ {i}
    PROVE  Ids'
<1>1. h2c \in Seq(Message) /\ c2h \in Seq(Reported)
  BY DEF Types, CardTypes
<1>2. /\ Head(c2h) = c2h[1] /\ 1 \in DOMAIN c2h
      /\ \A k \in DOMAIN c2h' : k \in Nat \ {0} /\ k + 1 \in DOMAIN c2h /\ c2h'[k] = c2h[k + 1]
  BY <1>1, TailOf
<1>3. OnePlace(i) /\ Gone(1, i)
  BY <1>2 DEF Ids, Gone
<1>4. OnePlace(i)'
  <2>1. \A u \in Thread : ~Making(u, i)'
    <3>1. \A u \in Thread : ~Making(u, i)
      BY <1>2, <1>3 DEF OnePlace
    <3> QED
      BY <3>1 DEF Making, SameLocal
  <2>2. \A k \in DOMAIN h2c' : ~Asked(k, i)'
    <3>1. \A k \in DOMAIN h2c : ~Asked(k, i)
      BY <1>2, <1>3 DEF OnePlace
    <3> QED
      BY <3>1 DEF Asked, SameLocal
  <2>3. \A r \in cardReq' : ~Known(r, i)'
    <3>1. \A r \in cardReq : ~Known(r, i)
      BY <1>2, <1>3 DEF OnePlace
    <3> QED
      BY <3>1 DEF Known, SameLocal, SameCard
  <2>4. \A k \in DOMAIN c2h' : ~Gone(k, i)'
    <3>1. \A k \in DOMAIN c2h' : Gone(k, i)' => Gone(k + 1, i)
      BY <1>2 DEF Gone
    <3>2. \A k \in DOMAIN c2h' : k + 1 \in DOMAIN c2h /\ k + 1 # 1
      BY <1>2
    <3> QED
      BY <1>2, <1>3, <3>1, <3>2 DEF OnePlace
  <2> QED
    BY <2>1, <2>2, <2>3, <2>4 DEF OnePlace
<1>5. ASSUME NEW id \in Id, id # i PROVE OnePlace(id)'
  <2>1. OnePlace(id) /\ 0 \in Int /\ 1 \in Int /\ (id \in held => id \in held')
    BY <1>5 DEF Ids
  <2>2. \A k \in DOMAIN h2c' : k \in Int /\ (Asked(k, id)' => Asked(k + 0, id))
    BY <1>1 DEF Asked, SameLocal
  <2>3. \A r \in cardReq' : Known(r, id)' => Known(r, id)
    BY DEF Known, SameLocal, SameCard
  <2>4. \A u \in Thread : Making(u, id)' => Making(u, id)
    BY DEF Making, SameLocal
  <2>5. \A k \in DOMAIN c2h' : k \in Int /\ (Gone(k, id)' => Gone(k + 1, id))
    BY <1>2 DEF Gone
  <2> QED
    BY <2>1, <2>2, <2>3, <2>4, <2>5, PlaceKept
<1> QED
  BY <1>4, <1>5 DEF Ids

LEMMA IdsHeld == ASSUME Types, Locking, Ids, [NetNext]_netVars PROVE Ids'
<1>0. /\ thr \in [Thread -> ThreadState] /\ \A t \in Thread : Place(t)
      /\ h2c \in Seq(Message) /\ c2h \in Seq(Reported)
  BY DEF Types, HostTypes, CardTypes
<1> USE DEF SameHost, SameIds, SameCard
<1>1. ASSUME NEW t \in Thread, from_file(t) PROVE Ids'
  <2>1. PICK p, a, g : Moves(t, p, "build", a, g) \/ Returns(t)
    BY <1>1, FromFile
  <2> QED
    BY <1>1, <2>1, FromFile, ThreadIds DEF Returns
<1>2. ASSUME NEW t \in Thread, build_done(t) PROVE Ids'
  BY <1>2, BuildDone, ThreadIds DEF Returns
<1>3. ASSUME NEW t \in Thread, add_test(t) PROVE Ids'
  BY <1>3, AddTest, ThreadIds DEF Returns, Goes
<1>4. ASSUME NEW t \in Thread, lock(t) PROVE Ids'
  <2>1. PICK p, g : p \in {"answered", "send"} /\ Moves(t, p, thr[t].op, thr[t].arg, g)
    BY <1>4, Lock DEF Goes
  <2>2. thr[t].pc = "lock" /\ SameHost /\ h2c' = h2c
    BY <1>4, Lock
  <2>3. \A id \in Id : thr[t].op = "create" /\ thr[t].arg[1] = id => Making(t, id)
    BY <2>2 DEF Making
  <2> QED
    BY <2>1, <2>2, <2>3, ThreadIds
<1>5. ASSUME NEW t \in Thread, send_page(t) PROVE Ids'
  <2>1. thr[t].op \in {"build", "add"} /\ SameHost
    BY <1>5, SendPage
  <2>2. \E p, g : Moves(t, p, thr[t].op, thr[t].arg, g)
    BY <1>0, <1>5, SendPage DEF Goes, Moves
  <2>3. Sending(t)
    BY <1>5, <2>1, SendPage DEF Sending
  <2>4. PageOf(t, n_res(t), n_conf(t)) \in Message /\ PageOf(t, n_res(t), n_conf(t)).op = thr[t].op
    BY <2>3, PageItems
  <2>5. h2c' = h2c \/ \E m \in Message : m.op # "create" /\ h2c' = Append(h2c, m)
    BY <1>5, <2>1, <2>4, SendPage
  <2> QED
    BY <2>1, <2>2, <2>5, ThreadIds
<1>6. ASSUME NEW t \in Thread, wait(t) PROVE Ids'
  BY <1>6, Wait, ThreadIds
<1>7. ASSUME NEW t \in Thread, add_insert(t) PROVE Ids'
  BY <1>7, AddInsert, ThreadIds DEF Returns, Goes
<1>8. ASSUME NEW t \in Thread, add_done(t) PROVE Ids'
  BY <1>8, AddDone, ThreadIds DEF Returns
<1>9. ASSUME NEW t \in Thread, property_send(t) PROVE Ids'
  <2>1. [op |-> "property", by |-> t] \in Message
    BY Messages
  <2> QED
    BY <1>9, <2>1, PropertySend, ThreadIds DEF Returns, Goes
<1>10. ASSUME NEW t \in Thread, property_done(t) PROVE Ids'
  BY <1>10, PropertyDone, ThreadIds DEF Returns
<1>11. ASSUME NEW t \in Thread, create_alloc(t) PROVE Ids'
  <2>1. h2c' = h2c /\ c2h' = c2h /\ cardReq' = cardReq /\ thr[t].pc = "create"
    BY <1>11, CreateAlloc
  <2>2. ASSUME Returns(t), SameIds PROVE Ids'
    BY <2>1, <2>2, ThreadIds DEF Returns
  <2>3. ASSUME NEW id \in Id, alloc(id), Moves(t, "lock", "create", <<id, made + 1>>, thr[t].got) PROVE Ids'
    BY <2>1, <2>3, AllocIds
  <2> QED
    BY <1>11, <2>2, <2>3, CreateAlloc
<1>12. ASSUME NEW t \in Thread, create_send(t) PROVE Ids'
  <2>1. SameHost /\ thr[t].pc = "send" /\ thr[t].op = "create" /\ thr[t].arg \in Requests /\ thr[t].arg[1] \in Id
    BY <1>12, CreateSend DEF Requests
  <2>2. ASSUME Moves(t, "answered", "create", thr[t].arg, Failure("io_error")), h2c' = h2c PROVE Ids'
    BY <2>1, <2>2, ThreadIds
  <2>3. ASSUME Goes(t, "wait"), h2c' = Append(h2c, [op |-> "create", by |-> t, req |-> thr[t].arg]) PROVE Ids'
    <3>1. [op |-> "create", by |-> t, req |-> thr[t].arg] \in Message /\ Making(t, thr[t].arg[1])
      BY <2>1, Messages DEF Making
    <3> QED
      BY <2>1, <2>3, <3>1, SendIds
  <2> QED
    BY <1>12, <2>2, <2>3, CreateSend
<1>13. ASSUME NEW t \in Thread, create_done(t) PROVE Ids'
  BY <1>13, CreateDone, ThreadIds DEF Returns
<1>14. ASSUME NEW t \in Thread, destroy_send(t) PROVE Ids'
  <2>1. thr[t].arg \in Requests
    BY <1>14, DestroySend
  <2>2. [op |-> "destroy", req |-> thr[t].arg] \in Message
    BY <2>1, Messages
  <2> QED
    BY <1>14, <2>2, DestroySend, ThreadIds DEF Goes
<1>15. ASSUME NEW t \in Thread, destroy_remove(t) PROVE Ids'
  BY <1>15, DestroyRemove, ThreadIds DEF Returns
<1>16. ASSUME NEW t \in Thread, destroy_net_send(t) PROVE Ids'
  <2>1. [op |-> "destroy_net"] \in Message
    BY Messages
  <2> QED
    BY <1>16, <2>1, DestroyNetSend, ThreadIds DEF Returns, Goes
<1>17. ASSUME NEW t \in Thread, destroy_net_remove(t) PROVE Ids'
  BY <1>17, DestroyNetRemove, ThreadIds DEF Returns
<1>18. ASSUME NEW t \in Thread, NEW c \in Call, find_network(t, c) PROVE Ids'
  BY <1>18, FindNetwork, ThreadIds DEF Call
<1>19. ASSUME NEW t \in Thread, NEW r \in s_infreqs, find_infreq(t, r) PROVE Ids'
  BY <1>19, FindRequest, ThreadIds
<1>20. CASE process_create_reply
  BY <1>20, ReplyStep, ResponseIds
<1>21. CASE infreq_destroyed
  <2>1. Head(c2h) \in Reported /\ Head(c2h).op = "infreq_destroyed"
    BY <1>0, <1>21, RequestGone, TailOf
  <2>2. Head(c2h).id \in Id
    BY <2>1, ReportedFields
  <2>3. CASE held' = held
    BY <1>21, <2>3, RequestGone, ResponseIds
  <2>4. CASE free(Head(c2h).id)
    <3>1. held' = held \ {Head(c2h).id}
      BY <2>4 DEF free
    <3> QED
      BY <1>21, <2>2, <3>1, RequestGone, FreedIds
  <2> QED
    BY <1>21, <2>3, <2>4, RequestGone
<1>22. CASE devnet_destroyed
  BY <1>22, NetworkGone, ResponseIds
<1>23. CASE critical_event
  BY <1>23, Critical, ResponseIds
<1>24. CASE card_page
  <2>1. \A what \in Answers : ReplyTo(-1, what) \in Reported /\ ReplyTo(-1, what).op = "reply"
    <3>1. Head(h2c).by \in Thread
      BY <1>0, <1>24, CardPage, TailOf, MessageFields
    <3> QED
      BY <3>1, Reports DEF ReplyTo
  <2>2. Head(h2c).op \in {"build", "add"}
    BY <1>24, CardPage
  <2>3. Success(Head(h2c).op) \in Answers /\ Failure(Head(h2c).op) \in Answers
    BY <2>2, Outcomes DEF Call
  <2>4. c2h' = c2h \/ \E m \in Reported : m.op # "infreq_destroyed" /\ c2h' = Append(c2h, m)
    BY <1>24, <2>1, <2>3, CardPage DEF PageKept, PageMade, PageRefused
  <2> QED
    BY <1>24, <2>4, CardPage, CardIds
<1>25. CASE card_asked
  <2>1. h2c # <<>> /\ Head(h2c).op \in {"property", "create"} /\ h2c' = Tail(h2c) /\ SameDriver /\ Head(h2c) \in Message
    BY <1>0, <1>25, CardAsked, TailOf
  <2>2. Head(h2c).by \in Thread /\ (Head(h2c).op = "create" => Head(h2c).req \in Requests /\ Head(h2c).req[1] \in Id)
    BY <2>1, MessageFields DEF Requests
  <2>3. PICK m : /\ c2h' = Append(c2h, m) /\ m \in Reported /\ m.op = "reply"
                 /\ \/ cardReq' = cardReq
                    \/ Head(h2c).op = "create" /\ cardReq' = cardReq \cup {Head(h2c).req}
    <3>1. \A k \in Id \cup {-1}, what \in Answers : ReplyTo(k, what) \in Reported /\ ReplyTo(k, what).op = "reply"
      BY <2>2, Reports DEF ReplyTo
    <3>2. Success(Head(h2c).op) \in Answers /\ Failure(Head(h2c).op) \in Answers
      BY <2>1, Outcomes DEF Call
    <3> QED
      BY <1>25, <2>2, <3>1, <3>2, CardAsked
  <2>4. CASE cardReq' = cardReq
    BY <2>1, <2>3, <2>4, CardIds
  <2>5. CASE Head(h2c).op = "create" /\ cardReq' = cardReq \cup {Head(h2c).req}
    BY <2>1, <2>2, <2>3, <2>5, MadeIds
  <2> QED
    BY <2>3, <2>4, <2>5
<1>26. CASE card_destroys
  <2>1. h2c # <<>> /\ Head(h2c).op = "destroy" /\ h2c' = Tail(h2c) /\ SameDriver /\ Head(h2c) \in Message
    BY <1>0, <1>26, CardDestroys, TailOf
  <2>2. Head(h2c).req[1] \in Id
    BY <2>1, MessageFields DEF Requests
  <2> DEFINE R == {r \in cardReq : r[1] = Head(h2c).req[1]}
  <2>3. cardReq' = cardReq \ R /\ (R # {} => c2h' = Append(c2h, [op |-> "infreq_destroyed", id |-> Head(h2c).req[1]]))
        /\ (R = {} => c2h' = c2h)
    BY <1>26, CardDestroys
  <2>4. CASE R = {}
    <3>1. cardReq' = cardReq /\ c2h' = c2h
      BY <2>3, <2>4
    <3> QED
      BY <2>1, <3>1, CardIds
  <2>5. CASE R # {}
    BY <2>1, <2>2, <2>3, <2>5, DestroyedIds
  <2> QED
    BY <2>4, <2>5
<1>27. CASE card_net_destroy
  BY <1>27, CardNetDestroy, CardIds
<1>28. CASE card_net_gone
  <2>1. [op |-> "devnet_destroyed"] \in Reported
    BY Reports
  <2> QED
    BY <1>28, <2>1, CardNetGone, CardIds
<1>29. CASE card_event
  <2>1. \A e \in {"context", "card"} : [op |-> e] \in Reported
    BY Reports
  <2> QED
    BY <1>29, <2>1, CardEvent, CardIds
<1>30. CASE UNCHANGED netVars
  <2>1. \A t \in Thread, id \in Id : Making(t, id)' => Making(t, id)
    BY <1>30 DEF netVars, Making
  <2> QED
    BY <1>0, <1>30, <2>1, CarriedSame, IdsKept DEF netVars, cardVars, idaVars
<1> QED
  BY <1>1, <1>2, <1>3, <1>4, <1>5, <1>6, <1>7, <1>8, <1>9, <1>10, <1>11, <1>12, <1>13, <1>14, <1>15, <1>16, <1>17,
     <1>18, <1>19, <1>20, <1>21, <1>22, <1>23, <1>24, <1>25, <1>26, <1>27, <1>28, <1>29, <1>30
  DEF NetNext, Do, Begin, Respond, CardWork

-----------------------------------------------------------------------------
(***************************************************************************)
(* What the pages carry                                                    *)
(***************************************************************************)

IsPage(m) == m.op \in {"build", "add"}

\* Where in its command a page starts and ends.
Start(m) == IF m.items[1][1] = "res" THEN m.items[1][2] - 1 ELSE m.num_res + m.items[1][2] - 1
End(m) == Start(m) + Len(m.items)

Proper(m) ==
    /\ Len(m.items) > 0 /\ Start(m) \in Nat /\ End(m) <= m.size /\ m.num_res <= m.size
    /\ m.first <=> Start(m) = 0
    /\ \A k \in 1 .. Len(m.items) : m.items[k] = Entry(m.num_res, Start(m) + k)

\* n is the page after m, of the same command or of the next one.
Follows(m, n) == n.first \/ (n.op = m.op /\ n.num_res = m.num_res /\ n.size = m.size /\ Start(n) = End(m))

\* c has the first s items of a command with n resources.
Chained(c, n, s) == Len(c) = s /\ \A i \in 1 .. s : c[i] = Entry(n, i)

\* t has sent its command up to the end of m.
LastOf(t, m) ==
    /\ m.op = thr[t].op /\ m.num_res = thr[t].arg[1] /\ m.size = thr[t].arg[1] + thr[t].arg[2]
    /\ End(m) = sent[1] + sent[2]

PageAt(k) == k \in DOMAIN h2c /\ IsPage(h2c[k])
NoPage(i, j) == \A k \in DOMAIN h2c : i < k /\ k < j => ~PageAt(k)
NoPageBefore(j) == \A k \in DOMAIN h2c : k < j => ~PageAt(k)
NoPageAfter(i) == \A k \in DOMAIN h2c : i < k => ~PageAt(k)

\* The pages continue what the card has, one after the other, and t continues the pages.
Linked == \A j, k \in DOMAIN h2c : PageAt(j) /\ PageAt(k) /\ j < k /\ NoPage(j, k) => Follows(h2c[j], h2c[k])
Continuing ==
    \A k \in DOMAIN h2c :
        PageAt(k) /\ NoPageBefore(k) => h2c[k].first \/ Chained(chain, h2c[k].num_res, Start(h2c[k]))
Continued(t) ==
    /\ \A k \in DOMAIN h2c : PageAt(k) /\ NoPageAfter(k) => LastOf(t, h2c[k])
    /\ (\A k \in DOMAIN h2c : ~PageAt(k)) => Chained(chain, thr[t].arg[1], sent[1] + sent[2])

\* The pages on the channel continue what the card has, and the thread that sends
\* continues the pages.
Pages ==
    /\ \A k \in DOMAIN h2c : PageAt(k) => Proper(h2c[k])
    /\ Linked /\ Continuing
    /\ \A t \in Thread : Sending(t) /\ sent # <<0, 0>> => Continued(t)
    /\ "garbled" \notin hist

\* Nothing happens to pages.
LEMMA PagesKept ==
    ASSUME Types, Pages, chain' = chain, "garbled" \in hist' => "garbled" \in hist,
           h2c' = h2c \/ \E m \in Message : ~IsPage(m) /\ h2c' = Append(h2c, m),
           \A t \in Thread : Sending(t)' /\ sent' # <<0, 0>> => Sending(t) /\ sent' = sent /\ thr'[t] = thr[t]
    PROVE  Pages'
<1>1. h2c \in Seq(Message)
  BY DEF Types, CardTypes
<1>2. /\ \A k : PageAt(k)' <=> PageAt(k)
      /\ \A k : PageAt(k) => h2c'[k] = h2c[k]
  <2>1. CASE h2c' = h2c
    BY <2>1 DEF PageAt
  <2>2. ASSUME NEW m \in Message, ~IsPage(m), h2c' = Append(h2c, m) PROVE <1>2!:
    <3>1. /\ h2c'[Len(h2c) + 1] = m
          /\ \A i \in DOMAIN h2c : i \in DOMAIN h2c' /\ h2c'[i] = h2c[i]
          /\ \A i \in DOMAIN h2c' : i \in DOMAIN h2c \/ i = Len(h2c) + 1
      BY <1>1, <2>2, AppendTo
    <3> QED
      BY <2>2, <3>1 DEF PageAt
  <2> QED
    BY <2>1, <2>2
<1>3. \A k : PageAt(k) => k \in DOMAIN h2c /\ k \in DOMAIN h2c'
  BY <1>2 DEF PageAt
<1>4. /\ \A i, j : NoPage(i, j)' => NoPage(i, j)
      /\ \A i : (NoPageBefore(i)' => NoPageBefore(i)) /\ (NoPageAfter(i)' => NoPageAfter(i))
  BY <1>2, <1>3 DEF NoPage, NoPageBefore, NoPageAfter
<1>5. \A k \in DOMAIN h2c' : PageAt(k)' => Proper(h2c'[k])
  BY <1>2, <1>3 DEF Pages
<1>6. \A j, k \in DOMAIN h2c' : PageAt(j)' /\ PageAt(k)' /\ j < k /\ NoPage(j, k)' => Follows(h2c'[j], h2c'[k])
  BY <1>2, <1>3, <1>4 DEF Pages, Linked
<1>7. \A k \in DOMAIN h2c' : PageAt(k)' /\ NoPageBefore(k)' => h2c'[k].first \/ Chained(chain', h2c'[k].num_res, Start(h2c'[k]))
  BY <1>2, <1>3, <1>4 DEF Pages, Continuing, Continued
<1>8. ASSUME NEW t \in Thread, Sending(t)', sent' # <<0, 0>>
      PROVE  Continued(t)'
  <2>1. Sending(t) /\ sent' = sent /\ thr'[t] = thr[t]
    BY <1>8
  <2>2. \A k \in DOMAIN h2c' : PageAt(k)' /\ NoPageAfter(k)' => LastOf(t, h2c[k])'
    BY <1>2, <1>3, <1>4, <1>8, <2>1 DEF Pages, Continued, LastOf
  <2>3. (\A k \in DOMAIN h2c' : ~PageAt(k)') => Chained(chain', thr'[t].arg[1], sent'[1] + sent'[2])
    BY <1>2, <1>3, <1>8, <2>1 DEF Pages, Continuing, Continued
  <2> QED
    BY <2>2, <2>3 DEF Continued
<1>9. Linked' /\ Continuing'
  BY <1>6, <1>7 DEF Linked, Continuing
<1> QED
  BY <1>5, <1>8, <1>9 DEF Pages

\* The card takes a message that is not a page.
LEMMA PagesPassed ==
    ASSUME Types, Pages, h2c # <<>>, ~IsPage(Head(h2c)), h2c' = Tail(h2c), chain' = chain,
           "garbled" \in hist' => "garbled" \in hist, thr' = thr, sent' = sent
    PROVE  Pages'
<1>1. h2c \in Seq(Message)
  BY DEF Types, CardTypes
<1>2. /\ 1 \in DOMAIN h2c /\ Head(h2c) = h2c[1]
      /\ \A i \in DOMAIN h2c' : i \in Nat \ {0} /\ i + 1 \in DOMAIN h2c /\ h2c'[i] = h2c[i + 1]
      /\ \A i \in DOMAIN h2c : i \in Nat \ {0} /\ (i # 1 => i - 1 \in DOMAIN h2c' /\ h2c'[i - 1] = h2c[i])
  BY <1>1, TailOf
<1>3. \A k \in DOMAIN h2c' : PageAt(k)' => PageAt(k + 1)
  BY <1>2 DEF PageAt
<1>4. \A k \in DOMAIN h2c : PageAt(k) => k - 1 \in DOMAIN h2c' /\ PageAt(k - 1)' /\ k - 1 \in Nat \ {0}
  BY <1>2 DEF PageAt
<1>5. /\ \A i, j \in DOMAIN h2c' : NoPage(i, j)' => NoPage(i + 1, j + 1)
      /\ \A i \in DOMAIN h2c' : (NoPageBefore(i)' => NoPageBefore(i + 1)) /\ (NoPageAfter(i)' => NoPageAfter(i + 1))
  <2>1. \A i, j \in DOMAIN h2c', k \in DOMAIN h2c : i + 1 < k /\ k < j + 1 => i < k - 1 /\ k - 1 < j
    BY <1>2
  <2>2. \A i \in DOMAIN h2c', k \in DOMAIN h2c : (k < i + 1 => k - 1 < i) /\ (i + 1 < k => i < k - 1)
    BY <1>2
  <2> QED
    BY <1>2, <1>4, <2>1, <2>2 DEF NoPage, NoPageBefore, NoPageAfter
<1>6. \A k \in DOMAIN h2c' : PageAt(k)' => Proper(h2c'[k])
  BY <1>2, <1>3 DEF Pages
<1>7. \A j, k \in DOMAIN h2c' : PageAt(j)' /\ PageAt(k)' /\ j < k /\ NoPage(j, k)' => Follows(h2c'[j], h2c'[k])
  <2>1. \A j, k \in DOMAIN h2c' : j < k => j + 1 < k + 1
    BY <1>2
  <2> QED
    BY <1>2, <1>3, <1>5, <2>1 DEF Pages, Linked
<1>8. \A k \in DOMAIN h2c' : PageAt(k)' /\ NoPageBefore(k)' => h2c'[k].first \/ Chained(chain', h2c'[k].num_res, Start(h2c'[k]))
  BY <1>2, <1>3, <1>5 DEF Pages, Continuing, Continued
<1>9. ASSUME NEW t \in Thread, Sending(t)', sent' # <<0, 0>>
      PROVE  Continued(t)'
  <2>1. Sending(t)
    BY <1>9 DEF Sending
  <2>2. \A k \in DOMAIN h2c' : PageAt(k)' /\ NoPageAfter(k)' => LastOf(t, h2c[k])'
    BY <1>2, <1>3, <1>5, <1>9, <2>1 DEF Pages, Continued, LastOf
  <2>3. (\A k \in DOMAIN h2c' : ~PageAt(k)') => \A k \in DOMAIN h2c : ~PageAt(k)
    BY <1>4
  <2>4. (\A k \in DOMAIN h2c' : ~PageAt(k)') => Chained(chain', thr'[t].arg[1], sent'[1] + sent'[2])
    BY <1>9, <2>1, <2>3 DEF Pages, Continuing, Continued
  <2> QED
    BY <2>2, <2>4 DEF Continued
<1>10. Linked' /\ Continuing'
  BY <1>7, <1>8 DEF Linked, Continuing
<1> QED
  BY <1>6, <1>9, <1>10 DEF Pages

LEMMA StartOf ==
    ASSUME NEW m, NEW s \in Nat, m.num_res \in Nat, m.items[1] = Entry(m.num_res, s + 1)
    PROVE  Start(m) = s
<1>1. CASE s + 1 <= m.num_res
  BY <1>1 DEF Start, Entry
<1>2. CASE ~(s + 1 <= m.num_res)
  <2>1. m.items[1] = <<"conf", (s + 1) - m.num_res>>
    BY <1>2 DEF Entry
  <2>2. m.items[1][1] # "res" /\ m.items[1][2] = (s + 1) - m.num_res
    BY <2>1
  <2> QED
    BY <2>2 DEF Start
<1> QED
  BY <1>1, <1>2

\* A page that is sent continues the command from where it is.
LEMMA NextPage ==
    ASSUME Types, Locking, NEW t \in Thread, Sending(t), NEW m, m = PageOf(t, n_res(t), n_conf(t))
    PROVE  /\ m \in Message /\ IsPage(m) /\ Proper(m) /\ Start(m) = sent[1] + sent[2]
           /\ m.op = thr[t].op /\ m.num_res = thr[t].arg[1] /\ m.size = thr[t].arg[1] + thr[t].arg[2]
           /\ End(m) = Sent(t)[1] + Sent(t)[2] /\ (m.first <=> sent = <<0, 0>>) /\ m.by = t
<1> DEFINE a1 == thr[t].arg[1]
           a2 == thr[t].arg[2]
           s1 == sent[1]
           s2 == sent[2]
           r == n_res(t)
           c == n_conf(t)
<1>1. /\ a1 \in Nat /\ a2 \in Nat /\ s1 \in Nat /\ s2 \in Nat /\ r \in Nat /\ c \in Nat /\ r + c > 0
      /\ s1 + r <= a1 /\ s2 + c <= a2 /\ sent = <<s1, s2>>
  BY PageSize
<1>2. Sent(t)[1] = s1 + r /\ Sent(t)[2] = s2 + c
  BY PageSent
<1>3. /\ m \in Message /\ m.op = thr[t].op /\ m.by = t /\ (m.first <=> sent = <<0, 0>>)
      /\ m.num_res = a1 /\ m.size = a1 + a2
      /\ m.items \in Seq(Item) /\ Len(m.items) = r + c
      /\ \A k \in 1 .. Len(m.items) : m.items[k] = Entry(a1, s1 + s2 + k)
  BY PageItems
<1>4. IsPage(m)
  BY <1>3 DEF Sending, IsPage
<1> HIDE DEF a1, a2, s1, s2, r, c
<1>5. 1 \in 1 .. Len(m.items) /\ s1 + s2 \in Nat
  BY <1>1, <1>3
<1>6. Start(m) = s1 + s2
  <2>1. m.items[1] = Entry(m.num_res, (s1 + s2) + 1)
    BY <1>3, <1>5
  <2> QED
    BY <1>1, <1>3, <1>5, <2>1, StartOf
<1>7. End(m) = (s1 + r) + (s2 + c) /\ End(m) <= a1 + a2
  BY <1>1, <1>3, <1>6 DEF End
<1>8. sent = <<0, 0>> <=> s1 + s2 = 0
  <2>1. s1 + s2 = 0 <=> s1 = 0 /\ s2 = 0
    BY <1>1
  <2> QED
    BY <1>1, <2>1
<1>9. Proper(m)
  BY <1>1, <1>3, <1>5, <1>6, <1>7, <1>8 DEF Proper
<1> QED
  BY <1>2, <1>3, <1>4, <1>6, <1>7, <1>9 DEF a1, a2, s1, s2, r, c

LEMMA PagesSend ==
    ASSUME Types, Locking, Pages, NEW t \in Thread, Sending(t), h2c' = Append(h2c, PageOf(t, n_res(t), n_conf(t))),
           chain' = chain, hist' = hist, sent' = <<0, 0>> \/ (sent' = Sent(t) /\ thr' = thr)
    PROVE  Pages'
<1> DEFINE m == PageOf(t, n_res(t), n_conf(t))
           n == Len(h2c) + 1
<1>1. /\ m \in Message /\ IsPage(m) /\ Proper(m) /\ Start(m) = sent[1] + sent[2]
      /\ m.op = thr[t].op /\ m.num_res = thr[t].arg[1] /\ m.size = thr[t].arg[1] + thr[t].arg[2]
      /\ End(m) = Sent(t)[1] + Sent(t)[2] /\ (m.first <=> sent = <<0, 0>>)
  BY NextPage
<1>2. h2c \in Seq(Message) /\ h2c' = Append(h2c, m)
  BY DEF Types, CardTypes
<1> HIDE DEF m
<1>3. /\ n \in DOMAIN h2c' /\ h2c'[n] = m /\ n \in Nat
      /\ \A i \in DOMAIN h2c : i \in DOMAIN h2c' /\ h2c'[i] = h2c[i] /\ i \in Nat /\ i < n
      /\ \A i \in DOMAIN h2c' : i \in DOMAIN h2c \/ i = n
  BY <1>1, <1>2, AppendTo
<1> HIDE DEF n
<1>4. /\ \A k : PageAt(k)' <=> PageAt(k) \/ k = n
      /\ \A k : PageAt(k) => k \in DOMAIN h2c /\ h2c'[k] = h2c[k] /\ k # n /\ k < n /\ k \in Nat
  BY <1>1, <1>3 DEF PageAt
<1>5. sent # <<0, 0>> => Continued(t)
  BY DEF Pages
<1>6. \A k \in DOMAIN h2c' : PageAt(k)' => Proper(h2c'[k])
  BY <1>1, <1>3, <1>4 DEF Pages
<1>7. Linked'
  <2>1. ASSUME NEW j, NEW k, PageAt(j)', PageAt(k)', j < k, NoPage(j, k)' PROVE Follows(h2c'[j], h2c'[k])
    <3>1. CASE k = n
      <4>1. PageAt(j)
        BY <1>3, <1>4, <2>1, <3>1
      <4>2. NoPageAfter(j)
        BY <1>4, <2>1, <3>1, <4>1 DEF NoPage, NoPageAfter, PageAt
      <4>3. sent # <<0, 0>> => LastOf(t, h2c[j])
        BY <1>4, <1>5, <4>1, <4>2 DEF Continued
      <4>4. sent # <<0, 0>> => Follows(h2c[j], m)
        BY <1>1, <4>3 DEF Follows, LastOf
      <4>5. sent = <<0, 0>> => Follows(h2c[j], m)
        BY <1>1 DEF Follows
      <4> QED
        BY <1>3, <1>4, <3>1, <4>1, <4>4, <4>5
    <3>2. CASE k # n
      <4>1. PageAt(k) /\ k < n /\ k \in Nat
        BY <1>4, <2>1, <3>2
      <4>2. j # n
        BY <1>3, <2>1, <4>1
      <4>3. PageAt(j) /\ NoPage(j, k)
        BY <1>4, <2>1, <4>2 DEF NoPage, PageAt
      <4> QED
        BY <1>4, <2>1, <4>1, <4>3 DEF Pages, Linked
    <3> QED
      BY <3>1, <3>2
  <2> QED
    BY <2>1 DEF Linked
<1>8. Continuing'
  <2>1. ASSUME NEW k, PageAt(k)', NoPageBefore(k)'
        PROVE  h2c'[k].first \/ Chained(chain', h2c'[k].num_res, Start(h2c'[k]))
    <3>1. CASE k = n
      <4>1. \A j \in DOMAIN h2c : ~PageAt(j)
        BY <1>3, <1>4, <2>1, <3>1 DEF NoPageBefore
      <4>2. sent # <<0, 0>> => Chained(chain, thr[t].arg[1], sent[1] + sent[2])
        BY <1>5, <4>1 DEF Continued
      <4> QED
        BY <1>1, <1>3, <3>1, <4>2
    <3>2. CASE k # n
      <4>1. PageAt(k) /\ NoPageBefore(k)
        BY <1>4, <2>1, <3>2 DEF NoPageBefore, PageAt
      <4> QED
        BY <1>4, <4>1 DEF Pages, Continuing
    <3> QED
      BY <3>1, <3>2
  <2> QED
    BY <2>1 DEF Continuing
<1>9. ASSUME NEW u \in Thread, Sending(u)', sent' # <<0, 0>> PROVE Continued(u)'
  <2>1. sent' = Sent(t) /\ thr' = thr
    BY <1>9
  <2>2. u = t
    BY <1>9, <2>1 DEF Sending, Locking, Inside
  <2>3. ASSUME NEW k \in DOMAIN h2c', PageAt(k)', NoPageAfter(k)' PROVE LastOf(t, h2c[k])'
    <3>1. k = n
      BY <1>3, <1>4, <2>3 DEF NoPageAfter
    <3> QED
      BY <1>1, <1>3, <2>1, <3>1 DEF LastOf
  <2>4. ~ \A k \in DOMAIN h2c' : ~PageAt(k)'
    BY <1>3, <1>4
  <2> QED
    BY <1>3, <2>2, <2>3, <2>4 DEF Continued
<1> QED
  BY <1>6, <1>7, <1>8, <1>9 DEF Pages

\* All the items of a command, one after the other, are the command.
LEMMA WholeCommand ==
    ASSUME NEW n \in Nat, NEW size \in Nat, n <= size, NEW c \in Seq(Item), Chained(c, n, size)
    PROVE  c = Items("res", 0, n) \o Items("conf", 0, size - n)
<1> DEFINE d == Items("res", 0, n)
           e == Items("conf", 0, size - n)
<1>1. d \in Seq(Item) /\ Len(d) = n /\ \A k \in 1 .. n : d[k] = <<"res", 0 + k>>
  BY ItemsAre
<1>2. size - n \in Nat
  OBVIOUS
<1>3. e \in Seq(Item) /\ Len(e) = size - n /\ \A k \in 1 .. size - n : e[k] = <<"conf", 0 + k>>
  BY <1>2, ItemsAre
<1>4. Len(c) = size /\ \A i \in 1 .. size : c[i] = Entry(n, i)
  BY DEF Chained
<1> HIDE DEF d, e
<1>5. d \o e \in Seq(Item) /\ Len(d \o e) = size
  <2>1. d \in Seq(Item) /\ e \in Seq(Item)
    BY <1>1, <1>3
  <2>2. d \o e \in Seq(Item) /\ Len(d \o e) = Len(d) + Len(e)
    BY <2>1
  <2>3. Len(d) = n /\ Len(e) = size - n
    BY <1>1, <1>3
  <2> QED
    BY <2>2, <2>3
<1>6. ASSUME NEW i \in 1 .. size PROVE (d \o e)[i] = c[i]
  <2>1. CASE i <= n
    <3>1. (d \o e)[i] = d[i] /\ i \in 1 .. n
      BY <1>1, <1>3, <2>1
    <3>2. d[i] = <<"res", i>>
      BY <1>1, <3>1
    <3> QED
      BY <1>4, <2>1, <3>1, <3>2 DEF Entry
  <2>2. CASE ~(i <= n)
    <3>1. (d \o e)[i] = e[i - n] /\ i - n \in 1 .. size - n
      BY <1>1, <1>3, <2>2
    <3>2. e[i - n] = <<"conf", i - n>>
      BY <1>3, <3>1
    <3> QED
      BY <1>4, <2>2, <3>1, <3>2 DEF Entry
  <2> QED
    BY <2>1, <2>2
<1>7. c = d \o e
  BY <1>4, <1>5, <1>6, SeqEqual
<1> QED
  BY <1>7 DEF d, e

\* The page that the card takes continues what it has: then it has the command up to the
\* end of the page.
LEMMA TakenPage ==
    ASSUME Types, Pages, card_page, NEW m, m = Head(h2c)
    PROVE  /\ h2c # <<>> /\ m = h2c[1] /\ m \in Message /\ IsPage(m) /\ PageAt(1) /\ NoPageBefore(1) /\ Proper(m)
           /\ Start(m) \in Nat /\ m.size \in Nat /\ m.num_res \in Nat /\ End(m) \in Nat /\ End(m) <= m.size
           /\ Got(m) \in Seq(Item) /\ Len(Got(m)) = End(m) /\ Chained(Got(m), m.num_res, End(m))
           /\ \/ End(m) < m.size /\ chain' = Got(m) /\ hist' = hist
              \/ /\ End(m) = m.size /\ chain' = <<>>
                 /\ "garbled" \in hist' /\ "garbled" \notin hist =>
                        Got(m) # Items("res", 0, m.num_res) \o Items("conf", 0, m.size - m.num_res)
           /\ PageKept(m) <=> End(m) < m.size
<1> DEFINE c == Got(m)
<1>1. /\ h2c # <<>> /\ IsPage(m) /\ h2c' = Tail(h2c) /\ thr' = thr /\ sent' = sent
      /\ h2c \in Seq(Message) /\ chain \in Seq(Item)
  BY CardPage DEF SameDriver, Types, CardTypes, IsPage
<1>2. /\ 1 \in DOMAIN h2c /\ m = h2c[1] /\ m \in Message
      /\ \A i \in DOMAIN h2c' : i \in Nat \ {0} /\ i + 1 \in DOMAIN h2c /\ h2c'[i] = h2c[i + 1]
      /\ \A i \in DOMAIN h2c : i \in Nat \ {0} /\ (i # 1 => i - 1 \in DOMAIN h2c' /\ h2c'[i - 1] = h2c[i])
  BY <1>1, TailOf
<1>3. m.items \in Seq(Item) /\ m.num_res \in Nat /\ m.size \in Nat /\ m.first \in BOOLEAN
  BY <1>1, <1>2, MessageFields DEF IsPage
<1>4. PageAt(1) /\ NoPageBefore(1) /\ Proper(m)
  BY <1>1, <1>2 DEF PageAt, NoPageBefore, Pages
<1>5. Start(m) \in Nat /\ Len(m.items) \in Nat /\ End(m) = Start(m) + Len(m.items) /\ End(m) \in Nat /\ End(m) <= m.size
  BY <1>3, <1>4 DEF Proper, End
<1>6. c \in Seq(Item) /\ Chained(c, m.num_res, End(m))
  <2> DEFINE d == IF m.first THEN <<>> ELSE chain
  <2>1. d \in Seq(Item) /\ Chained(d, m.num_res, Start(m))
    <3>1. CASE m.first
      BY <1>4, <3>1 DEF Chained, Proper
    <3>2. CASE ~m.first
      BY <1>1, <1>2, <1>4, <3>2 DEF Pages, Continuing
    <3> QED
      BY <3>1, <3>2
  <2>2. c = d \o m.items
    BY DEF Got
  <2> HIDE DEF d, c
  <2>3. Len(d) = Start(m) /\ \A i \in 1 .. Start(m) : d[i] = Entry(m.num_res, i)
    BY <2>1 DEF Chained
  <2>4. \A k \in 1 .. Len(m.items) : m.items[k] = Entry(m.num_res, Start(m) + k)
    BY <1>4 DEF Proper
  <2>5. c \in Seq(Item) /\ Len(c) = Start(m) + Len(m.items)
    <3>1. d \in Seq(Item) /\ m.items \in Seq(Item)
      BY <1>3, <2>1
    <3>2. d \o m.items \in Seq(Item) /\ Len(d \o m.items) = Len(d) + Len(m.items)
      BY <3>1
    <3> QED
      BY <2>2, <2>3, <3>2
  <2>6. ASSUME NEW i \in 1 .. End(m) PROVE c[i] = Entry(m.num_res, i)
    <3>1. CASE i <= Start(m)
      <4>1. i \in 1 .. Start(m)
        BY <1>5, <2>6, <3>1
      <4> QED
        BY <1>3, <2>1, <2>2, <2>3, <4>1
    <3>2. CASE ~(i <= Start(m))
      <4>1. i - Start(m) \in 1 .. Len(m.items) /\ Start(m) + (i - Start(m)) = i
        BY <1>5, <2>6, <3>2
      <4>2. c[i] = m.items[i - Start(m)]
        BY <1>3, <1>5, <2>1, <2>2, <2>3, <2>6, <3>2
      <4>3. m.items[i - Start(m)] = Entry(m.num_res, Start(m) + (i - Start(m)))
        BY <2>4, <4>1
      <4> QED
        BY <4>1, <4>2, <4>3
    <3> QED
      BY <3>1, <3>2
  <2> QED
    BY <1>5, <2>5, <2>6 DEF Chained
<1>7. Len(c) = End(m)
  BY <1>6 DEF Chained
<1>8. \/ End(m) < m.size /\ chain' = c /\ hist' = hist
      \/ /\ End(m) = m.size /\ chain' = <<>>
         /\ "garbled" \in hist' /\ "garbled" \notin hist => c # Items("res", 0, m.num_res) \o Items("conf", 0, m.size - m.num_res)
  <2>1. \/ PageKept(m)
        \/ PageLast(m)
    BY CardPage
  <2>2. CASE PageKept(m)
    BY <1>7, <2>2 DEF PageKept
  <2>3. CASE PageLast(m)
    <3>1. End(m) = m.size
      BY <1>3, <1>5, <1>7, <2>3 DEF PageLast
    <3>2. c = Items("res", 0, m.num_res) \o Items("conf", 0, m.size - m.num_res) =>
            hist' = hist \cup {} \cup (IF m.op = "add" /\ cardReq # {} THEN {"late"} ELSE {})
      BY <2>3 DEF PageLast
    <3>3. chain' = <<>>
      BY <2>3 DEF PageLast
    <3> QED
      BY <3>1, <3>2, <3>3
  <2> QED
    BY <2>1, <2>2, <2>3
<1>9. PageKept(m) <=> End(m) < m.size
  <2>1. PageKept(m) \/ PageLast(m)
    BY CardPage
  <2> QED
    BY <1>5, <1>7, <2>1 DEF PageKept, PageLast
<1> QED
  BY <1>1, <1>2, <1>3, <1>4, <1>5, <1>6, <1>7, <1>8, <1>9

\* The card takes a page.
LEMMA PagesTaken ==
    ASSUME Types, Locking, Pages, card_page
    PROVE  Pages'
<1> DEFINE m == Head(h2c)
           c == Got(m)
<1>1. /\ h2c' = Tail(h2c) /\ thr' = thr /\ sent' = sent /\ h2c \in Seq(Message)
  BY CardPage DEF SameDriver, Types, CardTypes
<1>2. /\ h2c # <<>> /\ m = h2c[1] /\ m \in Message /\ IsPage(m) /\ PageAt(1) /\ NoPageBefore(1) /\ Proper(m)
      /\ Start(m) \in Nat /\ m.size \in Nat /\ m.num_res \in Nat /\ End(m) \in Nat /\ End(m) <= m.size
      /\ c \in Seq(Item) /\ Chained(c, m.num_res, End(m))
  BY TakenPage
<1>3. /\ 1 \in DOMAIN h2c
      /\ \A i \in DOMAIN h2c' : i \in Nat \ {0} /\ i + 1 \in DOMAIN h2c /\ h2c'[i] = h2c[i + 1]
      /\ \A i \in DOMAIN h2c : i \in Nat \ {0} /\ (i # 1 => i - 1 \in DOMAIN h2c' /\ h2c'[i - 1] = h2c[i])
  BY <1>1, <1>2, TailOf
<1>4. \/ End(m) < m.size /\ chain' = c /\ hist' = hist
      \/ /\ End(m) = m.size /\ chain' = <<>>
         /\ "garbled" \in hist' /\ "garbled" \notin hist => c # Items("res", 0, m.num_res) \o Items("conf", 0, m.size - m.num_res)
  BY TakenPage
<1>5. "garbled" \notin hist'
  <2>1. CASE End(m) = m.size
    <3>1. m.num_res <= m.size
      BY <1>2 DEF Proper
    <3>2. c = Items("res", 0, m.num_res) \o Items("conf", 0, m.size - m.num_res)
      BY <1>2, <1>3, <2>1, <3>1, WholeCommand
    <3> QED
      BY <1>4, <3>2 DEF Pages
  <2>2. CASE End(m) # m.size
    BY <1>4, <2>2 DEF Pages
  <2> QED
    BY <2>1, <2>2
<1> HIDE DEF m, c
<1>6. \A k \in DOMAIN h2c' : PageAt(k)' => PageAt(k + 1) /\ k + 1 \in DOMAIN h2c
  BY <1>2, <1>3 DEF PageAt
<1>7. \A k \in DOMAIN h2c : PageAt(k) /\ k # 1 => k - 1 \in DOMAIN h2c' /\ PageAt(k - 1)' /\ k - 1 \in Nat \ {0}
  BY <1>2, <1>3 DEF PageAt
<1>8. /\ \A i, j \in DOMAIN h2c' : NoPage(i, j)' => NoPage(i + 1, j + 1)
      /\ \A i \in DOMAIN h2c' : (NoPageBefore(i)' => NoPage(1, i + 1)) /\ (NoPageAfter(i)' => NoPageAfter(i + 1))
  <2>1. \A i, j \in DOMAIN h2c', k \in DOMAIN h2c : i + 1 < k /\ k < j + 1 => i < k - 1 /\ k - 1 < j /\ k # 1
    BY <1>2, <1>3
  <2>2. \A i \in DOMAIN h2c', k \in DOMAIN h2c : (k < i + 1 => k - 1 < i) /\ (i + 1 < k => i < k - 1 /\ k # 1) /\ (1 < k => k # 1)
    BY <1>2, <1>3
  <2>3. \A i, j \in DOMAIN h2c' : NoPage(i, j)' => NoPage(i + 1, j + 1)
    BY <1>7, <2>1 DEF NoPage
  <2>4. \A i \in DOMAIN h2c' : NoPageBefore(i)' => NoPage(1, i + 1)
    BY <1>7, <2>2 DEF NoPage, NoPageBefore
  <2>5. \A i \in DOMAIN h2c' : NoPageAfter(i)' => NoPageAfter(i + 1)
    BY <1>7, <2>2 DEF NoPageAfter
  <2> QED
    BY <2>3, <2>4, <2>5
<1>9. \A k \in DOMAIN h2c' : PageAt(k)' => Proper(h2c'[k])
  BY <1>2, <1>3, <1>6 DEF Pages
<1>10. Linked'
  <2>1. \A j, k \in DOMAIN h2c' : j < k => j + 1 < k + 1
    BY <1>2, <1>3
  <2> QED
    BY <1>2, <1>3, <1>6, <1>8, <2>1 DEF Pages, Linked
<1>11. Continuing'
  <2>1. ASSUME NEW k \in DOMAIN h2c', PageAt(k)', NoPageBefore(k)'
        PROVE  h2c'[k].first \/ Chained(chain', h2c'[k].num_res, Start(h2c'[k]))
    <3> DEFINE q == h2c'[k]
    <3>1. q = h2c[k + 1] /\ PageAt(k + 1) /\ NoPage(1, k + 1) /\ 1 < k + 1 /\ k + 1 \in DOMAIN h2c
      <4>1. q = h2c[k + 1] /\ k + 1 \in DOMAIN h2c /\ k \in Nat \ {0}
        BY <1>3
      <4>2. PageAt(k + 1)
        BY <1>6, <2>1
      <4>3. NoPage(1, k + 1)
        BY <1>8, <2>1
      <4> QED
        BY <4>1, <4>2, <4>3
    <3>2. Follows(m, q)
      BY <1>2, <1>3, <3>1 DEF Pages, Linked
    <3>3. CASE End(m) < m.size
      BY <1>2, <1>4, <3>2, <3>3 DEF Follows
    <3>4. ASSUME End(m) = m.size, ~q.first PROVE FALSE
      <4>1. q.size = m.size /\ Start(q) = m.size
        BY <3>2, <3>4 DEF Follows
      <4>2. Proper(q) /\ q \in Message /\ IsPage(q)
        <5>1. Proper(q)
          BY <1>9, <2>1
        <5>2. q \in Message /\ IsPage(q)
          BY <1>1, <3>1 DEF PageAt
        <5> QED
          BY <5>1, <5>2
      <4>3. q.items \in Seq(Item) /\ Len(q.items) > 0 /\ End(q) <= q.size /\ Start(q) \in Nat
        BY <4>2, MessageFields DEF Proper, IsPage
      <4>4. Len(q.items) \in Nat /\ End(q) = Start(q) + Len(q.items)
        BY <4>3 DEF End
      <4> QED
        BY <1>2, <4>1, <4>3, <4>4
    <3> QED
      BY <1>4, <3>3, <3>4
  <2> QED
    BY <2>1 DEF Continuing
<1>12. ASSUME NEW t \in Thread, Sending(t)', sent' # <<0, 0>> PROVE Continued(t)'
  <2>1. Sending(t) /\ Continued(t) /\ LeftToSend(t)
    BY <1>1, <1>12 DEF Sending, Pages, Locking
  <2>2. ASSUME NEW k \in DOMAIN h2c', PageAt(k)', NoPageAfter(k)' PROVE LastOf(t, h2c[k])'
    <3>1. h2c'[k] = h2c[k + 1] /\ k + 1 \in DOMAIN h2c
      BY <1>3
    <3>2. PageAt(k + 1) /\ NoPageAfter(k + 1)
      BY <1>6, <1>8, <2>2
    <3>3. LastOf(t, h2c[k + 1])
      BY <2>1, <3>1, <3>2 DEF Continued
    <3> QED
      BY <1>1, <3>1, <3>3 DEF LastOf
  <2>3. ASSUME \A k \in DOMAIN h2c' : ~PageAt(k)' PROVE Chained(chain', thr'[t].arg[1], sent'[1] + sent'[2])
    <3>1. NoPageAfter(1)
      BY <1>2, <1>3, <1>7, <2>3 DEF NoPageAfter
    <3>2. LastOf(t, m)
      BY <1>2, <1>3, <2>1, <3>1 DEF Continued
    <3>3. End(m) < m.size
      BY <2>1, <3>2 DEF LastOf, LeftToSend
    <3> QED
      BY <1>1, <1>2, <1>4, <3>2, <3>3 DEF LastOf
  <2> QED
    BY <2>2, <2>3 DEF Continued
<1> QED
  BY <1>5, <1>9, <1>10, <1>11, <1>12 DEF Pages

\* A thread step that sends no page.
LEMMA ThreadPages ==
    ASSUME Types, Pages, NEW t \in Thread, NEW p, NEW o, NEW a, NEW g, Moves(t, p, o, a, g),
           sent' = <<0, 0>> \/ (sent' = sent /\ ~(p = "send" /\ o \in {"build", "add"})),
           SameCard, "garbled" \in hist' => "garbled" \in hist,
           h2c' = h2c \/ \E m \in Message : ~IsPage(m) /\ h2c' = Append(h2c, m)
    PROVE  Pages'
<1>1. ASSUME NEW u \in Thread, Sending(u)', sent' # <<0, 0>> PROVE Sending(u) /\ sent' = sent /\ thr'[u] = thr[u]
  <2>1. u # t
    BY <1>1 DEF Sending, Moves
  <2> QED
    BY <1>1, <2>1 DEF Sending, Moves
<1> QED
  BY <1>1, PagesKept DEF SameCard

LEMMA PagesHeld == ASSUME Types, Locking, Pages, [NetNext]_netVars PROVE Pages'
<1>0. /\ thr \in [Thread -> ThreadState] /\ \A t \in Thread : Place(t)
      /\ h2c \in Seq(Message) /\ c2h \in Seq(Reported)
  BY DEF Types, HostTypes, CardTypes
<1> USE DEF SameHost
<1>1. ASSUME NEW t \in Thread, from_file(t) PROVE Pages'
  <2>1. CASE Returns(t)
    BY <1>1, <2>1, FromFile, ThreadPages DEF Returns
  <2>2. CASE ~Returns(t)
    <3>1. PICK to \in {"lock", "file1"}, k \in Nat \ {0} : Moves(t, to, "build", <<k, 1>>, thr[t].got)
      BY <1>1, <2>2, FromFile
    <3> QED
      BY <1>1, <3>1, FromFile, ThreadPages
  <2> QED
    BY <2>1, <2>2
<1>2. ASSUME NEW t \in Thread, build_done(t) PROVE Pages'
  BY <1>2, BuildDone, ThreadPages DEF Returns
<1>3. ASSUME NEW t \in Thread, add_test(t) PROVE Pages'
  BY <1>3, AddTest, ThreadPages DEF Returns, Goes
<1>4. ASSUME NEW t \in Thread, lock(t) PROVE Pages'
  <2>1. sent' = <<0, 0>>
    BY <1>4, Lock, NothingSent
  <2>2. \E p, o, a, g : Moves(t, p, o, a, g)
    BY <1>4, Lock DEF Goes
  <2> QED
    BY <1>4, <2>1, <2>2, Lock, ThreadPages
<1>5. ASSUME NEW t \in Thread, send_page(t) PROVE Pages'
  <2>1. Sending(t) /\ SameHost /\ SameCard /\ hist' = hist
    BY <1>5, SendPage DEF Sending
  <2>2. CASE h2c' = Append(h2c, PageOf(t, n_res(t), n_conf(t))) /\ (sent' = <<0, 0>> \/ (sent' = Sent(t) /\ thr' = thr))
    BY <2>1, <2>2, PagesSend DEF SameCard
  <2>3. CASE h2c' = h2c /\ sent' = <<0, 0>> /\ Moves(t, "answered", thr[t].op, thr[t].arg, Failure("io_error"))
    BY <2>1, <2>3, ThreadPages
  <2> QED
    BY <1>5, <2>2, <2>3, SendPage
<1>6. ASSUME NEW t \in Thread, wait(t) PROVE Pages'
  BY <1>6, Wait, ThreadPages
<1>7. ASSUME NEW t \in Thread, add_insert(t) PROVE Pages'
  BY <1>7, AddInsert, ThreadPages DEF Returns, Goes
<1>8. ASSUME NEW t \in Thread, add_done(t) PROVE Pages'
  BY <1>8, AddDone, ThreadPages DEF Returns
<1>9. ASSUME NEW t \in Thread, property_send(t) PROVE Pages'
  <2>1. [op |-> "property", by |-> t] \in Message /\ ~IsPage([op |-> "property", by |-> t])
    BY Messages DEF IsPage
  <2> QED
    BY <1>9, <2>1, PropertySend, ThreadPages DEF Returns, Goes
<1>10. ASSUME NEW t \in Thread, property_done(t) PROVE Pages'
  BY <1>10, PropertyDone, ThreadPages DEF Returns
<1>11. ASSUME NEW t \in Thread, create_alloc(t) PROVE Pages'
  <2>1. CASE Returns(t)
    BY <1>11, <2>1, CreateAlloc, ThreadPages DEF Returns
  <2>2. CASE ~Returns(t)
    <3>1. PICK id \in Id : Moves(t, "lock", "create", <<id, made + 1>>, thr[t].got)
      BY <1>11, <2>2, CreateAlloc
    <3>2. "garbled" \in hist' => "garbled" \in hist
      BY <1>11, CreateAlloc
    <3> QED
      BY <1>11, <3>1, <3>2, CreateAlloc, ThreadPages
  <2> QED
    BY <2>1, <2>2
<1>12. ASSUME NEW t \in Thread, create_send(t) PROVE Pages'
  <2>1. thr[t].arg \in Requests
    BY <1>12, CreateSend
  <2>2. /\ [op |-> "create", by |-> t, req |-> thr[t].arg] \in Message
        /\ ~IsPage([op |-> "create", by |-> t, req |-> thr[t].arg])
    BY <2>1, Messages DEF IsPage
  <2> QED
    BY <1>12, <2>2, CreateSend, ThreadPages DEF Goes
<1>13. ASSUME NEW t \in Thread, create_done(t) PROVE Pages'
  BY <1>13, CreateDone, ThreadPages DEF Returns
<1>14. ASSUME NEW t \in Thread, destroy_send(t) PROVE Pages'
  <2>1. thr[t].arg \in Requests
    BY <1>14, DestroySend
  <2>2. [op |-> "destroy", req |-> thr[t].arg] \in Message /\ ~IsPage([op |-> "destroy", req |-> thr[t].arg])
    BY <2>1, Messages DEF IsPage
  <2> QED
    BY <1>14, <2>2, DestroySend, ThreadPages DEF Goes
<1>15. ASSUME NEW t \in Thread, destroy_remove(t) PROVE Pages'
  BY <1>15, DestroyRemove, ThreadPages DEF Returns
<1>16. ASSUME NEW t \in Thread, destroy_net_send(t) PROVE Pages'
  <2>1. [op |-> "destroy_net"] \in Message /\ ~IsPage([op |-> "destroy_net"])
    BY Messages DEF IsPage
  <2> QED
    BY <1>16, <2>1, DestroyNetSend, ThreadPages DEF Returns, Goes
<1>17. ASSUME NEW t \in Thread, destroy_net_remove(t) PROVE Pages'
  BY <1>17, DestroyNetRemove, ThreadPages DEF Returns
<1>18. ASSUME NEW t \in Thread, NEW c \in Call, find_network(t, c) PROVE Pages'
  BY <1>18, FindNetwork, ThreadPages DEF Call
<1>19. ASSUME NEW t \in Thread, NEW r \in s_infreqs, find_infreq(t, r) PROVE Pages'
  BY <1>19, FindRequest, ThreadPages
<1>20. CASE Respond
  <2>1. SameLocal
    BY <1>20, ReplyStep, RequestGone, NetworkGone, Critical DEF Respond
  <2>2. \A t \in Thread : Sending(t)' => Sending(t)
    BY <2>1 DEF Sending, SameLocal
  <2> QED
    BY <2>1, <2>2, PagesKept DEF SameLocal, SameCard
<1>21. CASE card_page
  BY <1>21, PagesTaken
<1>22. CASE card_asked
  BY <1>22, CardAsked, PagesPassed DEF SameDriver, IsPage
<1>23. CASE card_destroys
  <2>1. "garbled" \in hist' => "garbled" \in hist
    BY <1>23, CardDestroys
  <2> QED
    BY <1>23, <2>1, CardDestroys, PagesPassed DEF SameDriver, IsPage
<1>24. CASE card_net_destroy
  BY <1>24, CardNetDestroy, PagesPassed DEF SameDriver, IsPage
<1>25. CASE card_net_gone \/ card_event \/ UNCHANGED netVars
  <2>1. thr' = thr /\ sent' = sent /\ h2c' = h2c /\ chain' = chain /\ hist' = hist
    BY <1>25, CardNetGone, CardEvent DEF SameDriver, SameCard, netVars, cardVars
  <2>2. \A t \in Thread : Sending(t)' => Sending(t)
    BY <2>1 DEF Sending
  <2> QED
    BY <2>1, <2>2, PagesKept
<1> QED
  BY <1>1, <1>2, <1>3, <1>4, <1>5, <1>6, <1>7, <1>8, <1>9, <1>10, <1>11, <1>12, <1>13, <1>14, <1>15, <1>16, <1>17,
     <1>18, <1>19, <1>20, <1>21, <1>22, <1>23, <1>24, <1>25 DEF NetNext, Do, Begin, CardWork

-----------------------------------------------------------------------------
(***************************************************************************)
(* The network, before and after it is built                               *)
(***************************************************************************)

Built == m_devres_vec > 0

\* The card has answered the command that builds the network.
Replied ==
    \/ \E k \in DOMAIN c2h : c2h[k].op = "reply"
    \/ DOMAIN m_create_reply # {}
    \/ cardNet = "up"
    \/ \E t \in Thread : thr[t].got.of = "build"

\* Then the command is over,
Over ==
    /\ h2c = <<>>
    /\ \A t \in Thread : thr[t].op = "build" => thr[t].pc \in {"wait", "answered"}

\* and if the network is made, the thread that builds it gets to know.
MadeKnown ==
    /\ \A k \in DOMAIN c2h : c2h[k].op = "reply" => c2h[k].key = -1 /\ c2h[k].what = Success("build")
    /\ \A k \in DOMAIN m_create_reply : k = -1 /\ m_create_reply[k].what = Success("build")
    /\ ~broken =>
          /\ thr[Builder].op = "build"
          /\ thr[Builder].pc = "answered" => thr[Builder].got = Success("build")
          /\ thr[Builder].pc = "wait" => (\E k \in DOMAIN c2h : c2h[k].op = "reply") \/ DOMAIN m_create_reply # {}

\* Only the command that builds it is under way, and there is one.
OneCommand ==
    /\ \A k \in DOMAIN h2c : h2c[k].op = "build"
    /\ \A j, k \in DOMAIN h2c : j < k => ~h2c[k].first
    /\ h2c # <<>> =>
          \A t \in Thread : thr[t].pc \notin {"file0", "file1", "lock"} /\ (thr[t].pc = "send" => sent # <<0, 0>>)
    /\ ~broken => \A k \in DOMAIN h2c :
          End(h2c[k]) = h2c[k].size => thr[Builder].op = "build" /\ thr[Builder].pc = "wait"

Unbuilt ==
    /\ ~s_networks /\ ~netDB /\ s_infreqs = {} /\ cardNet \in {"none", "up"}
    /\ \A t \in Thread : thr[t].op \in {"build", "none"}
    /\ \A k \in DOMAIN c2h : c2h[k].op \in {"reply", "context", "card"}
    /\ OneCommand
    /\ Replied => Over
    /\ cardNet = "up" => MadeKnown

\* A network that is built is in the database until the card has destroyed it, and in the
\* handle map until it is told to.
Ending == cardNet # "up" \/ broken \/ \E k \in DOMAIN h2c : h2c[k].op = "destroy_net"

Kept ==
    /\ \A t \in Thread : thr[t].op # "build"
    /\ \A k \in DOMAIN h2c : h2c[k].op # "build"
    /\ netDB \/ cardNet = "gone" \/ broken
    /\ s_networks \/ Ending
    /\ \A t \in Thread : thr[t].pc = "remove" /\ thr[t].op = "destroy_net" => Ending

Stage ==
    /\ ~Built => Unbuilt
    /\ Built => Kept
    /\ \A k \in DOMAIN c2h : c2h[k].op = "devnet_destroyed" => cardNet = "gone"

\* With the last page of a command the next one, if any, is of another command, and no
\* thread is in the middle of one.
LEMMA LastPage ==
    ASSUME Types, Locking, Pages, PageAt(1), End(h2c[1]) = h2c[1].size
    PROVE  /\ \A k \in DOMAIN h2c : PageAt(k) /\ 1 < k /\ NoPage(1, k) => h2c[k].first
           /\ NoPageAfter(1) => \A t \in Thread : Sending(t) => sent = <<0, 0>>
<1>1. h2c \in Seq(Message) /\ 1 \in DOMAIN h2c
  BY DEF Types, CardTypes, PageAt
<1>2. ASSUME NEW k \in DOMAIN h2c, PageAt(k), 1 < k, NoPage(1, k), ~h2c[k].first PROVE FALSE
  <2> DEFINE q == h2c[k]
             m == h2c[1]
  <2>1. Follows(m, q)
    BY <1>1, <1>2 DEF Pages, Linked
  <2>2. q.size = m.size /\ Start(q) = m.size
    BY <1>2, <2>1 DEF Follows
  <2>3. Proper(q) /\ q \in Message /\ IsPage(q)
    BY <1>1, <1>2 DEF PageAt, Pages
  <2> HIDE DEF q, m
  <2>4. q.items \in Seq(Item) /\ q.size \in Nat /\ Len(q.items) > 0 /\ End(q) <= q.size /\ Start(q) \in Nat
    BY <2>3, MessageFields DEF Proper, IsPage
  <2>5. Len(q.items) \in Nat /\ End(q) = Start(q) + Len(q.items)
    BY <2>4 DEF End
  <2> QED
    BY <2>2, <2>4, <2>5
<1>3. ASSUME NoPageAfter(1), NEW t \in Thread, Sending(t), sent # <<0, 0>> PROVE FALSE
  <2>1. LastOf(t, h2c[1]) /\ LeftToSend(t)
    BY <1>1, <1>3 DEF Pages, Continued, Locking
  <2>2. thr[t].arg \in Nat \X Nat /\ sent \in Nat \X Nat
    BY DEF Types, HostTypes, ThreadState
  <2> QED
    BY <2>1, <2>2 DEF LastOf, LeftToSend
<1> QED
  BY <1>2, <1>3

LEMMA EndingStays ==
    ASSUME Types, Ending, cardNet = "up" \/ cardNet' # "up", broken => broken',
           \/ h2c' = h2c
           \/ \E m \in Message : h2c' = Append(h2c, m)
           \/ h2c # <<>> /\ Head(h2c).op # "destroy_net" /\ h2c' = Tail(h2c)
    PROVE  Ending'
<1>1. h2c \in Seq(Message)
  BY DEF Types, CardTypes
<1>2. ASSUME NEW k \in DOMAIN h2c, h2c[k].op = "destroy_net" PROVE \E j \in DOMAIN h2c' : h2c'[j].op = "destroy_net"
  <2>1. CASE h2c' = h2c
    BY <1>2, <2>1
  <2>2. ASSUME NEW m \in Message, h2c' = Append(h2c, m) PROVE k \in DOMAIN h2c' /\ h2c'[k] = h2c[k]
    BY <1>1, <2>2, AppendTo
  <2>3. ASSUME h2c # <<>>, Head(h2c).op # "destroy_net", h2c' = Tail(h2c)
        PROVE  k - 1 \in DOMAIN h2c' /\ h2c'[k - 1] = h2c[k]
    BY <1>1, <1>2, <2>3, TailOf
  <2> QED
    BY <1>2, <2>1, <2>2, <2>3
<1> QED
  BY <1>2 DEF Ending

\* A step of a thread on a network that is built.
LEMMA ThreadKept ==
    ASSUME Types, Stage, Built, NEW t \in Thread, NEW p, NEW o, NEW a, NEW g, Moves(t, p, o, a, g), o # "build",
           m_devres_vec' \in Nat, m_devres_vec' >= m_devres_vec,
           s_networks' = s_networks \/ Ending, p = "remove" /\ o = "destroy_net" => Ending',
           netDB' = netDB, m_critical_error' = m_critical_error, SameCard, c2h' = c2h,
           h2c' = h2c \/ \E m \in Message : m.op # "build" /\ h2c' = Append(h2c, m)
    PROVE  Stage'
<1>1. m_devres_vec \in Nat /\ h2c \in Seq(Message) /\ Kept
  BY DEF Types, HostTypes, CardTypes, Stage
<1>2. Built'
  BY <1>1 DEF Built
<1>3. \A u \in Thread : thr'[u].op # "build"
  BY <1>1 DEF Kept, Moves
<1>4. \A k \in DOMAIN h2c' : h2c'[k].op # "build"
  <2>1. CASE h2c' = h2c
    BY <1>1, <2>1 DEF Kept
  <2>2. ASSUME NEW m \in Message, m.op # "build", h2c' = Append(h2c, m) PROVE <1>4!:
    BY <1>1, <2>2, AppendTo DEF Kept
  <2> QED
    BY <2>1, <2>2
<1>5. Ending => Ending'
  BY EndingStays DEF SameCard, broken
<1>6. \A u \in Thread : thr'[u].pc = "remove" /\ thr'[u].op = "destroy_net" => Ending'
  BY <1>1, <1>5 DEF Kept, Moves
<1>7. Kept'
  <2>1. netDB' \/ cardNet' = "gone" \/ broken'
    BY <1>1 DEF Kept, SameCard, broken
  <2>2. s_networks' \/ Ending'
    BY <1>1, <1>5 DEF Kept
  <2> QED
    BY <1>3, <1>4, <1>6, <2>1, <2>2 DEF Kept
<1> QED
  BY <1>2, <1>7 DEF Stage, SameCard

\* A step of the response thread.
LEMMA ResponseKept ==
    ASSUME Types, Stage, Built, SameLocal, c2h # <<>>, c2h' = Tail(c2h), s_networks' = s_networks,
           netDB' = netDB \/ cardNet = "gone" \/ broken', broken => broken'
    PROVE  Stage'
<1>1. Kept /\ c2h \in Seq(Reported)
  BY DEF Types, CardTypes, Stage
<1>2. \A k \in DOMAIN c2h' : k + 1 \in DOMAIN c2h /\ c2h'[k] = c2h[k + 1]
  BY <1>1, TailOf
<1>3. Ending => Ending'
  BY EndingStays DEF SameLocal, SameCard
<1>4. Kept'
  BY <1>1, <1>3 DEF Kept, SameLocal, SameCard
<1> QED
  BY <1>2, <1>4 DEF Stage, Built, SameLocal, SameCard

\* A step of the card.
LEMMA CardStepKept ==
    ASSUME Types, Stage, Built, SameDriver,
           h2c' = h2c \/ (h2c # <<>> /\ h2c' = Tail(h2c) /\ (Head(h2c).op # "destroy_net" \/ cardNet' # "up")),
           c2h' = c2h \/ \E m \in Reported : (m.op = "devnet_destroyed" => cardNet' = "gone") /\ c2h' = Append(c2h, m),
           cardNet' = cardNet \/ (cardNet' # "up" /\ cardNet # "gone")
    PROVE  Stage'
<1>1. Kept /\ c2h \in Seq(Reported) /\ h2c \in Seq(Message)
  BY DEF Types, CardTypes, Stage
<1>2. \A k \in DOMAIN c2h' : c2h'[k].op = "devnet_destroyed" => cardNet' = "gone"
  <2>1. CASE c2h' = c2h
    BY <2>1 DEF Stage
  <2>2. ASSUME NEW m \in Reported, m.op = "devnet_destroyed" => cardNet' = "gone", c2h' = Append(c2h, m) PROVE <1>2!:
    <3>1. /\ \A i \in DOMAIN c2h : c2h'[i] = c2h[i]
          /\ \A i \in DOMAIN c2h' : i \in DOMAIN c2h \/ i = Len(c2h) + 1
          /\ c2h'[Len(c2h) + 1] = m
      BY <1>1, <2>2, AppendTo
    <3> QED
      BY <2>2, <3>1 DEF Stage
  <2> QED
    BY <2>1, <2>2
<1>3. \A k \in DOMAIN h2c' : h2c'[k].op # "build"
  <2>1. CASE h2c' = h2c
    BY <1>1, <2>1 DEF Kept
  <2>2. CASE h2c # <<>> /\ h2c' = Tail(h2c)
    <3>1. \A i \in DOMAIN h2c' : i + 1 \in DOMAIN h2c /\ h2c'[i] = h2c[i + 1]
      BY <1>1, <2>2, TailOf
    <3> QED
      BY <1>1, <3>1 DEF Kept
  <2> QED
    BY <2>1, <2>2
<1>3b. broken' = broken
  BY DEF SameDriver, SameContext, broken
<1>4. Ending => Ending'
  <2>1. CASE cardNet' # "up"
    BY <2>1 DEF Ending
  <2>2. CASE cardNet' = "up"
    BY <1>3b, <2>2, EndingStays
  <2> QED
    BY <2>1, <2>2
<1>5. netDB' \/ cardNet' = "gone" \/ broken'
  BY <1>1, <1>3b DEF Kept, SameDriver, SameMaps
<1>6. Kept'
  BY <1>1, <1>3, <1>4, <1>5 DEF Kept, SameDriver, SameMaps
<1> QED
  BY <1>2, <1>6 DEF Stage, Built, SameDriver

\* Before it is built only one thread does anything.
LEMMA OnlyBuilder ==
    ASSUME Types, Stage, ~Built, NEW t \in Thread
    PROVE  /\ m_devres_vec = 0 /\ Unbuilt
           /\ thr[t].pc \in {"idle", "file0", "file1", "lock", "send", "wait", "answered"}
           /\ thr[t].pc # "idle" => thr[t].op = "build" /\ t = Builder
           /\ t # Builder => thr[t].op = "none"
<1>1. m_devres_vec \in Nat /\ thr[t] \in ThreadState /\ Place(t) /\ Unbuilt
  BY DEF Types, HostTypes, Stage
<1>2. thr[t].op \in {"build", "none"}
  BY <1>1 DEF Unbuilt
<1> QED
  BY <1>1, <1>2 DEF Built, Place, Fits, ThreadState, Call

\* A step of the thread that builds the network.
LEMMA BuilderStep ==
    ASSUME Types, Stage, ~Built, NEW t \in Thread, NEW p, NEW o \in {"build", "none"}, NEW a, NEW g, Moves(t, p, o, a, g),
           m_devres_vec' = m_devres_vec, SameMaps, m_critical_error' = m_critical_error, SameCard, c2h' = c2h,
           OneCommand', Replied' => Over', cardNet = "up" => MadeKnown'
    PROVE  Stage'
<1>1. Unbuilt /\ m_devres_vec = 0
  BY OnlyBuilder
<1>2. Unbuilt'
  BY <1>1 DEF Unbuilt, SameMaps, SameCard, Moves
<1> QED
  BY <1>1, <1>2 DEF Stage, Built, SameCard

\* The steps before the first page.
LEMMA EarlyStep ==
    ASSUME Types, Stage, ~Built, NEW t \in Thread, thr[t].pc \in {"file0", "file1", "lock"},
           NEW p, NEW o \in {"build", "none"}, NEW a, NEW g, Moves(t, p, o, a, g),
           g = thr[t].got \/ g.of # "build", SameHost, h2c' = h2c
    PROVE  Stage'
<1>1. Unbuilt /\ thr[t].op = "build"
  BY OnlyBuilder
<1>2. h2c = <<>>
  BY <1>1 DEF Unbuilt, OneCommand
<1>3. ~Replied
  BY <1>1 DEF Unbuilt, Over
<1>4. OneCommand'
  BY <1>2 DEF OneCommand
<1>5. ~Replied'
  BY <1>3 DEF Replied, SameHost, SameContext, SameCard, Moves
<1>6. cardNet # "up"
  BY <1>3 DEF Replied
<1> QED
  BY <1>4, <1>5, <1>6, BuilderStep DEF SameHost, SameContext

LEMMA PageBuilds ==
    ASSUME Types, Locking, Pages, Stage, ~Built, NEW t \in Thread, send_page(t)
    PROVE  Stage'
<1>1. Unbuilt /\ thr[t].pc = "send" /\ thr[t].op = "build" /\ t = Builder /\ SameHost /\ Sending(t)
  BY OnlyBuilder, SendPage DEF Sending
<1>2. ~Replied /\ cardNet # "up"
  BY <1>1 DEF Unbuilt, Over, Replied
<1>3. \A k \in DOMAIN h2c : broken \/ End(h2c[k]) # h2c[k].size
  BY <1>1 DEF Unbuilt, OneCommand
<1>4. \A u \in Thread : u # t => thr[u].pc = "idle"
  BY <1>1, OnlyBuilder
<1>5. PICK p, g :
          /\ p \in {"send", "wait", "answered"}
          /\ Moves(t, p, "build", thr[t].arg, g) /\ (g = thr[t].got \/ g.of # "build")
          /\ \/ p = "answered" /\ h2c' = h2c
             \/ /\ p # "answered" /\ h2c' = Append(h2c, PageOf(t, n_res(t), n_conf(t)))
                /\ IF p = "send" THEN Sent(t) # thr[t].arg /\ sent' = Sent(t) ELSE Sent(t) = thr[t].arg
  <2>1. CASE thr' = thr /\ Sent(t) # thr[t].arg /\ sent' = Sent(t) /\ h2c' = Append(h2c, PageOf(t, n_res(t), n_conf(t)))
    <3>1. Moves(t, "send", "build", thr[t].arg, thr[t].got)
      BY <1>1, <2>1 DEF Moves, Types, HostTypes
    <3> QED
      BY <2>1, <3>1
  <2>2. CASE Goes(t, "wait") /\ Sent(t) = thr[t].arg /\ h2c' = Append(h2c, PageOf(t, n_res(t), n_conf(t)))
    BY <1>1, <2>2 DEF Goes
  <2>3. CASE Moves(t, "answered", thr[t].op, thr[t].arg, Failure("io_error")) /\ h2c' = h2c
    BY <1>1, <2>3 DEF Failure
  <2> QED
    BY <2>1, <2>2, <2>3, SendPage
<1>6. /\ p \in {"send", "wait", "answered"} /\ thr'[t].pc = p /\ thr'[t].op = "build"
      /\ \A u \in Thread : u # t => thr'[u].pc = "idle"
  BY <1>4, <1>5 DEF Moves
<1>7. ~Replied'
  BY <1>1, <1>2, <1>5 DEF Replied, SameHost, SameContext, SameCard, Moves
<1>8. OneCommand'
  <2>1. CASE p = "answered" /\ h2c' = h2c
    <3>1. broken' = broken
      BY <1>1 DEF SameHost, SameContext, broken
    <3> QED
      BY <1>1, <1>3, <1>6, <2>1, <3>1 DEF Unbuilt, OneCommand
  <2>2. CASE p # "answered"
    <3> DEFINE m == PageOf(t, n_res(t), n_conf(t))
               n == Len(h2c) + 1
    <3>1. /\ m \in Message /\ m.op = "build" /\ (m.first <=> sent = <<0, 0>>)
          /\ m.size = thr[t].arg[1] + thr[t].arg[2] /\ End(m) = Sent(t)[1] + Sent(t)[2]
      BY <1>1, NextPage
    <3>2. h2c \in Seq(Message) /\ h2c' = Append(h2c, m)
      BY <1>5, <2>2 DEF Types, CardTypes
    <3> HIDE DEF m
    <3>3. /\ h2c'[n] = m /\ n \in Nat
          /\ \A i \in DOMAIN h2c : h2c'[i] = h2c[i] /\ i \in Nat /\ i < n
          /\ \A i \in DOMAIN h2c' : i \in DOMAIN h2c \/ i = n
      BY <3>1, <3>2, AppendTo
    <3> HIDE DEF n
    <3>4. \A k \in DOMAIN h2c' : h2c'[k].op = "build"
      BY <1>1, <3>1, <3>3 DEF Unbuilt, OneCommand
    <3>5. ASSUME NEW j \in DOMAIN h2c', NEW k \in DOMAIN h2c', j < k PROVE ~h2c'[k].first
      <4>1. CASE k = n
        <5>1. j \in DOMAIN h2c
          BY <3>3, <3>5, <4>1
        <5>2. sent # <<0, 0>>
          BY <1>1, <5>1 DEF Unbuilt, OneCommand
        <5> QED
          BY <3>1, <3>3, <4>1, <5>2
      <4>2. CASE k # n
        <5>1. k \in DOMAIN h2c /\ k \in Nat /\ k < n
          BY <3>3, <4>2
        <5>2. j \in DOMAIN h2c
          BY <3>3, <3>5, <5>1
        <5> QED
          BY <1>1, <3>3, <3>5, <5>1, <5>2 DEF Unbuilt, OneCommand
      <4> QED
        BY <4>1, <4>2
    <3>6. ASSUME NEW u \in Thread PROVE thr'[u].pc \notin {"file0", "file1", "lock"} /\ (thr'[u].pc = "send" => sent' # <<0, 0>>)
      <4>1. p = "send" => sent' # <<0, 0>>
        <5>1. Sent(t)[1] + Sent(t)[2] > 0
          BY <1>1, PageSent
        <5> QED
          BY <1>5, <2>2, <5>1
      <4> QED
        BY <1>6, <4>1
    <3>7. ASSUME ~broken', NEW k \in DOMAIN h2c', End(h2c'[k]) = h2c'[k].size
          PROVE  thr'[Builder].op = "build" /\ thr'[Builder].pc = "wait"
      <4>1. k = n
        BY <1>1, <1>3, <3>3, <3>7 DEF SameHost, SameContext, broken
      <4>2. Sent(t)[1] + Sent(t)[2] = thr[t].arg[1] + thr[t].arg[2]
        BY <3>1, <3>3, <3>7, <4>1
      <4>3. /\ Sent(t) \in Nat \X Nat /\ thr[t].arg \in Nat \X Nat
            /\ Sent(t) # thr[t].arg => Sent(t)[1] + Sent(t)[2] < thr[t].arg[1] + thr[t].arg[2]
        BY <1>1, PageSent, PageSize
      <4>4. Sent(t) = thr[t].arg
        BY <4>2, <4>3
      <4> QED
        BY <1>1, <1>5, <1>6, <2>2, <4>4
    <3> QED
      BY <3>4, <3>5, <3>6, <3>7 DEF OneCommand
  <2> QED
    BY <1>5, <2>1, <2>2
<1> QED
  BY <1>1, <1>2, <1>5, <1>7, <1>8, BuilderStep DEF SameHost, SameContext

LEMMA WaitBuilds ==
    ASSUME Types, Stage, ~Built, NEW t \in Thread, wait(t)
    PROVE  Stage'
<1>1. /\ Unbuilt /\ thr[t].pc = "wait" /\ thr[t].op = "build" /\ t = Builder
      /\ SameMaps /\ SameCard /\ c2h' = c2h /\ h2c' = h2c /\ m_devres_vec' = m_devres_vec
      /\ m_critical_error' = m_critical_error /\ sent' = sent
  BY OnlyBuilder, Wait
<1>2. Key(t) = -1
  BY <1>1 DEF Key
<1>3. ASSUME broken, Moves(t, "answered", thr[t].op, thr[t].arg, Failure("broken")), m_create_reply' = m_create_reply
      PROVE  Stage'
  <2>1. Failure("broken").of # "build" /\ broken'
    BY <1>1, <1>3 DEF Failure, broken
  <2>2. Replied' => Replied
    BY <1>1, <1>3, <2>1 DEF Replied, SameCard, Moves
  <2>3. Replied' => Over'
    BY <1>1, <1>3, <2>2 DEF Unbuilt, Over, Moves
  <2>4. OneCommand'
    BY <1>1, <1>3, <2>1 DEF Unbuilt, OneCommand, Moves
  <2>5. cardNet = "up" => MadeKnown'
    BY <1>1, <1>3, <2>1 DEF Unbuilt, MadeKnown
  <2> QED
    BY <1>1, <1>3, <2>3, <2>4, <2>5, BuilderStep
<1>4. ASSUME ~broken, -1 \in DOMAIN m_create_reply, Moves(t, "answered", thr[t].op, thr[t].arg, m_create_reply[-1].what),
             m_create_reply' = Erase(m_create_reply, -1)
      PROVE  Stage'
  <2>1. Replied
    BY <1>4 DEF Replied
  <2>2. Over
    BY <1>1, <2>1 DEF Unbuilt
  <2>3. OneCommand'
    BY <1>1, <2>2 DEF Over, OneCommand
  <2>4. Over'
    BY <1>1, <1>4, <2>2 DEF Over, Moves
  <2>5. cardNet = "up" => MadeKnown'
    <3> SUFFICES ASSUME cardNet = "up" PROVE MadeKnown'
      OBVIOUS
    <3>1. MadeKnown
      BY <1>1 DEF Unbuilt
    <3>2. \A k \in DOMAIN c2h' : c2h'[k].op = "reply" => c2h'[k].key = -1 /\ c2h'[k].what = Success("build")
      BY <1>1, <3>1 DEF MadeKnown
    <3>3. \A k \in DOMAIN m_create_reply' : k = -1 /\ m_create_reply'[k].what = Success("build")
      BY <1>4, <3>1 DEF MadeKnown, Erase
    <3>4. thr'[Builder].op = "build" /\ thr'[Builder].pc = "answered" /\ thr'[Builder].got = Success("build")
      BY <1>1, <1>4, <3>1 DEF MadeKnown, Moves
    <3> QED
      BY <3>2, <3>3, <3>4 DEF MadeKnown
  <2> QED
    BY <1>1, <1>4, <2>3, <2>4, <2>5, BuilderStep
<1> QED
  BY <1>2, <1>3, <1>4, Wait

LEMMA DoneBuilds ==
    ASSUME Types, Stage, ~Built, NEW t \in Thread, build_done(t)
    PROVE  Stage'
<1>1. /\ Unbuilt /\ thr[t].pc = "answered" /\ thr[t].op = "build" /\ t = Builder /\ m_devres_vec = 0
      /\ SameContext /\ SameCard /\ c2h' = c2h /\ h2c' = h2c /\ s_infreqs' = s_infreqs /\ reqDB' = reqDB
      /\ Returns(t)
  BY OnlyBuilder, BuildDone
<1>2. \A u \in Thread : thr'[u].op = "none" /\ (thr'[u].got.of # "build" \/ thr'[u] = thr[u])
  BY <1>1, OnlyBuilder DEF Returns, Moves, Failure
<1>3. ASSUME thr[t].got = Success("build"), netDB' = TRUE, s_networks' = TRUE, m_devres_vec' = thr[t].arg[1] PROVE Stage'
  <2>1. Replied
    BY <1>3 DEF Replied, Success
  <2>2. h2c = <<>>
    BY <1>1, <2>1 DEF Unbuilt, Over
  <2>3. thr[t].arg[1] > 0
    BY <1>1 DEF Types, Place, Fits
  <2>4. Kept'
    BY <1>1, <1>2, <1>3, <2>2 DEF Kept
  <2> QED
    BY <1>1, <1>3, <2>3, <2>4 DEF Stage, Built, SameCard
<1>4. ASSUME thr[t].got # Success("build"), netDB' = netDB, s_networks' = s_networks, m_devres_vec' = m_devres_vec PROVE Stage'
  <2>1. Replied' => Replied
    BY <1>1, <1>2 DEF Replied, SameContext, SameCard
  <2>2. Replied' => Over'
    BY <1>1, <1>2, <2>1 DEF Unbuilt, Over
  <2>3. broken \/ \A k \in DOMAIN h2c : End(h2c[k]) # h2c[k].size
    BY <1>1 DEF Unbuilt, OneCommand
  <2>4. OneCommand'
    <3>1. \A u \in Thread : thr'[u].pc \notin {"file0", "file1", "lock", "send"}
      BY <1>1, OnlyBuilder DEF Returns, Moves
    <3> QED
      BY <1>1, <2>3, <3>1 DEF Unbuilt, OneCommand, SameContext, broken
  <2>5. cardNet = "up" => MadeKnown'
    BY <1>1, <1>4 DEF Unbuilt, MadeKnown, SameContext, broken
  <2> QED
    BY <1>1, <1>4, <2>2, <2>4, <2>5, BuilderStep DEF Returns, SameMaps, SameContext
<1> QED
  BY <1>3, <1>4, BuildDone

LEMMA ResponseBuilds ==
    ASSUME Types, Stage, ~Built, Respond
    PROVE  Stage'
<1>1. Unbuilt /\ m_devres_vec = 0
  BY OnlyBuilder, NetworkAssumption
<1>2. c2h \in Seq(Reported)
  BY DEF Types, CardTypes
<1>3. c2h # <<>> => Head(c2h) = c2h[1] /\ 1 \in DOMAIN c2h /\ Head(c2h) \in Reported
  BY <1>2, TailOf
<1>4. SameLocal /\ c2h # <<>> /\ c2h' = Tail(c2h) /\ s_networks' = s_networks /\ s_infreqs' = s_infreqs
  BY ReplyStep, RequestGone, NetworkGone, Critical DEF Respond, SameMaps
<1>5. \A k \in DOMAIN c2h' : k + 1 \in DOMAIN c2h /\ c2h'[k] = c2h[k + 1]
  BY <1>2, <1>4, TailOf
<1>6. \A k \in DOMAIN c2h' : c2h'[k].op \in {"reply", "context", "card"}
  BY <1>1, <1>5 DEF Unbuilt
<1>7. ASSUME ~netDB', broken => broken', Replied' => Replied, cardNet = "up" => MadeKnown'
      PROVE  Stage'
  <2>1. OneCommand'
    BY <1>1, <1>4, <1>7 DEF Unbuilt, OneCommand, SameLocal
  <2>2. Replied' => Over'
    BY <1>1, <1>4, <1>7 DEF Unbuilt, Over, SameLocal
  <2>3. Unbuilt'
    BY <1>1, <1>4, <1>6, <1>7, <2>1, <2>2 DEF Unbuilt, SameLocal, SameCard
  <2>4. ~Built'
    BY <1>1, <1>4 DEF Built, SameLocal
  <2> QED
    BY <1>6, <2>3, <2>4 DEF Stage
<1>8. CASE process_create_reply
  <2>1. /\ Head(c2h).op = "reply" /\ SameMaps /\ m_critical_error' = m_critical_error
        /\ m_create_reply' = Put(m_create_reply, Head(c2h).key, [what |-> Head(c2h).what, by |-> Head(c2h).by])
    BY <1>8, ReplyStep
  <2>2. Replied
    BY <1>3, <1>4, <2>1 DEF Replied
  <2>3. ASSUME cardNet = "up" PROVE MadeKnown'
    <3>1. MadeKnown /\ Head(c2h).key = -1 /\ Head(c2h).what = Success("build")
      BY <1>1, <1>3, <1>4, <2>1, <2>3 DEF Unbuilt, MadeKnown
    <3>2. \A k \in DOMAIN c2h' : c2h'[k].op = "reply" => c2h'[k].key = -1 /\ c2h'[k].what = Success("build")
      BY <1>5, <3>1 DEF MadeKnown
    <3>3. /\ \A k \in DOMAIN m_create_reply' : k = -1 /\ m_create_reply'[k].what = Success("build")
          /\ DOMAIN m_create_reply' # {}
      BY <2>1, <3>1 DEF MadeKnown, Put
    <3> QED
      BY <1>4, <2>1, <3>1, <3>2, <3>3 DEF MadeKnown, SameLocal
  <2> QED
    BY <1>1, <1>7, <2>1, <2>2, <2>3 DEF Unbuilt, SameMaps, broken
<1>9. CASE critical_event
  <2>1. broken' /\ ~netDB' /\ m_create_reply' = m_create_reply
    <3>1. /\ Head(c2h).op \in {"context", "card"} /\ m_create_reply' = m_create_reply
          /\ m_critical_error' = IF broken THEN m_critical_error ELSE Head(c2h).op
          /\ netDB' = FALSE \/ netDB' = netDB
      BY <1>9, Critical
    <3>2. ~netDB'
      BY <1>1, <3>1 DEF Unbuilt
    <3>3. broken'
      BY <3>1 DEF broken
    <3> QED
      BY <3>1, <3>2, <3>3
  <2>2. Replied' => Replied
    BY <1>4, <1>5, <2>1 DEF Replied, SameLocal, SameCard
  <2>3. cardNet = "up" => MadeKnown'
    BY <1>1, <1>5, <2>1 DEF Unbuilt, MadeKnown
  <2> QED
    BY <1>7, <2>1, <2>2, <2>3
<1>10. CASE infreq_destroyed \/ devnet_destroyed
  BY <1>1, <1>3, <1>4, <1>10, RequestGone, NetworkGone DEF Unbuilt
<1> QED
  BY <1>8, <1>9, <1>10 DEF Respond

LEMMA PageTakenBuilds ==
    ASSUME Types, Locking, Pages, Stage, ~Built, card_page
    PROVE  Stage'
<1> DEFINE m == Head(h2c)
<1>1. Unbuilt /\ m_devres_vec = 0
  BY OnlyBuilder, NetworkAssumption
<1>2. /\ h2c # <<>> /\ m = h2c[1] /\ m \in Message /\ PageAt(1) /\ End(m) <= m.size /\ End(m) \in Nat /\ m.size \in Nat
      /\ PageKept(m) <=> End(m) < m.size
  BY TakenPage
<1>3. m.op = "build" /\ SameDriver /\ h2c' = Tail(h2c) /\ h2c \in Seq(Message) /\ c2h \in Seq(Reported) /\ 1 \in DOMAIN h2c
  BY <1>1, <1>2, CardPage DEF Unbuilt, OneCommand, Types, CardTypes, PageAt
<1>4. \/ PageKept(m)
      \/ PageLast(m) /\ PageMade(m)
      \/ PageLast(m) /\ PageRefused(m)
  BY CardPage
<1>5. ~Replied /\ cardNet = "none"
  BY <1>1, <1>2 DEF Unbuilt, Over, Replied
<1> HIDE DEF m
<1>6. \A k \in DOMAIN h2c' : k \in Nat \ {0} /\ k + 1 \in DOMAIN h2c /\ h2c'[k] = h2c[k + 1]
  BY <1>2, <1>3, TailOf
<1>7. OneCommand'
  <2>1. h2c' # <<>> => h2c # <<>>
    BY <1>2
  <2>2. \A j, k \in DOMAIN h2c' : j < k => j + 1 < k + 1
    BY <1>6
  <2>3. thr' = thr /\ sent' = sent /\ m_critical_error' = m_critical_error
    BY <1>3 DEF SameDriver, SameContext
  <2> QED
    BY <1>1, <1>6, <2>1, <2>2, <2>3 DEF Unbuilt, OneCommand, broken
<1>8. ASSUME cardNet' \in {"none", "up"}, Replied' => Over', cardNet' = "up" => MadeKnown',
             \A k \in DOMAIN c2h' : c2h'[k].op \in {"reply", "context", "card"}
      PROVE  Stage'
  <2>1. Unbuilt'
    BY <1>1, <1>3, <1>7, <1>8 DEF Unbuilt, SameDriver, SameMaps
  <2> QED
    BY <1>1, <1>3, <1>8, <2>1 DEF Stage, Built, SameDriver
<1>9. CASE PageKept(m)
  <2>1. c2h' = c2h /\ cardNet' = cardNet
    BY <1>9 DEF PageKept
  <2>2. ~Replied'
    BY <1>3, <1>5, <2>1 DEF Replied, SameDriver, SameContext
  <2> QED
    BY <1>1, <1>5, <1>8, <2>1, <2>2 DEF Unbuilt
<1>10. ASSUME PageLast(m), NEW w, cardNet' \in {"none", "up"}, c2h' = Append(c2h, ReplyTo(-1, w)),
              cardNet' = "up" => w = Success("build"), w \in Answers
       PROVE  Stage'
  <2>1. End(m) = m.size
    <3>1. ~PageKept(m)
      BY <1>10 DEF PageKept, PageLast
    <3> QED
      BY <1>2, <3>1
  <2>2. Over'
    <3>1. h2c' = <<>>
      <4>1. ASSUME h2c' # <<>> PROVE FALSE
        <5>1. 2 \in DOMAIN h2c /\ PageAt(2) /\ NoPage(1, 2)
          BY <1>1, <1>3, <4>1 DEF Unbuilt, OneCommand, PageAt, NoPage, IsPage
        <5>2. h2c[2].first
          BY <1>2, <2>1, <5>1, LastPage
        <5>3. ~h2c[2].first
          BY <1>1, <1>3, <5>1 DEF Unbuilt, OneCommand
        <5> QED
          BY <5>2, <5>3
      <4> QED
        BY <4>1
    <3>2. NoPageAfter(1)
      <4>1. \A i \in DOMAIN h2c : i \in Nat \ {0} /\ (i # 1 => i - 1 \in DOMAIN h2c')
        BY <1>2, <1>3, TailOf
      <4>2. DOMAIN h2c' = {}
        BY <3>1
      <4> QED
        BY <4>1, <4>2 DEF NoPageAfter
    <3>3. \A t \in Thread : Sending(t) => sent = <<0, 0>>
      BY <1>2, <2>1, <3>2, LastPage
    <3>4. ASSUME NEW t \in Thread, thr[t].op = "build" PROVE thr[t].pc \in {"wait", "answered"}
      <4>1. thr[t].pc \in {"idle", "file0", "file1", "lock", "send", "wait", "answered"}
        BY OnlyBuilder
      <4>2. thr[t].pc \notin {"file0", "file1", "lock"} /\ (thr[t].pc = "send" => sent # <<0, 0>>)
        BY <1>1, <1>2 DEF Unbuilt, OneCommand
      <4>3. thr[t].pc # "send"
        BY <3>3, <3>4, <4>2 DEF Sending
      <4>4. thr[t].pc # "idle"
        BY <3>4 DEF Types, Place, Idle
      <4> QED
        BY <4>1, <4>2, <4>3, <4>4
    <3> QED
      BY <1>3, <3>1, <3>4 DEF Over, SameDriver
  <2>3. m.by \in Thread
    BY <1>2, <1>3, MessageFields
  <2>4. ReplyTo(-1, w) \in Reported /\ ReplyTo(-1, w).op = "reply" /\ ReplyTo(-1, w).key = -1 /\ ReplyTo(-1, w).what = w
    BY <1>10, <2>3, Reports DEF ReplyTo, m
  <2> DEFINE e == ReplyTo(-1, w)
             n == Len(c2h) + 1
  <2> HIDE DEF e
  <2>5. /\ c2h'[n] = e /\ n \in DOMAIN c2h'
        /\ \A i \in DOMAIN c2h : c2h'[i] = c2h[i]
        /\ \A i \in DOMAIN c2h' : i \in DOMAIN c2h \/ i = n
    BY <1>3, <1>10, <2>4, AppendTo DEF e
  <2>6. e.op = "reply" /\ e.key = -1 /\ e.what = w
    BY <2>4 DEF e
  <2> HIDE DEF n
  <2>7. \A k \in DOMAIN c2h' : c2h'[k].op \in {"reply", "context", "card"}
    BY <1>1, <2>5, <2>6 DEF Unbuilt
  <2>8. ASSUME cardNet' = "up" PROVE MadeKnown'
    <3>1. \A k \in DOMAIN c2h' : c2h'[k].op = "reply" => c2h'[k].key = -1 /\ c2h'[k].what = Success("build")
      BY <1>5, <1>10, <2>5, <2>6, <2>8 DEF Replied
    <3>2. DOMAIN m_create_reply' = {}
      BY <1>3, <1>5 DEF Replied, SameDriver, SameContext
    <3>3. ~broken' => thr'[Builder].op = "build" /\ thr'[Builder].pc = "wait"
      BY <1>1, <1>2, <1>3, <2>1 DEF Unbuilt, OneCommand, SameDriver, SameContext, broken
    <3>4. \E k \in DOMAIN c2h' : c2h'[k].op = "reply"
      BY <2>5, <2>6
    <3> QED
      BY <3>1, <3>2, <3>3, <3>4 DEF MadeKnown
  <2> QED
    BY <1>8, <1>10, <2>2, <2>7, <2>8
<1>11. CASE PageLast(m) /\ PageMade(m)
  BY <1>3, <1>10, <1>11, Outcomes DEF PageMade
<1>12. CASE PageLast(m) /\ PageRefused(m)
  BY <1>3, <1>5, <1>10, <1>12, Outcomes DEF PageRefused
<1> QED
  BY <1>4, <1>9, <1>11, <1>12

LEMMA Stutter ==
    ASSUME UNCHANGED netVars
    PROVE  SameDriver /\ SameCard /\ h2c' = h2c /\ c2h' = c2h /\ hist' = hist
BY DEF netVars, idaVars, mapVars, cardVars, SameDriver, SameIds, SameMaps, SameContext, SameCard

LEMMA StageHeld == ASSUME Types, Locking, Pages, Stage, [NetNext]_netVars PROVE Stage'
<1>0. /\ thr \in [Thread -> ThreadState] /\ m_devres_vec \in Nat /\ \A t \in Thread : Place(t) /\ thr[t].arg \in Nat \X Nat
      /\ h2c \in Seq(Message) /\ c2h \in Seq(Reported)
  BY DEF Types, HostTypes, CardTypes, ThreadState
<1>00. Built \/ (m_devres_vec = 0 /\ Unbuilt)
  BY <1>0 DEF Stage, Built
<1> USE DEF SameHost
<1> DEFINE Early(t) == ~Built /\ thr[t].pc \in {"idle", "file0", "file1", "lock", "send", "wait", "answered"}
                       /\ (thr[t].pc # "idle" => thr[t].op = "build") /\ ~s_networks /\ s_infreqs = {}
<1>e. \A t \in Thread : Built \/ Early(t)
  BY OnlyBuilder DEF Unbuilt
<1>k. \A t \in Thread : Built => thr[t].op # "build" /\ Kept
  BY DEF Stage, Kept
<1>s. ASSUME Built, NEW t \in Thread, NEW p, NEW o, NEW a, NEW g, Moves(t, p, o, a, g), o # "build",
             SameMaps, SameContext, SameCard, m_devres_vec' = m_devres_vec, c2h' = c2h,
             p = "remove" /\ o = "destroy_net" => Ending',
             h2c' = h2c \/ \E m \in Message : m.op # "build" /\ h2c' = Append(h2c, m)
      PROVE  Stage'
  BY <1>0, <1>s, ThreadKept DEF SameMaps, SameContext
<1>1. ASSUME NEW t \in Thread, from_file(t) PROVE Stage'
  <2>1. ~Built
    BY <1>1, <1>k, FromFile
  <2>2. CASE Returns(t)
    <3>1. Failure("none").of # "build" /\ Moves(t, "idle", "none", <<0, 0>>, Failure("none"))
      BY <2>2 DEF Failure, Returns
    <3> QED
      BY <1>1, <2>1, <3>1, FromFile, EarlyStep
  <2>3. ASSUME NEW to \in {"lock", "file1"}, NEW k \in Nat \ {0}, Moves(t, to, "build", <<k, 1>>, thr[t].got) PROVE Stage'
    BY <1>1, <2>1, <2>3, FromFile, EarlyStep
  <2> QED
    BY <1>1, <2>2, <2>3, FromFile
<1>2. ASSUME NEW t \in Thread, build_done(t) PROVE Stage'
  <2>1. ~Built
    BY <1>2, <1>k, BuildDone
  <2> QED
    BY <1>2, <2>1, DoneBuilds
<1>3. ASSUME NEW t \in Thread, add_test(t) PROVE Stage'
  <2>1. Built
    BY <1>3, <1>e, AddTest
  <2>2. PICK p, o, a, g : p \in {"idle", "lock"} /\ o \in {"none", "add"} /\ Moves(t, p, o, a, g)
    BY <1>3, AddTest DEF Returns, Goes
  <2> QED
    BY <1>3, <2>1, <2>2, <1>s, AddTest
<1>4. ASSUME NEW t \in Thread, lock(t) PROVE Stage'
  <2>1. PICK p, g : p \in {"answered", "send"} /\ Moves(t, p, thr[t].op, thr[t].arg, g) /\ (g = thr[t].got \/ g.of # "build")
    <3>1. Failure("broken").of # "build"
      BY DEF Failure
    <3> QED
      BY <1>4, <3>1, Lock DEF Goes
  <2>2. CASE Built
    BY <1>4, <1>k, <1>s, <2>1, <2>2, Lock
  <2>3. CASE ~Built
    <3>1. thr[t].op = "build" /\ thr[t].pc = "lock"
      BY <1>4, <1>e, <2>3, Lock
    <3> QED
      BY <1>4, <2>1, <2>3, <3>1, Lock, EarlyStep
  <2> QED
    BY <2>2, <2>3
<1>5. ASSUME NEW t \in Thread, send_page(t) PROVE Stage'
  <2>1. CASE ~Built
    BY <1>5, <2>1, PageBuilds
  <2>2. CASE Built
    <3>1. thr[t].op = "add" /\ Sending(t)
      BY <1>5, <1>k, <2>2, SendPage DEF Sending
    <3>2. /\ PageOf(t, n_res(t), n_conf(t)) \in Message /\ PageOf(t, n_res(t), n_conf(t)).op # "build"
      <4>1. PageOf(t, n_res(t), n_conf(t)).op = "add"
        BY <3>1 DEF PageOf
      <4> QED
        BY <3>1, <4>1, NextPage
    <3>3. PICK p, a, g : p \in {"send", "wait", "answered"} /\ Moves(t, p, "add", a, g)
      <4>1. CASE thr' = thr
        BY <1>0, <1>5, <3>1, <4>1, SendPage DEF Moves
      <4> QED
        BY <1>5, <3>1, <4>1, SendPage DEF Goes
    <3>4. h2c' = h2c \/ h2c' = Append(h2c, PageOf(t, n_res(t), n_conf(t)))
      BY <1>5, SendPage
    <3> QED
      BY <1>5, <2>2, <3>2, <3>3, <3>4, <1>s, SendPage
  <2> QED
    BY <2>1, <2>2
<1>6. ASSUME NEW t \in Thread, wait(t) PROVE Stage'
  <2>1. CASE ~Built
    BY <1>6, <2>1, WaitBuilds
  <2>2. CASE Built
    <3>1. PICK a, g : Moves(t, "answered", thr[t].op, a, g)
      BY <1>6, Wait
    <3> QED
      BY <1>0, <1>6, <1>k, <2>2, <3>1, Wait, ThreadKept DEF SameMaps
  <2> QED
    BY <2>1, <2>2
<1>7. ASSUME NEW t \in Thread, add_insert(t) PROVE Stage'
  <2>1. Built
    BY <1>7, <1>e, AddInsert
  <2>2. PICK p, o, a, g : p \in {"idle", "insert"} /\ o \in {"none", "add"} /\ Moves(t, p, o, a, g)
    BY <1>7, AddInsert DEF Returns, Goes
  <2> QED
    BY <1>7, <2>1, <2>2, <1>s, AddInsert
<1>8. ASSUME NEW t \in Thread, add_done(t) PROVE Stage'
  <2>1. Built
    BY <1>8, <1>e, AddDone
  <2>2. m_devres_vec' \in Nat /\ m_devres_vec' >= m_devres_vec
    BY <1>0, <1>8, AddDone
  <2>3. Moves(t, "idle", "none", <<0, 0>>, Failure("none"))
    BY <1>8, AddDone DEF Returns
  <2> QED
    BY <1>8, <2>1, <2>2, <2>3, AddDone, ThreadKept DEF SameMaps, SameContext
<1>9. ASSUME NEW t \in Thread, property_send(t) PROVE Stage'
  <2>1. Built
    BY <1>9, <1>e, PropertySend
  <2>2. [op |-> "property", by |-> t] \in Message /\ [op |-> "property", by |-> t].op # "build"
    BY Messages
  <2>3. PICK p, o, a, g : p \in {"idle", "wait"} /\ o \in {"none", "property"} /\ Moves(t, p, o, a, g)
    BY <1>9, PropertySend DEF Returns, Goes
  <2>4. h2c' = h2c \/ h2c' = Append(h2c, [op |-> "property", by |-> t])
    BY <1>9, PropertySend
  <2> QED
    BY <1>9, <2>1, <2>2, <2>3, <2>4, <1>s, PropertySend
<1>10. ASSUME NEW t \in Thread, property_done(t) PROVE Stage'
  <2>1. Built
    BY <1>10, <1>e, PropertyDone
  <2> QED
    BY <1>10, <2>1, <1>s, PropertyDone DEF Returns
<1>11. ASSUME NEW t \in Thread, create_alloc(t) PROVE Stage'
  <2>1. Built
    BY <1>11, <1>e, CreateAlloc
  <2>2. PICK p, o, a, g : p \in {"idle", "lock"} /\ o \in {"none", "create"} /\ Moves(t, p, o, a, g)
    BY <1>11, CreateAlloc DEF Returns
  <2> QED
    BY <1>11, <2>1, <2>2, <1>s, CreateAlloc
<1>12. ASSUME NEW t \in Thread, create_send(t) PROVE Stage'
  <2>1. Built
    BY <1>12, <1>e, CreateSend
  <2> DEFINE m == [op |-> "create", by |-> t, req |-> thr[t].arg]
  <2>2. m \in Message /\ m.op # "build"
    BY <1>12, Messages, CreateSend
  <2>3. PICK p, a, g : p \in {"answered", "wait"} /\ Moves(t, p, "create", a, g)
    <3>1. CASE Goes(t, "wait")
      <4>1. Moves(t, "wait", "create", thr[t].arg, thr[t].got)
        BY <1>12, <3>1, CreateSend DEF Goes
      <4> QED
        BY <4>1
    <3>2. CASE ~Goes(t, "wait")
      <4>1. Moves(t, "answered", "create", thr[t].arg, Failure("io_error"))
        BY <1>12, <3>2, CreateSend
      <4> QED
        BY <4>1
    <3> QED
      BY <3>1, <3>2
  <2>4. h2c' = h2c \/ h2c' = Append(h2c, m)
    BY <1>12, CreateSend
  <2> HIDE DEF m
  <2> QED
    BY <1>12, <2>1, <2>2, <2>3, <2>4, <1>s, CreateSend
<1>13. ASSUME NEW t \in Thread, create_done(t) PROVE Stage'
  <2>1. Built
    BY <1>13, <1>e, CreateDone
  <2>2. Moves(t, "idle", "none", <<0, 0>>, Failure("none"))
    BY <1>13, CreateDone DEF Returns
  <2> QED
    BY <1>0, <1>13, <2>1, <2>2, CreateDone, ThreadKept DEF SameContext
<1>14. ASSUME NEW t \in Thread, destroy_send(t) PROVE Stage'
  <2>1. Built
    BY <1>14, <1>e, DestroySend
  <2> DEFINE m == [op |-> "destroy", req |-> thr[t].arg]
  <2>2. m \in Message /\ m.op # "build"
    BY <1>14, Messages, DestroySend
  <2>3. Moves(t, "remove", "destroy", thr[t].arg, thr[t].got)
    BY <1>14, DestroySend DEF Goes
  <2>4. h2c' = h2c \/ h2c' = Append(h2c, m)
    BY <1>14, DestroySend
  <2> HIDE DEF m
  <2> QED
    BY <1>14, <2>1, <2>2, <2>3, <2>4, <1>s, DestroySend
<1>15. ASSUME NEW t \in Thread, destroy_remove(t) PROVE Stage'
  <2>1. Built
    BY <1>15, <1>e, DestroyRemove
  <2>2. Moves(t, "idle", "none", <<0, 0>>, Failure("none"))
    BY <1>15, DestroyRemove DEF Returns
  <2> QED
    BY <1>0, <1>15, <2>1, <2>2, DestroyRemove, ThreadKept DEF SameContext
<1>16. ASSUME NEW t \in Thread, destroy_net_send(t) PROVE Stage'
  <2>1. Built
    BY <1>16, <1>e, DestroyNetSend
  <2> DEFINE m == [op |-> "destroy_net"]
  <2>2. m \in Message /\ m.op # "build" /\ m.op = "destroy_net"
    BY Messages
  <2> HIDE DEF m
  <2>3. PICK p, o, a, g :
            /\ p \in {"remove", "idle"} /\ o \in {"destroy_net", "none"}
            /\ Moves(t, p, o, a, g)
            /\ h2c' = Append(h2c, m) \/ (h2c' = h2c /\ (p = "remove" => card_fatal))
    BY <1>16, DestroyNetSend DEF Returns, Goes, m
  <2>4. p = "remove" => Ending'
    <3>1. CASE h2c' = Append(h2c, m)
      <4>1. Len(h2c) + 1 \in DOMAIN h2c' /\ h2c'[Len(h2c) + 1] = m
        BY <1>0, <2>2, <3>1, AppendTo
      <4> QED
        BY <2>2, <4>1 DEF Ending
    <3>2. CASE h2c' = h2c /\ card_fatal
      <4>1. broken'
        BY <1>16, <3>2, DestroyNetSend DEF SameContext, broken, card_fatal
      <4> QED
        BY <4>1 DEF Ending
    <3> QED
      BY <2>3, <3>1, <3>2
  <2> QED
    BY <1>16, <2>1, <2>2, <2>3, <2>4, <1>s, DestroyNetSend
<1>17. ASSUME NEW t \in Thread, destroy_net_remove(t) PROVE Stage'
  <2>1. Built
    BY <1>17, <1>e, DestroyNetRemove
  <2>2. Moves(t, "idle", "none", <<0, 0>>, Failure("none"))
    BY <1>17, DestroyNetRemove DEF Returns
  <2>3. Ending
    BY <1>17, <1>k, <2>1, DestroyNetRemove DEF Kept
  <2>4. /\ netDB' = netDB /\ m_critical_error' = m_critical_error /\ SameCard /\ c2h' = c2h /\ h2c' = h2c
        /\ m_devres_vec' = m_devres_vec
    BY <1>17, DestroyNetRemove DEF SameContext
  <2>5. m_devres_vec' >= m_devres_vec
    BY <1>0, <2>4
  <2> QED
    BY <1>0, <2>1, <2>2, <2>3, <2>4, <2>5, ThreadKept
<1>18. ASSUME NEW t \in Thread, NEW c \in Call, find_network(t, c) PROVE Stage'
  <2>1. Built /\ c \notin {"build", "remove"}
    BY <1>18, <1>e, FindNetwork DEF Call
  <2>2. PICK a, g : Moves(t, c, c, a, g)
    BY <1>18, FindNetwork
  <2> QED
    BY <1>18, <2>1, <2>2, <1>s, FindNetwork
<1>19. ASSUME NEW t \in Thread, NEW r \in s_infreqs, find_infreq(t, r) PROVE Stage'
  <2>1. Built
    BY <1>19, <1>e
  <2> QED
    BY <1>19, <2>1, <1>s, FindRequest
<1>20. CASE Respond
  <2>1. CASE ~Built
    BY <1>20, <2>1, ResponseBuilds
  <2>2. CASE Built
    <3>1. /\ SameLocal /\ c2h # <<>> /\ c2h' = Tail(c2h) /\ s_networks' = s_networks
      BY <1>20, ReplyStep, RequestGone, NetworkGone, Critical DEF Respond, SameMaps
    <3>2. Head(c2h) = c2h[1] /\ 1 \in DOMAIN c2h /\ Head(c2h) \in Reported
      BY <1>0, <3>1, TailOf
    <3>3. CASE process_create_reply \/ infreq_destroyed
      <4>1. m_critical_error' = m_critical_error /\ netDB' = netDB
        BY <3>3, ReplyStep, RequestGone DEF SameMaps, SameContext
      <4>2. broken => broken'
        BY <4>1 DEF broken
      <4> QED
        BY <2>2, <3>1, <4>1, <4>2, ResponseKept
    <3>4. CASE devnet_destroyed
      <4>1. cardNet = "gone"
        BY <3>2, <3>4, NetworkGone DEF Stage
      <4>2. broken => broken'
        BY <3>4, NetworkGone DEF SameContext, broken
      <4> QED
        BY <2>2, <3>1, <4>1, <4>2, ResponseKept
    <3>5. CASE critical_event
      <4>1. broken'
        BY <3>5, Critical DEF broken
      <4> QED
        BY <2>2, <3>1, <4>1, ResponseKept
    <3> QED
      BY <1>20, <3>3, <3>4, <3>5 DEF Respond
  <2> QED
    BY <2>1, <2>2
<1>21. CASE card_page
  <2>1. CASE ~Built
    BY <1>21, <2>1, PageTakenBuilds
  <2>2. CASE Built
    <3> DEFINE m == Head(h2c)
    <3>1. /\ h2c # <<>> /\ m.op \in {"build", "add"} /\ h2c' = Tail(h2c) /\ SameDriver
          /\ \/ PageKept(m)
             \/ PageLast(m) /\ PageMade(m)
             \/ PageLast(m) /\ PageRefused(m)
      BY <1>21, CardPage
    <3>2. m = h2c[1] /\ 1 \in DOMAIN h2c /\ m \in Message
      BY <1>0, <3>1, TailOf
    <3>3. m.op = "add" /\ m.by \in Thread
      BY <1>k, <2>2, <3>1, <3>2, MessageFields DEF Kept, Stage
    <3>4. \A w \in Answers : ReplyTo(-1, w) \in Reported /\ ReplyTo(-1, w).op = "reply"
      BY <3>3, Reports DEF ReplyTo
    <3>5. Success(m.op) \in Answers /\ Failure(m.op) \in Answers
      BY <3>3, Outcomes DEF Call
    <3> HIDE DEF m
    <3>6. /\ cardNet' = cardNet
          /\ c2h' = c2h \/ \E e \in Reported : e.op = "reply" /\ c2h' = Append(c2h, e)
      BY <3>1, <3>3, <3>4, <3>5 DEF PageKept, PageMade, PageRefused
    <3>7. Head(h2c).op # "destroy_net"
      BY <3>3 DEF m
    <3> QED
      BY <2>2, <3>1, <3>6, <3>7, CardStepKept
  <2> QED
    BY <2>1, <2>2
<1>22. CASE card_asked
  <2> DEFINE m == Head(h2c)
  <2>1. h2c # <<>> /\ m.op \in {"property", "create"} /\ h2c' = Tail(h2c) /\ SameDriver /\ cardNet' = cardNet
    BY <1>22, CardAsked
  <2>2. m = h2c[1] /\ 1 \in DOMAIN h2c /\ m \in Message
    BY <1>0, <2>1, TailOf
  <2>3. Built
    BY <1>00, <2>1, <2>2 DEF Unbuilt, OneCommand
  <2>4. m.by \in Thread /\ (m.op = "create" => m.req[1] \in Id)
    BY <2>1, <2>2, MessageFields DEF Requests
  <2>5. \A w \in Answers, k \in Id \cup {-1} : ReplyTo(k, w) \in Reported /\ ReplyTo(k, w).op = "reply"
    BY <2>4, Reports DEF ReplyTo
  <2>6. Success(m.op) \in Answers /\ Failure(m.op) \in Answers
    BY <2>1, Outcomes DEF Call
  <2>7. \E e \in Reported : e.op = "reply" /\ c2h' = Append(c2h, e)
    BY <1>22, <2>4, <2>5, <2>6, CardAsked
  <2> QED
    BY <2>1, <2>3, <2>7, CardStepKept
<1>23. CASE card_destroys
  <2> DEFINE m == Head(h2c)
  <2>1. /\ h2c # <<>> /\ m.op = "destroy" /\ h2c' = Tail(h2c) /\ SameDriver /\ cardNet' = cardNet
        /\ c2h' = c2h \/ c2h' = Append(c2h, [op |-> "infreq_destroyed", id |-> m.req[1]])
    BY <1>23, CardDestroys
  <2>2. m = h2c[1] /\ 1 \in DOMAIN h2c /\ m \in Message
    BY <1>0, <2>1, TailOf
  <2>3. Built
    BY <1>00, <2>1, <2>2 DEF Unbuilt, OneCommand
  <2>4. m.req[1] \in Id
    BY <2>1, <2>2, MessageFields DEF Requests
  <2>5. [op |-> "infreq_destroyed", id |-> m.req[1]] \in Reported
    BY <2>4, Reports
  <2>6. c2h' = c2h \/ \E e \in Reported : e.op # "devnet_destroyed" /\ c2h' = Append(c2h, e)
    BY <2>1, <2>5
  <2> QED
    BY <2>1, <2>3, <2>6, CardStepKept
<1>24. CASE card_net_destroy
  <2>1. h2c # <<>> /\ Head(h2c).op = "destroy_net" /\ h2c' = Tail(h2c) /\ SameDriver /\ c2h' = c2h
        /\ cardNet' = IF cardNet = "up" THEN "dying" ELSE cardNet
    BY <1>24, CardNetDestroy
  <2>2. Head(h2c) = h2c[1] /\ 1 \in DOMAIN h2c
    BY <1>0, <2>1, TailOf
  <2>3. Built
    BY <1>00, <2>1, <2>2 DEF Unbuilt, OneCommand
  <2> QED
    BY <2>1, <2>3, CardStepKept
<1>25. CASE card_net_gone
  <2>1. Built
    BY <1>00, <1>25, CardNetGone DEF Unbuilt
  <2>2. [op |-> "devnet_destroyed"] \in Reported
    BY Reports
  <2> QED
    BY <1>25, <2>1, <2>2, CardNetGone, CardStepKept
<1>26. CASE card_event
  <2>1. PICK e \in {"context", "card"} : c2h' = Append(c2h, [op |-> e])
    BY <1>26, CardEvent
  <2>2. SameDriver /\ h2c' = h2c /\ SameCard /\ [op |-> e] \in Reported
    BY <1>26, CardEvent, Reports
  <2>3. CASE Built
    BY <2>1, <2>2, <2>3, CardStepKept DEF SameCard
  <2>4. CASE ~Built
    <3> DEFINE m == [op |-> e]
    <3>1. m.op \in {"context", "card"} /\ m \in Reported
      BY <2>2
    <3> HIDE DEF m
    <3>2. /\ c2h'[Len(c2h) + 1] = m
          /\ \A i \in DOMAIN c2h : i \in DOMAIN c2h' /\ c2h'[i] = c2h[i]
          /\ \A i \in DOMAIN c2h' : i \in DOMAIN c2h \/ i = Len(c2h) + 1
      BY <1>0, <2>1, <3>1, AppendTo DEF m
    <3>3. \A k \in DOMAIN c2h' : c2h'[k].op \in {"reply", "context", "card"}
      BY <1>00, <2>4, <3>1, <3>2 DEF Unbuilt
    <3>4. (\E k \in DOMAIN c2h' : c2h'[k].op = "reply") <=> \E k \in DOMAIN c2h : c2h[k].op = "reply"
      BY <3>1, <3>2
    <3>5. \A k \in DOMAIN c2h' : c2h'[k].op = "reply" => k \in DOMAIN c2h /\ c2h'[k] = c2h[k]
      BY <3>1, <3>2
    <3>6. Replied' => Replied
      BY <2>2, <3>4 DEF Replied, SameDriver, SameContext, SameCard
    <3>7. Replied' => Over'
      BY <1>00, <2>2, <2>4, <3>6 DEF Unbuilt, Over, SameDriver
    <3>8. OneCommand'
      BY <1>00, <2>2, <2>4 DEF Unbuilt, OneCommand, SameDriver, SameContext, broken
    <3>9. cardNet = "up" => MadeKnown'
      BY <1>00, <2>2, <2>4, <3>4, <3>5 DEF Unbuilt, MadeKnown, SameDriver, SameContext, broken
    <3>10. Unbuilt'
      BY <1>00, <2>2, <2>4, <3>3, <3>7, <3>8, <3>9 DEF Unbuilt, SameDriver, SameMaps, SameCard
    <3> QED
      BY <2>2, <2>4, <3>3, <3>10 DEF Stage, Built, SameDriver
  <2> QED
    BY <2>3, <2>4
<1>27. CASE UNCHANGED netVars
  <2>1. SameDriver /\ SameCard /\ h2c' = h2c /\ c2h' = c2h
    BY <1>27, Stutter
  <2>2. CASE Built
    BY <2>1, <2>2, CardStepKept DEF SameCard
  <2>3. CASE ~Built
    <3>1. OneCommand' /\ (Replied' => Replied)
      BY <1>00, <2>1, <2>3 DEF Unbuilt, OneCommand, Replied, SameDriver, SameContext, SameCard, broken
    <3>2. (Replied' => Over') /\ (cardNet = "up" => MadeKnown')
      BY <1>00, <2>1, <2>3, <3>1 DEF Unbuilt, Over, MadeKnown, SameDriver, SameContext, broken
    <3>3. Unbuilt'
      BY <1>00, <2>1, <2>3, <3>1, <3>2 DEF Unbuilt, SameDriver, SameMaps, SameCard
    <3> QED
      BY <2>1, <2>3, <3>3 DEF Stage, Built, SameDriver, SameCard
  <2> QED
    BY <2>2, <2>3
<1> QED
  BY <1>1, <1>2, <1>3, <1>4, <1>5, <1>6, <1>7, <1>8, <1>9, <1>10, <1>11, <1>12, <1>13, <1>14, <1>15, <1>16, <1>17,
     <1>18, <1>19, <1>20, <1>21, <1>22, <1>23, <1>24, <1>25, <1>26, <1>27 DEF NetNext, Do, Begin, CardWork

-----------------------------------------------------------------------------
(***************************************************************************)
(* A command and its answer                                                *)
(***************************************************************************)

\* A property was set while another command on the network was under way.
Mixed == "overlap" \in hist

\* The messages that the card answers, and where the command of u, or the answer to it, can
\* be: on its way to the card, on its way back, or stored until u wakes.  Once answers are
\* mixed up this can be said of the requests only.
Expects(m) == m.op \in {"property", "create"} \/ (IsPage(m) /\ End(m) = m.size)
Command(k, u) == k \in DOMAIN h2c /\ Expects(h2c[k]) /\ h2c[k].by = u /\ (Mixed => h2c[k].op = "create")
Reply(k, u) == k \in DOMAIN c2h /\ c2h[k].op = "reply" /\ c2h[k].by = u /\ (Mixed => c2h[k].key # -1)
Stored(k, u) == k \in DOMAIN m_create_reply /\ m_create_reply[k].by = u /\ (Mixed => k # -1)

NoCommand(u) == \A k \in DOMAIN h2c : ~Command(k, u)
NoReply(u) == \A k \in DOMAIN c2h : ~Reply(k, u)
NotStored(u) == \A k \in DOMAIN m_create_reply : ~Stored(k, u)

\* u waits for the answer to message m, or for one of this key and kind.
AwaitsOf(u, m) ==
    /\ thr[u].pc = "wait" /\ thr[u].op = m.op
    /\ m.op = "create" => m.req = thr[u].arg
    /\ IsPage(m) => m.num_res = thr[u].arg[1]
Awaits(u, key, what) == thr[u].pc = "wait" /\ key = Key(u) /\ what.of = thr[u].op

\* It is in one of these places only, and u waits for it.
CommandOnce(u) == \A k \in DOMAIN h2c : Command(k, u) =>
    /\ AwaitsOf(u, h2c[k]) /\ NoReply(u) /\ NotStored(u)
    /\ \A j \in DOMAIN h2c : Command(j, u) => j = k
ReplyOnce(u) == \A k \in DOMAIN c2h : Reply(k, u) =>
    /\ Awaits(u, c2h[k].key, c2h[k].what) /\ NotStored(u)
    /\ \A j \in DOMAIN c2h : Reply(j, u) => j = k
StoredOnce(u) == \A k \in DOMAIN m_create_reply : Stored(k, u) => Awaits(u, k, m_create_reply[k].what)

OneAnswer(u) == CommandOnce(u) /\ ReplyOnce(u) /\ StoredOnce(u)
OneUser == \A u, v \in Thread : UsesNetKey(u) /\ UsesNetKey(v) => u = v

OwnAnswer ==
    /\ "foreign" \in hist => Mixed
    /\ ~Mixed => OneUser
    /\ ~broken => \A u \in Thread : OneAnswer(u)

Nothing(u) == NoCommand(u) /\ NoReply(u) /\ NotStored(u)

LEMMA NothingIsOne == ASSUME NEW u, Nothing(u) PROVE OneAnswer(u)
BY DEF Nothing, OneAnswer, CommandOnce, ReplyOnce, StoredOnce, NoCommand, NoReply, NotStored

LEMMA NotWaiting == ASSUME NEW u, OneAnswer(u), thr[u].pc # "wait" PROVE Nothing(u)
BY DEF Nothing, OneAnswer, CommandOnce, ReplyOnce, StoredOnce, NoCommand, NoReply, NotStored, Awaits, AwaitsOf

\* What a step carries over for u: no new command, no new answer, nothing new stored.
CommandsCarried(u, d) ==
    d \in {0, 1} /\ \A k \in DOMAIN h2c' : Command(k, u)' => Command(k + d, u) /\ h2c'[k] = h2c[k + d] /\ k \in Nat
RepliesCarried(u, d) ==
    d \in {0, 1} /\ \A k \in DOMAIN c2h' : Reply(k, u)' => Reply(k + d, u) /\ c2h'[k] = c2h[k + d] /\ k \in Nat
StoreCarried(u) ==
    \A k \in DOMAIN m_create_reply' : Stored(k, u)' => Stored(k, u) /\ m_create_reply'[k] = m_create_reply[k]
AllCarried(u, d, e) == CommandsCarried(u, d) /\ RepliesCarried(u, e) /\ StoreCarried(u)

LEMMA OneCarried ==
    ASSUME NEW u, OneAnswer(u), thr'[u] = thr[u] \/ thr[u].pc # "wait", NEW d, NEW e, AllCarried(u, d, e)
    PROVE  OneAnswer(u)'
<1>1. /\ \A k \in DOMAIN h2c' : Command(k, u)' => Command(k + d, u) /\ h2c'[k] = h2c[k + d] /\ k \in Nat
      /\ \A k \in DOMAIN c2h' : Reply(k, u)' => Reply(k + e, u) /\ c2h'[k] = c2h[k + e] /\ k \in Nat
      /\ \A k \in DOMAIN m_create_reply' : Stored(k, u)' => Stored(k, u) /\ m_create_reply'[k] = m_create_reply[k]
      /\ d \in {0, 1} /\ e \in {0, 1}
  BY DEF AllCarried, CommandsCarried, RepliesCarried, StoreCarried
<1>2. (NoCommand(u) => NoCommand(u)') /\ (NoReply(u) => NoReply(u)') /\ (NotStored(u) => NotStored(u)')
  BY <1>1 DEF NoCommand, NoReply, NotStored, Command, Reply, Stored
<1>3. CASE thr[u].pc # "wait"
  <2>1. Nothing(u)'
    BY <1>2, <1>3, NotWaiting DEF Nothing
  <2> QED
    BY <2>1, NothingIsOne, PTL
<1>4. CASE thr'[u] = thr[u]
  <2>1. CommandOnce(u)'
    <3>1. ASSUME NEW k \in DOMAIN h2c', Command(k, u)'
          PROVE  /\ AwaitsOf(u, h2c[k])' /\ NoReply(u)' /\ NotStored(u)'
                 /\ \A j \in DOMAIN h2c' : Command(j, u)' => j = k
      <4>1. k + d \in DOMAIN h2c /\ Command(k + d, u) /\ h2c'[k] = h2c[k + d] /\ k \in Nat
        BY <1>1, <3>1 DEF Command
      <4>2. AwaitsOf(u, h2c[k + d]) /\ NoReply(u) /\ NotStored(u) /\ \A j \in DOMAIN h2c : Command(j, u) => j = k + d
        BY <4>1 DEF OneAnswer, CommandOnce
      <4>3. \A j \in DOMAIN h2c' : Command(j, u)' => j = k
        <5>1. ASSUME NEW j \in DOMAIN h2c', Command(j, u)' PROVE j = k
          <6>1. j \in Nat /\ j + d = k + d
            BY <1>1, <4>2, <5>1 DEF Command
          <6> QED
            BY <1>1, <4>1, <6>1
        <5> QED
          BY <5>1
      <4> QED
        BY <1>2, <1>4, <4>1, <4>2, <4>3 DEF AwaitsOf
    <3> QED
      BY <3>1 DEF CommandOnce
  <2>2. ReplyOnce(u)'
    <3>1. ASSUME NEW k \in DOMAIN c2h', Reply(k, u)'
          PROVE  /\ Awaits(u, c2h[k].key, c2h[k].what)' /\ NotStored(u)'
                 /\ \A j \in DOMAIN c2h' : Reply(j, u)' => j = k
      <4>1. k + e \in DOMAIN c2h /\ Reply(k + e, u) /\ c2h'[k] = c2h[k + e] /\ k \in Nat
        BY <1>1, <3>1 DEF Reply
      <4>2. Awaits(u, c2h[k + e].key, c2h[k + e].what) /\ NotStored(u) /\ \A j \in DOMAIN c2h : Reply(j, u) => j = k + e
        BY <4>1 DEF OneAnswer, ReplyOnce
      <4>3. \A j \in DOMAIN c2h' : Reply(j, u)' => j = k
        <5>1. ASSUME NEW j \in DOMAIN c2h', Reply(j, u)' PROVE j = k
          <6>1. j \in Nat /\ j + e = k + e
            BY <1>1, <4>2, <5>1 DEF Reply
          <6> QED
            BY <1>1, <4>1, <6>1
        <5> QED
          BY <5>1
      <4> QED
        BY <1>2, <1>4, <4>1, <4>2, <4>3 DEF Awaits, Key
    <3> QED
      BY <3>1 DEF ReplyOnce
  <2>3. StoredOnce(u)'
    BY <1>1, <1>4 DEF OneAnswer, StoredOnce, Stored, Awaits, Key
  <2> QED
    BY <2>1, <2>2, <2>3 DEF OneAnswer
<1> QED
  BY <1>3, <1>4

\* Queues that stay, get a message that is not for u, or lose the first one.
LEMMA CommandsStep ==
    ASSUME h2c \in Seq(Message), NEW u, Mixed => Mixed'
    PROVE  /\ h2c' = h2c => CommandsCarried(u, 0)
           /\ \A m \in Message : h2c' = Append(h2c, m) /\ ~(Expects(m) /\ m.by = u /\ (Mixed' => m.op = "create"))
                 => CommandsCarried(u, 0)
           /\ h2c # <<>> /\ h2c' = Tail(h2c) => CommandsCarried(u, 1)
<1>1. ASSUME h2c' = h2c PROVE CommandsCarried(u, 0)
  <2>1. \A k \in DOMAIN h2c : k \in Nat /\ k + 0 = k
    OBVIOUS
  <2> QED
    BY <1>1, <2>1 DEF CommandsCarried, Command
<1>2. ASSUME NEW m \in Message, h2c' = Append(h2c, m), ~(Expects(m) /\ m.by = u /\ (Mixed' => m.op = "create"))
      PROVE  CommandsCarried(u, 0)
  <2>1. /\ h2c'[Len(h2c) + 1] = m
        /\ \A i \in DOMAIN h2c : h2c'[i] = h2c[i] /\ i \in Nat
        /\ \A i \in DOMAIN h2c' : i \in DOMAIN h2c \/ i = Len(h2c) + 1
    BY <1>2, AppendTo
  <2>2. ASSUME NEW k \in DOMAIN h2c', Command(k, u)' PROVE k \in DOMAIN h2c /\ Command(k, u) /\ h2c'[k] = h2c[k] /\ k + 0 = k
    <3>1. k # Len(h2c) + 1
      BY <1>2, <2>1, <2>2 DEF Command
    <3> QED
      BY <2>1, <2>2, <3>1 DEF Command
  <2> QED
    BY <2>1, <2>2 DEF CommandsCarried
<1>3. ASSUME h2c # <<>>, h2c' = Tail(h2c) PROVE CommandsCarried(u, 1)
  <2>1. \A i \in DOMAIN h2c' : i \in Nat /\ i + 1 \in DOMAIN h2c /\ h2c'[i] = h2c[i + 1]
    BY <1>3, TailOf
  <2> QED
    BY <2>1 DEF CommandsCarried, Command
<1> QED
  BY <1>1, <1>2, <1>3

LEMMA RepliesStep ==
    ASSUME c2h \in Seq(Reported), NEW u, Mixed => Mixed'
    PROVE  /\ c2h' = c2h => RepliesCarried(u, 0)
           /\ \A m \in Reported : c2h' = Append(c2h, m) /\ ~(m.op = "reply" /\ m.by = u /\ (Mixed' => m.key # -1))
                 => RepliesCarried(u, 0)
           /\ c2h # <<>> /\ c2h' = Tail(c2h) => RepliesCarried(u, 1)
<1>1. ASSUME c2h' = c2h PROVE RepliesCarried(u, 0)
  <2>1. \A k \in DOMAIN c2h : k \in Nat /\ k + 0 = k
    OBVIOUS
  <2> QED
    BY <1>1, <2>1 DEF RepliesCarried, Reply
<1>2. ASSUME NEW m \in Reported, c2h' = Append(c2h, m), ~(m.op = "reply" /\ m.by = u /\ (Mixed' => m.key # -1))
      PROVE  RepliesCarried(u, 0)
  <2>1. /\ c2h'[Len(c2h) + 1] = m
        /\ \A i \in DOMAIN c2h : c2h'[i] = c2h[i] /\ i \in Nat
        /\ \A i \in DOMAIN c2h' : i \in DOMAIN c2h \/ i = Len(c2h) + 1
    BY <1>2, AppendTo
  <2>2. ASSUME NEW k \in DOMAIN c2h', Reply(k, u)' PROVE k \in DOMAIN c2h /\ Reply(k, u) /\ c2h'[k] = c2h[k] /\ k + 0 = k
    <3>1. k # Len(c2h) + 1
      BY <1>2, <2>1, <2>2 DEF Reply
    <3> QED
      BY <2>1, <2>2, <3>1 DEF Reply
  <2> QED
    BY <2>1, <2>2 DEF RepliesCarried
<1>3. ASSUME c2h # <<>>, c2h' = Tail(c2h) PROVE RepliesCarried(u, 1)
  <2>1. \A i \in DOMAIN c2h' : i \in Nat /\ i + 1 \in DOMAIN c2h /\ c2h'[i] = c2h[i + 1]
    BY <1>3, TailOf
  <2> QED
    BY <2>1 DEF RepliesCarried, Reply
<1> QED
  BY <1>1, <1>2, <1>3

LEMMA StoreSame == ASSUME m_create_reply' = m_create_reply, NEW u, Mixed => Mixed' PROVE StoreCarried(u)
BY DEF StoreCarried, Stored

\* t, which was not waiting, sends a command and waits.
LEMMA OneSent ==
    ASSUME Types, NEW t \in Thread, OneAnswer(t), thr[t].pc # "wait", Mixed => Mixed',
           NEW m \in Message, h2c' = Append(h2c, m), c2h' = c2h, m_create_reply' = m_create_reply, AwaitsOf(t, m)'
    PROVE  OneAnswer(t)'
<1>1. h2c \in Seq(Message) /\ c2h \in Seq(Reported)
  BY DEF Types, CardTypes
<1>2. /\ h2c'[Len(h2c) + 1] = m
      /\ \A i \in DOMAIN h2c : h2c'[i] = h2c[i] /\ i \in Nat
      /\ \A i \in DOMAIN h2c' : i \in DOMAIN h2c \/ i = Len(h2c) + 1
  BY <1>1, AppendTo
<1>3. Nothing(t)
  BY NotWaiting
<1>4. NoReply(t)' /\ NotStored(t)'
  BY <1>3 DEF Nothing, NoReply, NotStored, Reply, Stored
<1>5. \A k \in DOMAIN h2c' : Command(k, t)' => k = Len(h2c) + 1
  BY <1>2, <1>3 DEF Nothing, NoCommand, Command
<1>6. CommandOnce(t)'
  BY <1>2, <1>4, <1>5 DEF CommandOnce
<1>7. ReplyOnce(t)' /\ StoredOnce(t)'
  BY <1>4 DEF ReplyOnce, StoredOnce, NoReply, NotStored
<1> QED
  BY <1>6, <1>7 DEF OneAnswer

\* The card answers the first message: the answer takes the place of the command.
LEMMA OneAnswered ==
    ASSUME Types, NEW u \in Thread, OneAnswer(u), thr' = thr, h2c # <<>>, h2c' = Tail(h2c), Mixed' <=> Mixed,
           NEW m, m = Head(h2c), Expects(m), NEW w \in Answers, w.of = m.op,
           NEW key \in Id \cup {-1}, key = IF m.op = "create" THEN m.req[1] ELSE -1,
           c2h' = Append(c2h, ReplyTo(key, w)), m_create_reply' = m_create_reply
    PROVE  OneAnswer(u)'
<1> DEFINE e == ReplyTo(key, w)
           n == Len(c2h) + 1
<1>1. h2c \in Seq(Message) /\ c2h \in Seq(Reported)
  BY DEF Types, CardTypes
<1>2. /\ 1 \in DOMAIN h2c /\ m = h2c[1] /\ m \in Message
      /\ \A i \in DOMAIN h2c' : i \in Nat \ {0}
  BY <1>1, TailOf
<1>3. m.by \in Thread /\ (m.op = "create" => m.req[1] \in Id)
  BY <1>2, MessageFields DEF Expects, IsPage, Requests
<1>4. e \in Reported /\ e.op = "reply" /\ e.key = key /\ e.what = w /\ e.by = m.by
  BY <1>3, Reports DEF ReplyTo
<1>5. key # -1 <=> m.op = "create"
  BY <1>3 DEF Id
<1>6. CommandsCarried(u, 1) /\ StoreCarried(u)
  BY <1>1, CommandsStep, StoreSame
<1>7. c2h' = Append(c2h, e)
  OBVIOUS
<1> HIDE DEF e
<1>8. CASE Command(1, u)
  <2>1. AwaitsOf(u, m) /\ NoReply(u) /\ NotStored(u) /\ (\A j \in DOMAIN h2c : Command(j, u) => j = 1) /\ m.by = u
    BY <1>2, <1>8 DEF OneAnswer, CommandOnce, Command
  <2>2. \A k \in DOMAIN h2c' : ~Command(k, u)'
    <3>1. ASSUME NEW k \in DOMAIN h2c', Command(k, u)' PROVE FALSE
      <4>1. Command(k + 1, u) /\ k \in Nat \ {0}
        BY <1>2, <1>6, <3>1 DEF CommandsCarried
      <4>2. k + 1 = 1
        BY <2>1, <4>1 DEF Command
      <4> QED
        BY <4>1, <4>2
    <3> QED
      BY <3>1
  <2>3. NotStored(u)'
    BY <1>6, <2>1 DEF StoreCarried, NotStored, Stored
  <2>4. /\ c2h'[n] = e
        /\ \A i \in DOMAIN c2h : c2h'[i] = c2h[i]
        /\ \A i \in DOMAIN c2h' : i \in DOMAIN c2h \/ i = n
    BY <1>1, <1>4, <1>7, AppendTo
  <2>5. \A k \in DOMAIN c2h' : Reply(k, u)' => k = n
    BY <2>1, <2>4 DEF NoReply, Reply
  <2>6. thr'[u].pc = "wait" /\ key = Key(u)' /\ w.of = thr'[u].op
    BY <2>1 DEF AwaitsOf, Key
  <2> HIDE DEF n
  <2>7. ASSUME NEW k \in DOMAIN c2h', Reply(k, u)' PROVE Awaits(u, c2h[k].key, c2h[k].what)'
    <3>1. c2h'[k].key = key /\ c2h'[k].what = w
      BY <1>4, <2>4, <2>5, <2>7
    <3> QED
      BY <2>6, <3>1 DEF Awaits, Key
  <2>8. ReplyOnce(u)'
    BY <2>3, <2>5, <2>7 DEF ReplyOnce
  <2>9. CommandOnce(u)' /\ StoredOnce(u)'
    BY <2>2, <2>3 DEF CommandOnce, StoredOnce, NotStored
  <2> QED
    BY <2>8, <2>9 DEF OneAnswer
<1>9. CASE ~Command(1, u)
  <2>1. ~(e.op = "reply" /\ e.by = u /\ (Mixed' => e.key # -1))
    BY <1>2, <1>4, <1>5, <1>9 DEF Command
  <2>2. RepliesCarried(u, 0)
    BY <1>1, <1>4, <1>7, <2>1, RepliesStep
  <2> QED
    BY <1>6, <2>2, OneCarried DEF AllCarried
<1> QED
  BY <1>8, <1>9

\* The response thread stores the answer.
LEMMA OneStored ==
    ASSUME Types, NEW u \in Thread, OneAnswer(u), thr' = thr, h2c' = h2c, Mixed' <=> Mixed,
           c2h # <<>>, c2h' = Tail(c2h), NEW e, e = Head(c2h), e.op = "reply",
           m_create_reply' = Put(m_create_reply, e.key, [what |-> e.what, by |-> e.by])
    PROVE  OneAnswer(u)'
<1>1. h2c \in Seq(Message) /\ c2h \in Seq(Reported)
  BY DEF Types, CardTypes
<1>2. /\ 1 \in DOMAIN c2h /\ e = c2h[1]
      /\ \A i \in DOMAIN c2h' : i \in Nat \ {0}
  BY <1>1, TailOf
<1>3. /\ \A k \in DOMAIN m_create_reply' : k # e.key => k \in DOMAIN m_create_reply /\ m_create_reply'[k] = m_create_reply[k]
      /\ e.key \in DOMAIN m_create_reply' /\ m_create_reply'[e.key].by = e.by /\ m_create_reply'[e.key].what = e.what
  BY DEF Put
<1>4. CommandsCarried(u, 0) /\ RepliesCarried(u, 1)
  BY <1>1, CommandsStep, RepliesStep
<1>5. CASE Reply(1, u)
  <2>1. Awaits(u, e.key, e.what) /\ NotStored(u) /\ \A j \in DOMAIN c2h : Reply(j, u) => j = 1
    BY <1>2, <1>5 DEF OneAnswer, ReplyOnce
  <2>2. NoCommand(u)
    BY <1>2, <1>5 DEF OneAnswer, CommandOnce, NoCommand, NoReply
  <2>3. NoCommand(u)'
    BY <1>4, <2>2 DEF CommandsCarried, NoCommand, Command
  <2>4. NoReply(u)'
    <3>1. ASSUME NEW k \in DOMAIN c2h', Reply(k, u)' PROVE FALSE
      <4>1. Reply(k + 1, u) /\ k \in Nat \ {0}
        BY <1>2, <1>4, <3>1 DEF RepliesCarried
      <4>2. k + 1 = 1
        BY <2>1, <4>1 DEF Reply
      <4> QED
        BY <4>1, <4>2
    <3> QED
      BY <3>1 DEF NoReply
  <2>5. StoredOnce(u)'
    <3>1. ASSUME NEW k \in DOMAIN m_create_reply', Stored(k, u)' PROVE Awaits(u, k, m_create_reply[k].what)'
      <4>1. k = e.key
        BY <1>3, <2>1, <3>1 DEF NotStored, Stored
      <4> QED
        BY <1>3, <2>1, <4>1 DEF Awaits, Key
    <3> QED
      BY <3>1 DEF StoredOnce
  <2> QED
    BY <2>3, <2>4, <2>5 DEF OneAnswer, CommandOnce, ReplyOnce, NoCommand, NoReply
<1>6. CASE ~Reply(1, u)
  <2>1. StoreCarried(u)
    <3>1. ASSUME NEW k \in DOMAIN m_create_reply', Stored(k, u)' PROVE Stored(k, u) /\ m_create_reply'[k] = m_create_reply[k]
      <4>1. k # e.key
        BY <1>2, <1>3, <1>6, <3>1 DEF Stored, Reply
      <4> QED
        BY <1>3, <3>1, <4>1 DEF Stored
    <3> QED
      BY <3>1 DEF StoreCarried
  <2> QED
    BY <1>4, <1>6, <2>1, OneCarried DEF AllCarried
<1> QED
  BY <1>5, <1>6

\* What a thread finds under its key is its own, unless answers are mixed up.
LEMMA OwnEntry ==
    ASSUME Types, Locking, OwnAnswer, ~broken, NEW t \in Thread, thr[t].pc = "wait", Key(t) \in DOMAIN m_create_reply
    PROVE  /\ (Mixed /\ Key(t) = -1) \/ (m_create_reply[Key(t)].by = t /\ Stored(Key(t), t))
           /\ Key(t) = -1 <=> thr[t].op # "create"
<1> DEFINE v == m_create_reply[Key(t)].by
<1>1. v \in Thread /\ \A u \in Thread : thr[u].pc = "wait" => thr[u].op \in {"build", "add", "create", "property"}
  BY DEF Types, HostTypes, Place, Fits
<1>2. \A u \in Thread : thr[u].pc = "wait" => (Key(u) = -1 <=> thr[u].op # "create")
  <2>1. \A u \in Thread : thr[u].pc = "wait" /\ thr[u].op = "create" => thr[u].arg[1] \in Id
    BY DEF Types, Place, Fits, Requests
  <2> QED
    BY <2>1 DEF Key, Id
<1>3. ASSUME ~(Mixed /\ Key(t) = -1) PROVE v = t
  <2>1. Stored(Key(t), v)
    BY <1>3 DEF Stored
  <2>2. thr[v].pc = "wait" /\ Key(v) = Key(t)
    BY <1>1, <2>1 DEF OwnAnswer, OneAnswer, StoredOnce, Awaits
  <2>3. CASE Key(t) # -1
    BY <1>1, <1>2, <2>2, <2>3 DEF Locking, Inside
  <2>4. CASE Key(t) = -1
    <3>1. UsesNetKey(t) /\ UsesNetKey(v)
      BY <1>1, <1>2, <2>2, <2>4 DEF UsesNetKey
    <3> QED
      BY <1>1, <1>3, <2>4, <3>1 DEF OwnAnswer, OneUser
  <2> QED
    BY <2>3, <2>4
<1>4. ASSUME ~(Mixed /\ Key(t) = -1) PROVE v = t /\ Stored(Key(t), t)
  BY <1>3, <1>4 DEF Stored
<1> QED
  BY <1>2, <1>4

\* A thread uses the network's key only if no other does, or answers are mixed up.
LEMMA UsersMove ==
    ASSUME OwnAnswer, NEW t \in Thread, NEW p, NEW o, NEW a, NEW g, Moves(t, p, o, a, g), Mixed => Mixed',
           o \in {"build", "add", "property"} /\ p \in {"send", "wait"}
              => Mixed' \/ UsesNetKey(t) \/ \A u \in Thread \ {t} : ~UsesNetKey(u)
    PROVE  ~Mixed' => OneUser'
<1>1. ASSUME ~Mixed', NEW u \in Thread, NEW v \in Thread, UsesNetKey(u)', UsesNetKey(v)' PROVE u = v
  <2>1. OneUser
    BY <1>1 DEF OwnAnswer
  <2>2. \A w \in Thread : w # t => (UsesNetKey(w)' <=> UsesNetKey(w))
    BY DEF Moves, UsesNetKey
  <2>3. UsesNetKey(t)' => UsesNetKey(t) \/ \A w \in Thread \ {t} : ~UsesNetKey(w)
    BY <1>1 DEF Moves, UsesNetKey
  <2> QED
    BY <1>1, <2>1, <2>2, <2>3 DEF OneUser
<1> QED
  BY <1>1 DEF OneUser

\* A step of a thread that was not waiting, and sends nothing that is answered.
LEMMA ThreadAnswers ==
    ASSUME Types, OwnAnswer, NEW t \in Thread, NEW p, NEW o, NEW a, NEW g, Moves(t, p, o, a, g),
           thr[t].pc # "wait" \/ broken, Mixed => Mixed', "foreign" \in hist' => "foreign" \in hist,
           o \in {"build", "add", "property"} /\ p \in {"send", "wait"}
              => Mixed' \/ UsesNetKey(t) \/ \A u \in Thread \ {t} : ~UsesNetKey(u),
           m_create_reply' = m_create_reply, c2h' = c2h, m_critical_error' = m_critical_error,
           h2c' = h2c \/ \E m \in Message : ~Expects(m) /\ h2c' = Append(h2c, m)
    PROVE  OwnAnswer'
<1>1. h2c \in Seq(Message) /\ c2h \in Seq(Reported)
  BY DEF Types, CardTypes
<1>2. ~Mixed' => OneUser'
  BY UsersMove
<1>3. ASSUME ~broken, NEW u \in Thread PROVE OneAnswer(u)'
  <2>1. OneAnswer(u)
    BY <1>3 DEF OwnAnswer
  <2>2. CommandsCarried(u, 0)
    BY <1>1, CommandsStep
  <2>3. RepliesCarried(u, 0) /\ StoreCarried(u)
    BY <1>1, RepliesStep, StoreSame
  <2>4. thr'[u] = thr[u] \/ thr[u].pc # "wait"
    BY <1>3 DEF Moves
  <2> QED
    BY <2>1, <2>2, <2>3, <2>4, OneCarried DEF AllCarried
<1>4. broken' <=> broken
  BY DEF broken
<1>5. "foreign" \in hist' => Mixed'
  BY DEF OwnAnswer
<1> QED
  BY <1>2, <1>3, <1>4, <1>5 DEF OwnAnswer

\* A step that moves no thread.
LEMMA CarriedAnswers ==
    ASSUME OwnAnswer, thr' = thr, Mixed' <=> Mixed, "foreign" \in hist' => "foreign" \in hist, broken => broken',
           NEW d, NEW e, ~broken => \A u \in Thread : AllCarried(u, d, e)
    PROVE  OwnAnswer'
<1>1. ~broken => \A u \in Thread : OneAnswer(u)'
  BY OneCarried DEF OwnAnswer
<1> QED
  BY <1>1 DEF OwnAnswer, OneUser, UsesNetKey

\* t sends a command and waits, and the others go on.
LEMMA SentAnswers ==
    ASSUME Types, OwnAnswer, NEW t \in Thread, thr[t].pc # "wait", Goes(t, "wait"),
           Mixed => Mixed', "foreign" \in hist' => "foreign" \in hist,
           thr[t].op \in {"build", "add", "property"}
              => Mixed' \/ UsesNetKey(t) \/ \A u \in Thread \ {t} : ~UsesNetKey(u),
           m_create_reply' = m_create_reply, c2h' = c2h, m_critical_error' = m_critical_error,
           NEW m \in Message, h2c' = Append(h2c, m), m.op \in {"build", "add", "property", "create"} => m.by = t,
           m.op = thr[t].op, m.op = "create" => m.req = thr[t].arg, IsPage(m) => m.num_res = thr[t].arg[1]
    PROVE  OwnAnswer'
<1>1. h2c \in Seq(Message) /\ c2h \in Seq(Reported)
  BY DEF Types, CardTypes
<1>2. ~Mixed' => OneUser'
  BY UsersMove DEF Goes
<1>3. ASSUME ~broken, NEW u \in Thread PROVE OneAnswer(u)'
  <2>1. OneAnswer(u)
    BY <1>3 DEF OwnAnswer
  <2>2. CASE u = t
    <3>1. thr'[t].pc = "wait" /\ thr'[t].op = thr[t].op /\ thr'[t].arg = thr[t].arg
      BY DEF Goes, Moves
    <3>2. AwaitsOf(t, m)'
      BY <3>1 DEF AwaitsOf
    <3> QED
      BY <2>1, <2>2, <3>2, OneSent
  <2>3. CASE u # t
    <3>1. ~(Expects(m) /\ m.by = u /\ (Mixed' => m.op = "create"))
      BY <2>3 DEF Expects, IsPage
    <3>2. CommandsCarried(u, 0)
      BY <1>1, <3>1, CommandsStep
    <3>3. RepliesCarried(u, 0) /\ StoreCarried(u)
      BY <1>1, RepliesStep, StoreSame
    <3>4. thr'[u] = thr[u]
      BY <2>3 DEF Goes, Moves
    <3> QED
      BY <2>1, <3>2, <3>3, <3>4, OneCarried DEF AllCarried
  <2> QED
    BY <2>2, <2>3
<1>4. broken' <=> broken
  BY DEF broken
<1>5. "foreign" \in hist' => Mixed'
  BY DEF OwnAnswer
<1> QED
  BY <1>2, <1>3, <1>4, <1>5 DEF OwnAnswer

\* A thread reads its answer.
LEMMA ReadAnswers ==
    ASSUME Types, Locking, OwnAnswer, NEW t \in Thread, wait(t), ~broken
    PROVE  OwnAnswer'
<1>1. /\ thr[t].pc = "wait" /\ Key(t) \in DOMAIN m_create_reply /\ m_create_reply' = Erase(m_create_reply, Key(t))
      /\ hist' = IF m_create_reply[Key(t)].by # t THEN hist \cup {"foreign"} ELSE hist
      /\ m_critical_error' = m_critical_error /\ c2h' = c2h /\ h2c' = h2c
      /\ Moves(t, "answered", thr[t].op, thr[t].arg, m_create_reply[Key(t)].what)
  BY Wait
<1>2. (Mixed /\ Key(t) = -1) \/ (m_create_reply[Key(t)].by = t /\ Stored(Key(t), t))
  BY <1>1, OwnEntry
<1>3. Key(t) = -1 => thr[t].op # "create"
  BY <1>1, OwnEntry
<1>4. (Mixed' <=> Mixed) /\ ("foreign" \in hist' => Mixed')
  BY <1>1, <1>2 DEF Mixed, OwnAnswer
<1>5. h2c \in Seq(Message) /\ c2h \in Seq(Reported)
  BY DEF Types, CardTypes
<1>6. \A k \in DOMAIN m_create_reply' : k \in DOMAIN m_create_reply /\ k # Key(t) /\ m_create_reply'[k] = m_create_reply[k]
  BY <1>1 DEF Erase
<1>7. \A u \in Thread : AllCarried(u, 0, 0)
  <2>1. \A u \in Thread : StoreCarried(u)
    BY <1>4, <1>6 DEF StoreCarried, Stored
  <2> QED
    BY <1>1, <1>4, <1>5, <2>1, CommandsStep, RepliesStep DEF AllCarried
<1>8. OneAnswer(t)
  BY DEF OwnAnswer
<1>9. Nothing(t)'
  <2>1. NoCommand(t) /\ NoReply(t) /\ \A k \in DOMAIN m_create_reply : Stored(k, t) => k = Key(t)
    <3>1. CASE Stored(Key(t), t)
      BY <1>1, <1>8, <3>1
      DEF OneAnswer, CommandOnce, ReplyOnce, StoredOnce, NotStored, NoCommand, NoReply, Awaits
    <3>2. CASE Mixed /\ Key(t) = -1
      BY <1>3, <1>8, <3>2
      DEF OneAnswer, CommandOnce, ReplyOnce, StoredOnce, Awaits, AwaitsOf, Command, Reply, NoCommand, NoReply
    <3> QED
      BY <1>2, <3>1, <3>2
  <2>2. NoCommand(t)' /\ NoReply(t)'
    BY <1>7, <2>1 DEF AllCarried, CommandsCarried, RepliesCarried, NoCommand, NoReply, Command, Reply
  <2>3. NotStored(t)'
    BY <1>6, <1>7, <2>1 DEF AllCarried, StoreCarried, NotStored, Stored
  <2> QED
    BY <2>2, <2>3 DEF Nothing
<1>10. ASSUME NEW u \in Thread PROVE OneAnswer(u)'
  <2>1. CASE u = t
    <3>1. Nothing(u)'
      BY <1>9, <2>1
    <3> QED
      BY <3>1, NothingIsOne, PTL
  <2>2. CASE u # t
    <3>1. OneAnswer(u) /\ thr'[u] = thr[u]
      BY <1>1, <2>2 DEF OwnAnswer, Moves
    <3> QED
      BY <1>7, <3>1, OneCarried
  <2> QED
    BY <2>1, <2>2
<1>11. ~Mixed' => OneUser'
  BY <1>1, <1>4, UsersMove
<1> QED
  BY <1>4, <1>10, <1>11 DEF OwnAnswer

LEMMA OwnAnswerHeld == ASSUME Types, Locking, Pages, Stage, OwnAnswer, [NetNext]_netVars PROVE OwnAnswer'
<1>0. h2c \in Seq(Message) /\ c2h \in Seq(Reported) /\ thr \in [Thread -> ThreadState] /\ \A t \in Thread : Place(t)
  BY DEF Types, HostTypes, CardTypes
<1> USE DEF SameHost, SameContext
<1>s. ASSUME NEW t \in Thread, NEW p, NEW o, NEW a, NEW g, Moves(t, p, o, a, g), thr[t].pc # "wait" \/ broken,
             p \notin {"send", "wait"}, Mixed => Mixed', "foreign" \in hist' => "foreign" \in hist,
             SameContext, c2h' = c2h, h2c' = h2c \/ \E m \in Message : ~Expects(m) /\ h2c' = Append(h2c, m)
      PROVE  OwnAnswer'
  BY <1>s, ThreadAnswers
<1>r. ASSUME NEW t \in Thread, Returns(t), thr[t].pc # "wait", Mixed => Mixed', "foreign" \in hist' => "foreign" \in hist,
             SameContext, c2h' = c2h, h2c' = h2c
      PROVE  OwnAnswer'
  <2>1. Moves(t, "idle", "none", <<0, 0>>, Failure("none"))
    BY <1>r DEF Returns
  <2> QED
    BY <1>r, <2>1, <1>s
<1>1. ASSUME NEW t \in Thread, from_file(t) PROVE OwnAnswer'
  <2>1. CASE Returns(t)
    BY <1>1, <1>r, <2>1, FromFile DEF Mixed
  <2>2. ASSUME NEW to \in {"lock", "file1"}, NEW k \in Nat \ {0}, Moves(t, to, "build", <<k, 1>>, thr[t].got) PROVE OwnAnswer'
    BY <1>1, <1>s, <2>2, FromFile DEF Mixed
  <2> QED
    BY <1>1, <2>1, <2>2, FromFile
<1>2. ASSUME NEW t \in Thread, build_done(t) PROVE OwnAnswer'
  BY <1>2, <1>r, BuildDone DEF Mixed
<1>3. ASSUME NEW t \in Thread, add_test(t) PROVE OwnAnswer'
  <2>1. CASE Returns(t)
    BY <1>3, <1>r, <2>1, AddTest DEF Mixed
  <2>2. CASE Goes(t, "lock")
    BY <1>3, <1>s, <2>2, AddTest DEF Mixed, Goes
  <2> QED
    BY <1>3, <2>1, <2>2, AddTest
<1>4. ASSUME NEW t \in Thread, lock(t) PROVE OwnAnswer'
  <2>1. /\ thr[t].pc = "lock" /\ m_mutex = NoOne /\ SameHost /\ h2c' = h2c /\ thr[t].op \in {"build", "add", "create"}
        /\ (Mixed => Mixed') /\ ("foreign" \in hist' => "foreign" \in hist)
        /\ (thr[t].op = "add" /\ \E u \in Thread : UsesNetKey(u) /\ thr[u].op = "property") => Mixed'
    BY <1>0, <1>4, Lock DEF Mixed, Place, Fits
  <2>2. CASE Goes(t, "send")
    <3>1. ASSUME thr[t].op \in {"build", "add", "property"}, ~Mixed', NEW u \in Thread \ {t}, UsesNetKey(u) PROVE FALSE
      <4>1. m_mutex # u
        BY <2>1, NetworkAssumption
      <4>2. ~Inside(thr[u].pc, thr[u].op)
        BY <4>1 DEF Locking
      <4>3. thr[u].op = "property"
        BY <3>1, <4>2 DEF Inside, UsesNetKey
      <4>4. thr[t].op = "build"
        BY <2>1, <3>1, <4>3
      <4>5. ~Built
        BY <4>4 DEF Stage, Kept
      <4> QED
        BY <4>3, <4>5 DEF Stage, Unbuilt
    <3>2. thr[t].op \in {"build", "add", "property"} => Mixed' \/ \A u \in Thread \ {t} : ~UsesNetKey(u)
      BY <3>1
    <3> QED
      BY <2>1, <2>2, <3>2, ThreadAnswers DEF Goes
  <2>3. CASE Moves(t, "answered", thr[t].op, thr[t].arg, Failure("broken"))
    BY <2>1, <2>3, <1>s
  <2> QED
    BY <1>4, <2>2, <2>3, Lock
<1>5. ASSUME NEW t \in Thread, send_page(t) PROVE OwnAnswer'
  <2>1. /\ thr[t].pc = "send" /\ thr[t].op \in {"build", "add"} /\ SameHost /\ hist' = hist /\ Sending(t) /\ UsesNetKey(t)
    BY <1>5, SendPage DEF Sending, UsesNetKey
  <2>2. PICK m \in Message :
          /\ m = PageOf(t, n_res(t), n_conf(t)) /\ m.op = thr[t].op /\ m.num_res = thr[t].arg[1] /\ IsPage(m) /\ m.by = t
          /\ m.size = thr[t].arg[1] + thr[t].arg[2] /\ End(m) = Sent(t)[1] + Sent(t)[2]
    BY <2>1, NextPage
  <2>3. ASSUME h2c' = Append(h2c, m), Sent(t) # thr[t].arg, thr' = thr PROVE OwnAnswer'
    <3>1. thr[t].arg \in Nat \X Nat /\ Sent(t) \in Nat \X Nat /\ Sent(t)[1] + Sent(t)[2] < thr[t].arg[1] + thr[t].arg[2]
      BY <2>1, <2>3, PageSent, PageSize
    <3>2. End(m) # m.size
      BY <2>2, <3>1
    <3>3. ~Expects(m)
      BY <2>2, <3>2 DEF Expects, IsPage
    <3>4. Moves(t, thr[t].pc, thr[t].op, thr[t].arg, thr[t].got)
      BY <1>0, <2>3 DEF Moves
    <3> QED
      BY <2>1, <2>3, <3>3, <3>4, ThreadAnswers DEF Mixed
  <2>4. ASSUME h2c' = Append(h2c, m), Goes(t, "wait") PROVE OwnAnswer'
    <3>1. m.op # "create"
      BY <2>2 DEF IsPage
    <3> QED
      BY <2>1, <2>2, <2>4, <3>1, SentAnswers DEF Mixed
  <2>5. ASSUME h2c' = h2c, Moves(t, "answered", thr[t].op, thr[t].arg, Failure("io_error")) PROVE OwnAnswer'
    BY <2>1, <2>5, <1>s DEF Mixed
  <2> QED
    BY <1>5, <2>2, <2>3, <2>4, <2>5, SendPage
<1>6. ASSUME NEW t \in Thread, wait(t) PROVE OwnAnswer'
  <2>1. CASE broken
    <3>1. Moves(t, "answered", thr[t].op, thr[t].arg, Failure("broken")) /\ m_create_reply' = m_create_reply
      BY <1>6, <2>1, Wait
    <3> QED
      BY <1>6, <1>s, <2>1, <3>1, Wait DEF Mixed
  <2>2. CASE ~broken
    BY <1>6, <2>2, ReadAnswers
  <2> QED
    BY <2>1, <2>2
<1>7. ASSUME NEW t \in Thread, add_insert(t) PROVE OwnAnswer'
  <2>1. thr[t].pc = "answered" /\ SameHost /\ h2c' = h2c /\ (Mixed => Mixed') /\ ("foreign" \in hist' => "foreign" \in hist)
    BY <1>7, AddInsert DEF Mixed
  <2>2. CASE Returns(t)
    BY <1>r, <1>7, <2>2, AddInsert DEF Mixed
  <2>3. CASE Goes(t, "insert")
    BY <1>s, <1>7, <2>3, AddInsert DEF Mixed, Goes
  <2> QED
    BY <1>7, <2>2, <2>3, AddInsert
<1>8. ASSUME NEW t \in Thread, add_done(t) PROVE OwnAnswer'
  BY <1>8, <1>r, AddDone DEF Mixed
<1>9. ASSUME NEW t \in Thread, property_send(t) PROVE OwnAnswer'
  <2>1. /\ thr[t].pc = "property" /\ thr[t].op = "property" /\ SameHost
        /\ (Mixed => Mixed') /\ ("foreign" \in hist' => "foreign" \in hist)
        /\ Mixed' \/ \A u \in Thread \ {t} : ~UsesNetKey(u)
    <3>1. hist' = IF \E u \in Thread \ {t} : UsesNetKey(u) THEN hist \cup {"overlap"} ELSE hist
      BY <1>9, PropertySend
    <3>2. (Mixed => Mixed') /\ ("foreign" \in hist' => "foreign" \in hist)
      BY <3>1 DEF Mixed
    <3>3. Mixed' \/ \A u \in Thread \ {t} : ~UsesNetKey(u)
      BY <3>1 DEF Mixed
    <3> QED
      BY <1>9, <3>2, <3>3, PropertySend
  <2>2. ASSUME h2c' = Append(h2c, [op |-> "property", by |-> t]), Goes(t, "wait") PROVE OwnAnswer'
    <3>1. PICK m \in Message : m = [op |-> "property", by |-> t]
      BY Messages
    <3>2. m.op = "property" /\ m.by = t /\ ~IsPage(m)
      BY <3>1 DEF IsPage
    <3> QED
      BY <2>1, <2>2, <3>1, <3>2, SentAnswers
  <2>3. ASSUME h2c' = h2c, Returns(t) PROVE OwnAnswer'
    BY <1>r, <2>1, <2>3
  <2> QED
    BY <1>9, <2>2, <2>3, PropertySend
<1>10. ASSUME NEW t \in Thread, property_done(t) PROVE OwnAnswer'
  BY <1>10, <1>r, PropertyDone DEF Mixed
<1>11. ASSUME NEW t \in Thread, create_alloc(t) PROVE OwnAnswer'
  <2>1. /\ thr[t].pc = "create" /\ SameContext /\ h2c' = h2c /\ c2h' = c2h
        /\ (Mixed => Mixed') /\ ("foreign" \in hist' => "foreign" \in hist)
    BY <1>11, CreateAlloc DEF Mixed
  <2>2. CASE Returns(t)
    BY <1>r, <2>1, <2>2
  <2>3. ASSUME NEW id \in Id, Moves(t, "lock", "create", <<id, made + 1>>, thr[t].got) PROVE OwnAnswer'
    BY <1>s, <2>1, <2>3
  <2> QED
    BY <1>11, <2>2, <2>3, CreateAlloc
<1>12. ASSUME NEW t \in Thread, create_send(t) PROVE OwnAnswer'
  <2>1. /\ thr[t].pc = "send" /\ thr[t].op = "create" /\ thr[t].arg \in Requests /\ SameHost /\ hist' = hist
    BY <1>12, CreateSend
  <2>2. ASSUME h2c' = Append(h2c, [op |-> "create", by |-> t, req |-> thr[t].arg]), Goes(t, "wait") PROVE OwnAnswer'
    <3>1. PICK m \in Message : m = [op |-> "create", by |-> t, req |-> thr[t].arg]
      BY <2>1, Messages
    <3>2. m.op = "create" /\ m.by = t /\ m.req = thr[t].arg /\ ~IsPage(m)
      BY <3>1 DEF IsPage
    <3> QED
      BY <2>1, <2>2, <3>1, <3>2, SentAnswers DEF Mixed
  <2>3. ASSUME h2c' = h2c, Moves(t, "answered", "create", thr[t].arg, Failure("io_error")) PROVE OwnAnswer'
    BY <1>s, <2>1, <2>3 DEF Mixed
  <2> QED
    BY <1>12, <2>2, <2>3, CreateSend
<1>13. ASSUME NEW t \in Thread, create_done(t) PROVE OwnAnswer'
  BY <1>13, <1>r, CreateDone DEF Mixed
<1>14. ASSUME NEW t \in Thread, destroy_send(t) PROVE OwnAnswer'
  <2>1. /\ thr[t].pc = "destroy" /\ thr[t].arg \in Requests /\ Goes(t, "remove") /\ SameHost /\ hist' = hist
        /\ h2c' = h2c \/ h2c' = Append(h2c, [op |-> "destroy", req |-> thr[t].arg])
    BY <1>14, DestroySend
  <2>2. PICK m \in Message : m = [op |-> "destroy", req |-> thr[t].arg] /\ ~Expects(m)
    BY <2>1, Messages DEF Expects, IsPage
  <2> QED
    BY <1>s, <2>1, <2>2 DEF Mixed, Goes
<1>15. ASSUME NEW t \in Thread, destroy_remove(t) PROVE OwnAnswer'
  BY <1>15, <1>r, DestroyRemove DEF Mixed
<1>16. ASSUME NEW t \in Thread, destroy_net_send(t) PROVE OwnAnswer'
  <2>1. thr[t].pc = "destroy_net" /\ SameHost /\ hist' = hist
    BY <1>16, DestroyNetSend
  <2>2. PICK m \in Message : m = [op |-> "destroy_net"] /\ ~Expects(m)
    BY Messages DEF Expects, IsPage
  <2>3. CASE Goes(t, "remove")
    <3>1. h2c' = h2c \/ h2c' = Append(h2c, m)
      BY <1>16, <2>2, DestroyNetSend
    <3> QED
      BY <1>s, <2>1, <2>2, <2>3, <3>1 DEF Mixed, Goes
  <2>4. CASE Returns(t) /\ h2c' = h2c
    BY <1>r, <2>1, <2>4 DEF Mixed
  <2> QED
    BY <1>16, <2>3, <2>4, DestroyNetSend
<1>17. ASSUME NEW t \in Thread, destroy_net_remove(t) PROVE OwnAnswer'
  BY <1>17, <1>r, DestroyNetRemove DEF Mixed
<1>18. ASSUME NEW t \in Thread, NEW c \in Call, find_network(t, c) PROVE OwnAnswer'
  <2>1. PICK s : Moves(t, c, c, s, thr[t].got)
    BY <1>18, FindNetwork
  <2>2. thr[t].pc = "idle" /\ c \notin {"send", "wait"} /\ SameHost /\ h2c' = h2c /\ hist' = hist
    BY <1>18, FindNetwork, IdleType DEF Call
  <2> QED
    BY <1>s, <2>1, <2>2 DEF Mixed
<1>19. ASSUME NEW t \in Thread, NEW r \in s_infreqs, find_infreq(t, r) PROVE OwnAnswer'
  <2>1. /\ thr[t].pc = "idle" /\ Moves(t, "destroy", "destroy", r, thr[t].got) /\ SameHost /\ h2c' = h2c
        /\ (Mixed => Mixed') /\ ("foreign" \in hist' => "foreign" \in hist)
    BY <1>19, FindRequest, IdleType DEF Mixed
  <2> QED
    BY <1>s, <2>1
<1>c. ASSUME thr' = thr, m_create_reply' = m_create_reply, Mixed' <=> Mixed, "foreign" \in hist' => "foreign" \in hist,
             broken => broken', h2c' = h2c \/ (h2c # <<>> /\ h2c' = Tail(h2c)),
             \/ c2h' = c2h
             \/ c2h # <<>> /\ c2h' = Tail(c2h)
             \/ \E m \in Reported : m.op # "reply" /\ c2h' = Append(c2h, m)
      PROVE  OwnAnswer'
  <2>1. PICK d \in {0, 1} : \A u \in Thread : CommandsCarried(u, d)
    BY <1>0, <1>c, CommandsStep
  <2>2. PICK e \in {0, 1} : \A u \in Thread : RepliesCarried(u, e)
    <3>1. CASE c2h' = c2h
      BY <1>0, <1>c, <3>1, RepliesStep
    <3>2. CASE c2h # <<>> /\ c2h' = Tail(c2h)
      BY <1>0, <1>c, <3>2, RepliesStep
    <3>3. ASSUME NEW m \in Reported, m.op # "reply", c2h' = Append(c2h, m) PROVE \A u \in Thread : RepliesCarried(u, 0)
      BY <1>0, <1>c, <3>3, RepliesStep
    <3> QED
      BY <1>c, <3>1, <3>2, <3>3
  <2>3. \A u \in Thread : AllCarried(u, d, e)
    BY <1>c, <2>1, <2>2, StoreSame DEF AllCarried
  <2> QED
    BY <1>c, <2>3, CarriedAnswers
<1>20. ASSUME process_create_reply PROVE OwnAnswer'
  <2>1. /\ c2h # <<>> /\ Head(c2h).op = "reply" /\ c2h' = Tail(c2h) /\ thr' = thr /\ h2c' = h2c /\ hist' = hist
        /\ m_create_reply' = Put(m_create_reply, Head(c2h).key, [what |-> Head(c2h).what, by |-> Head(c2h).by])
        /\ m_critical_error' = m_critical_error
    BY <1>20, ReplyStep DEF SameLocal
  <2>2. ~broken => \A u \in Thread : OneAnswer(u)'
    BY <2>1, OneStored DEF OwnAnswer, Mixed
  <2> QED
    BY <2>1, <2>2 DEF OwnAnswer, OneUser, UsesNetKey, Mixed, broken
<1>21. ASSUME infreq_destroyed \/ devnet_destroyed PROVE OwnAnswer'
  <2>1. SameLocal /\ SameContext /\ c2h # <<>> /\ c2h' = Tail(c2h)
    BY <1>21, RequestGone, NetworkGone
  <2> QED
    BY <1>c, <2>1 DEF SameLocal, Mixed, broken
<1>22. ASSUME critical_event PROVE OwnAnswer'
  <2>1. /\ SameLocal /\ m_create_reply' = m_create_reply /\ c2h # <<>> /\ c2h' = Tail(c2h)
        /\ Head(c2h).op \in {"context", "card"}
        /\ m_critical_error' = IF broken THEN m_critical_error ELSE Head(c2h).op
    BY <1>22, Critical
  <2>2. broken'
    BY <2>1 DEF broken
  <2> QED
    BY <1>c, <2>1, <2>2 DEF SameLocal, Mixed
<1>a. ASSUME NEW m, m = Head(h2c), h2c # <<>>, Expects(m), h2c' = Tail(h2c), SameDriver,
             Mixed' <=> Mixed, "foreign" \in hist' => "foreign" \in hist, NEW w \in Answers, w.of = m.op,
             c2h' = Append(c2h, ReplyTo(IF m.op = "create" THEN m.req[1] ELSE -1, w))
      PROVE  OwnAnswer'
  <2>1. PICK key \in Id \cup {-1} : key = IF m.op = "create" THEN m.req[1] ELSE -1
    <3>1. m \in Message
      BY <1>0, <1>a, TailOf
    <3>2. m.op = "create" => m.req[1] \in Id
      BY <3>1, MessageFields DEF Requests
    <3> QED
      BY <3>2
  <2>2. thr' = thr /\ m_create_reply' = m_create_reply /\ m_critical_error' = m_critical_error
    BY <1>a DEF SameDriver
  <2>3. ~broken => \A u \in Thread : OneAnswer(u)'
    BY <1>a, <2>1, <2>2, OneAnswered DEF OwnAnswer
  <2> QED
    BY <1>a, <2>2, <2>3 DEF OwnAnswer, OneUser, UsesNetKey, broken
<1>23. ASSUME card_page PROVE OwnAnswer'
  <2>1. PICK m : m = Head(h2c)
    OBVIOUS
  <2>2. /\ h2c # <<>> /\ h2c' = Tail(h2c) /\ SameDriver /\ m.op \in {"build", "add"}
        /\ (Mixed' <=> Mixed) /\ ("foreign" \in hist' => "foreign" \in hist)
    <3>1. hist' = hist \/ PageLast(m)
      BY <1>23, <2>1, CardPage DEF PageKept
    <3> QED
      BY <1>23, <2>1, <3>1, CardPage DEF PageLast, Mixed
  <2>3. CASE PageKept(m)
    BY <1>c, <2>2, <2>3 DEF PageKept, SameDriver, broken
  <2>4. CASE ~PageKept(m)
    <3>1. Expects(m)
      <4>1. End(m) = m.size /\ IsPage(m)
        BY <1>23, <2>1, <2>4, TakenPage
      <4> QED
        BY <4>1 DEF Expects
    <3>2. \E w \in {Success(m.op), Failure(m.op)} : c2h' = Append(c2h, ReplyTo(-1, w))
      BY <1>23, <2>1, <2>4, CardPage DEF PageMade, PageRefused
    <3>3. Success(m.op) \in Answers /\ Failure(m.op) \in Answers /\ Success(m.op).of = m.op /\ Failure(m.op).of = m.op
      BY <2>2, Outcomes DEF Success, Failure, Call
    <3>4. (IF m.op = "create" THEN m.req[1] ELSE -1) = -1
      BY <2>2
    <3> QED
      BY <1>a, <2>1, <2>2, <3>1, <3>2, <3>3, <3>4
  <2> QED
    BY <2>3, <2>4
<1>24. ASSUME card_asked PROVE OwnAnswer'
  <2>1. PICK m : m = Head(h2c)
    OBVIOUS
  <2>2. h2c # <<>> /\ h2c' = Tail(h2c) /\ SameDriver /\ m.op \in {"property", "create"} /\ hist' = hist
    BY <1>24, <2>1, CardAsked
  <2>3. \E w \in {Success(m.op), Failure(m.op)} : c2h' = Append(c2h, ReplyTo(IF m.op = "create" THEN m.req[1] ELSE -1, w))
    BY <1>24, <2>1, CardAsked
  <2>4. Success(m.op) \in Answers /\ Failure(m.op) \in Answers /\ Success(m.op).of = m.op /\ Failure(m.op).of = m.op
    BY <2>2, Outcomes DEF Success, Failure, Call
  <2>5. Expects(m)
    BY <2>2 DEF Expects
  <2> QED
    BY <1>a, <2>1, <2>2, <2>3, <2>4, <2>5 DEF Mixed
<1>25. ASSUME card_destroys \/ card_net_destroy PROVE OwnAnswer'
  <2>1. /\ h2c # <<>> /\ h2c' = Tail(h2c) /\ SameDriver /\ Head(h2c).op \in {"destroy", "destroy_net"}
        /\ (Mixed' <=> Mixed) /\ ("foreign" \in hist' => "foreign" \in hist)
    BY <1>25, CardDestroys, CardNetDestroy DEF Mixed
  <2>2. c2h' = c2h \/ \E m \in Reported : m.op # "reply" /\ c2h' = Append(c2h, m)
    <3>1. CASE c2h' = c2h
      BY <3>1
    <3>2. CASE c2h' # c2h
      <4>1. Head(h2c).op = "destroy" /\ c2h' = Append(c2h, [op |-> "infreq_destroyed", id |-> Head(h2c).req[1]])
        BY <1>25, <3>2, CardDestroys, CardNetDestroy
      <4>2. Head(h2c).req[1] \in Id
        BY <1>0, <2>1, <4>1, TailOf, MessageFields DEF Requests
      <4>3. PICK m \in Reported : m = [op |-> "infreq_destroyed", id |-> Head(h2c).req[1]]
        BY <4>2, Reports
      <4>4. m.op # "reply"
        BY <4>3
      <4> QED
        BY <4>1, <4>3, <4>4
    <3> QED
      BY <3>1, <3>2
  <2> QED
    BY <1>c, <2>1, <2>2 DEF SameDriver, broken
<1>26. ASSUME card_net_gone \/ card_event PROVE OwnAnswer'
  <2>1. SameDriver /\ h2c' = h2c /\ hist' = hist
    BY <1>26, CardNetGone, CardEvent
  <2>2. \E e \in {"devnet_destroyed", "context", "card"} : c2h' = Append(c2h, [op |-> e])
    BY <1>26, CardNetGone, CardEvent
  <2>3. \E m \in Reported : m.op # "reply" /\ c2h' = Append(c2h, m)
    <3>1. PICK e \in {"devnet_destroyed", "context", "card"} : c2h' = Append(c2h, [op |-> e])
      BY <2>2
    <3>2. PICK m \in Reported : m = [op |-> e]
      BY Reports
    <3>3. m.op # "reply"
      BY <3>2
    <3> QED
      BY <3>1, <3>2, <3>3
  <2> QED
    BY <1>c, <2>1, <2>3 DEF SameDriver, Mixed, broken
<1>27. CASE UNCHANGED netVars
  BY <1>27, <1>c, Stutter DEF SameDriver, Mixed, broken
<1> QED
  BY <1>1, <1>2, <1>3, <1>4, <1>5, <1>6, <1>7, <1>8, <1>9, <1>10, <1>11, <1>12, <1>13, <1>14, <1>15, <1>16, <1>17,
     <1>18, <1>19, <1>20, <1>21, <1>22, <1>23, <1>24, <1>25, <1>26, <1>27 DEF NetNext, Do, Begin, Respond, CardWork

-----------------------------------------------------------------------------
(***************************************************************************)
(* The numbers of requests                                                 *)
(***************************************************************************)

Creating(t) == thr[t].op = "create" /\ thr[t].pc # "create"
Destroying(t) == thr[t].op = "destroy"
DestroyAt(k) == k \in DOMAIN h2c /\ h2c[k].op = "destroy"

\* A handle has the number, or a call that destroys, or its message.
Named(n) ==
    \/ \E r \in s_infreqs : r[2] = n
    \/ \E t \in Thread : Destroying(t) /\ thr[t].arg[2] = n
    \/ \E k \in DOMAIN h2c : DestroyAt(k) /\ h2c[k].req[2] = n

\* A request that is being created has a number of its own, that nothing names yet.
Numbered ==
    /\ \A t \in Thread : Creating(t) =>
          /\ thr[t].arg[2] <= made /\ ~Named(thr[t].arg[2])
          /\ \A u \in Thread : Creating(u) /\ thr[u].arg[2] = thr[t].arg[2] => u = t
    /\ \A n \in Nat : Named(n) => n <= made

LEMMA NumbersKept ==
    ASSUME Types, Numbered, made' = made, \A u \in Thread : Creating(u)' => Creating(u) /\ thr'[u].arg = thr[u].arg,
           \A n \in Nat : Named(n)' => Named(n)
    PROVE  Numbered'
<1>1. \A u \in Thread : thr[u].arg[2] \in Nat
  BY DEF Types, HostTypes, ThreadState
<1>2. ASSUME NEW t \in Thread, Creating(t)'
      PROVE  /\ (thr[t].arg[2] <= made)' /\ ~Named(thr[t].arg[2])'
             /\ \A u \in Thread : Creating(u)' /\ thr'[u].arg[2] = thr'[t].arg[2] => u = t
  <2>1. Creating(t) /\ thr'[t].arg = thr[t].arg
    BY <1>2
  <2>2. PICK n \in Nat : n = thr[t].arg[2]
    BY <1>1
  <2>3. n <= made /\ ~Named(n)
    BY <2>1, <2>2 DEF Numbered
  <2>4. ~Named(n)' /\ n = thr'[t].arg[2]
    BY <2>1, <2>2, <2>3
  <2>5. ~Named(thr[t].arg[2])'
    BY <2>4 DEF Named
  <2> QED
    BY <2>1, <2>2, <2>3, <2>5 DEF Numbered
<1>3. \A n \in Nat : Named(n)' => n <= made'
  BY DEF Numbered
<1> QED
  BY <1>2, <1>3 DEF Numbered

\* A call, or a message, destroys r.
ToDestroy(r) ==
    \/ \E j \in DOMAIN h2c : DestroyAt(j) /\ r = h2c[j].req
    \/ \E u \in Thread : Destroying(u) /\ r = thr[u].arg

LEMMA NamedKept ==
    ASSUME \A u \in Thread : Destroying(u)' => (Destroying(u) /\ thr'[u].arg = thr[u].arg) \/ thr'[u].arg \in s_infreqs,
           s_infreqs' \subseteq s_infreqs,
           \A k \in DOMAIN h2c' : DestroyAt(k)' => ToDestroy(h2c'[k].req)
    PROVE  \A n \in Nat : Named(n)' => Named(n)
<1>1. ASSUME NEW n \in Nat, NEW r \in s_infreqs', r[2] = n PROVE Named(n)
  BY <1>1 DEF Named
<1>2. ASSUME NEW n \in Nat, NEW u \in Thread, Destroying(u)', thr'[u].arg[2] = n PROVE Named(n)
  BY <1>2 DEF Named
<1>3. ASSUME NEW n \in Nat, NEW k \in DOMAIN h2c', DestroyAt(k)', h2c'[k].req[2] = n PROVE Named(n)
  BY <1>3 DEF Named, ToDestroy
<1> QED
  BY <1>1, <1>2, <1>3 DEF Named

LEMMA ThreadNumbers ==
    ASSUME Types, Numbered, NEW t \in Thread, NEW p, NEW o, NEW a, NEW g, Moves(t, p, o, a, g), made' = made,
           o = "create" /\ p # "create" => Creating(t) /\ a = thr[t].arg,
           o = "destroy" => (Destroying(t) /\ a = thr[t].arg) \/ a \in s_infreqs,
           s_infreqs' \subseteq s_infreqs,
           \/ h2c' = h2c
           \/ \E m \in Message : (m.op = "destroy" => Destroying(t) /\ m.req = thr[t].arg) /\ h2c' = Append(h2c, m)
    PROVE  Numbered'
<1>1. h2c \in Seq(Message)
  BY DEF Types, CardTypes
<1>2. \A u \in Thread : Creating(u)' => Creating(u) /\ thr'[u].arg = thr[u].arg
  BY DEF Creating, Moves
<1>3. \A u \in Thread : Destroying(u)' => (Destroying(u) /\ thr'[u].arg = thr[u].arg) \/ thr'[u].arg \in s_infreqs
  BY DEF Destroying, Moves
<1>4. ASSUME NEW k \in DOMAIN h2c', DestroyAt(k)'
      PROVE  ToDestroy(h2c'[k].req)
  <2>1. CASE h2c' = h2c
    BY <1>4, <2>1 DEF DestroyAt, ToDestroy
  <2>2. ASSUME NEW m \in Message, m.op = "destroy" => Destroying(t) /\ m.req = thr[t].arg, h2c' = Append(h2c, m) PROVE ToDestroy(h2c'[k].req)
    <3>1. /\ \A i \in DOMAIN h2c : h2c'[i] = h2c[i]
          /\ \A i \in DOMAIN h2c' : i \in DOMAIN h2c \/ i = Len(h2c) + 1
          /\ h2c'[Len(h2c) + 1] = m
      BY <1>1, <2>2, AppendTo
    <3>2. CASE k \in DOMAIN h2c
      BY <1>4, <3>1, <3>2 DEF DestroyAt, ToDestroy
    <3>3. CASE k = Len(h2c) + 1
      BY <1>4, <2>2, <3>1, <3>3 DEF DestroyAt, ToDestroy
    <3> QED
      BY <3>1, <3>2, <3>3
  <2> QED
    BY <2>1, <2>2
<1>5. \A n \in Nat : Named(n)' => Named(n)
  BY <1>3, <1>4, NamedKept
<1> QED
  BY <1>2, <1>5, NumbersKept

LEMMA OtherNumbers ==
    ASSUME Types, Numbered, thr' = thr, made' = made, s_infreqs' = s_infreqs,
           h2c' = h2c \/ (h2c # <<>> /\ h2c' = Tail(h2c))
    PROVE  Numbered'
<1>1. h2c \in Seq(Message)
  BY DEF Types, CardTypes
<1>2. \A u \in Thread : (Creating(u)' => Creating(u) /\ thr'[u].arg = thr[u].arg)
                        /\ (Destroying(u)' => Destroying(u) /\ thr'[u].arg = thr[u].arg)
  BY DEF Creating, Destroying
<1>3. ASSUME NEW k \in DOMAIN h2c', DestroyAt(k)' PROVE ToDestroy(h2c'[k].req)
  <2>1. CASE h2c' = h2c
    BY <1>3, <2>1 DEF DestroyAt, ToDestroy
  <2>2. CASE h2c # <<>> /\ h2c' = Tail(h2c)
    <3>1. k + 1 \in DOMAIN h2c /\ h2c'[k] = h2c[k + 1]
      BY <1>1, <1>3, <2>2, TailOf
    <3> QED
      BY <1>3, <3>1 DEF DestroyAt, ToDestroy
  <2> QED
    BY <2>1, <2>2
<1>4. \A n \in Nat : Named(n)' => Named(n)
  BY <1>2, <1>3, NamedKept
<1> QED
  BY <1>2, <1>4, NumbersKept

LEMMA NumberedHeld == ASSUME Types, Locking, Numbered, [NetNext]_netVars PROVE Numbered'
<1>0. /\ thr \in [Thread -> ThreadState] /\ made \in Nat /\ s_infreqs \subseteq Requests
      /\ \A t \in Thread : Place(t) /\ thr[t].arg[2] \in Nat
  BY DEF Types, HostTypes, ThreadState
<1> USE DEF SameHost, SameMaps, SameLocal
<1>r. ASSUME NEW t \in Thread, Returns(t), made' = made, s_infreqs' \subseteq s_infreqs, h2c' = h2c PROVE Numbered'
  <2>1. Moves(t, "idle", "none", <<0, 0>>, Failure("none"))
    BY <1>r DEF Returns
  <2> QED
    BY <1>r, <2>1, ThreadNumbers
<1>g. ASSUME NEW t \in Thread, NEW p, p # "create", NEW g, Moves(t, p, thr[t].op, thr[t].arg, g), thr[t].pc # "create",
             made' = made, s_infreqs' \subseteq s_infreqs,
             h2c' = h2c \/ \E m \in Message : (m.op = "destroy" => Destroying(t) /\ m.req = thr[t].arg) /\ h2c' = Append(h2c, m)
      PROVE  Numbered'
  BY <1>g, ThreadNumbers DEF Creating, Destroying
<1>1. ASSUME NEW t \in Thread, from_file(t) PROVE Numbered'
  <2>1. CASE Returns(t)
    BY <1>1, <1>r, <2>1, FromFile
  <2>2. ASSUME NEW to \in {"lock", "file1"}, NEW k \in Nat \ {0}, Moves(t, to, "build", <<k, 1>>, thr[t].got) PROVE Numbered'
    BY <1>1, <2>2, FromFile, ThreadNumbers
  <2> QED
    BY <1>1, <2>1, <2>2, FromFile
<1>2. ASSUME NEW t \in Thread, build_done(t) \/ add_done(t) \/ property_done(t) \/ destroy_remove(t) \/ destroy_net_remove(t)
      PROVE  Numbered'
  BY <1>2, <1>r, BuildDone, AddDone, PropertyDone, DestroyRemove, DestroyNetRemove
<1>3. ASSUME NEW t \in Thread, add_test(t) PROVE Numbered'
  <2>1. thr[t].pc = "add" /\ (Returns(t) \/ Goes(t, "lock")) /\ SameHost /\ h2c' = h2c
    BY <1>3, AddTest
  <2> QED
    BY <1>g, <1>r, <2>1 DEF Goes
<1>4. ASSUME NEW t \in Thread, lock(t) PROVE Numbered'
  <2>1. /\ thr[t].pc = "lock" /\ SameHost /\ h2c' = h2c
        /\ \E p, g : p \in {"send", "answered"} /\ Moves(t, p, thr[t].op, thr[t].arg, g)
    BY <1>4, Lock DEF Goes
  <2> QED
    BY <1>g, <2>1
<1>5. ASSUME NEW t \in Thread, send_page(t) PROVE Numbered'
  <2>1. thr[t].pc = "send" /\ thr[t].op \in {"build", "add"} /\ SameHost /\ Sending(t)
    BY <1>5, SendPage DEF Sending
  <2>2. PICK m \in Message : m = PageOf(t, n_res(t), n_conf(t)) /\ m.op = thr[t].op
    BY <2>1, NextPage
  <2>3. h2c' = h2c \/ h2c' = Append(h2c, m)
    BY <1>5, <2>2, SendPage
  <2>4. \E p, g : p \in {"send", "wait", "answered"} /\ Moves(t, p, thr[t].op, thr[t].arg, g)
    <3>1. CASE thr' = thr
      BY <1>0, <2>1, <3>1 DEF Moves
    <3>2. CASE thr' # thr
      BY <1>5, <3>2, SendPage DEF Goes
    <3> QED
      BY <3>1, <3>2
  <2> QED
    BY <1>g, <2>1, <2>2, <2>3, <2>4
<1>6. ASSUME NEW t \in Thread, wait(t) PROVE Numbered'
  <2>1. /\ thr[t].pc = "wait" /\ made' = made /\ SameMaps /\ h2c' = h2c
        /\ \E g : Moves(t, "answered", thr[t].op, thr[t].arg, g)
    BY <1>6, Wait
  <2> QED
    BY <1>g, <2>1
<1>7. ASSUME NEW t \in Thread, add_insert(t) PROVE Numbered'
  <2>1. thr[t].pc = "answered" /\ (Returns(t) \/ Goes(t, "insert")) /\ SameHost /\ h2c' = h2c
    BY <1>7, AddInsert
  <2> QED
    BY <1>g, <1>r, <2>1 DEF Goes
<1>9. ASSUME NEW t \in Thread, property_send(t) PROVE Numbered'
  <2>1. /\ thr[t].pc = "property" /\ SameHost
        /\ \/ h2c' = Append(h2c, [op |-> "property", by |-> t]) /\ Goes(t, "wait")
           \/ h2c' = h2c /\ Returns(t)
    BY <1>9, PropertySend
  <2>2. PICK m \in Message : m = [op |-> "property", by |-> t] /\ m.op # "destroy"
    BY Messages
  <2> QED
    BY <1>g, <1>r, <2>1, <2>2 DEF Goes
<1>11. ASSUME NEW t \in Thread, create_alloc(t) PROVE Numbered'
  <2>1. SameMaps /\ h2c' = h2c /\ thr[t].pc = "create" /\ thr[t].op = "create"
    BY <1>11, CreateAlloc
  <2>2. CASE Returns(t) /\ made' = made
    BY <1>r, <2>1, <2>2
  <2>3. ASSUME made' = made + 1, NEW id \in Id, Moves(t, "lock", "create", <<id, made + 1>>, thr[t].got) PROVE Numbered'
    <3>1. /\ ~Creating(t) /\ Creating(t)' /\ thr'[t].arg[2] = made + 1
          /\ \A u \in Thread : u # t => (Creating(u)' <=> Creating(u)) /\ thr'[u].arg = thr[u].arg
          /\ \A u \in Thread : Destroying(u)' => Destroying(u) /\ thr'[u].arg = thr[u].arg
      BY <2>1, <2>3 DEF Creating, Destroying, Moves
    <3>2. \A n \in Nat : Named(n)' => Named(n)
      <4>1. \A k \in DOMAIN h2c' : DestroyAt(k)' => ToDestroy(h2c'[k].req)
        BY <2>1 DEF DestroyAt, ToDestroy
      <4> QED
        BY <2>1, <3>1, <4>1, NamedKept
    <3>3. \A n \in Nat : Named(n)' => n <= made
      BY <3>2 DEF Numbered
    <3>4. ASSUME NEW u \in Thread, Creating(u)'
          PROVE  /\ thr'[u].arg[2] <= made' /\ ~Named(thr[u].arg[2])'
                 /\ \A v \in Thread : Creating(v)' /\ thr'[v].arg[2] = thr'[u].arg[2] => v = u
      <4>1. PICK n \in Nat : n = thr'[u].arg[2]
        BY <1>0, <3>1
      <4>2. CASE u = t
        <5>1. n = made + 1
          BY <3>1, <4>1, <4>2
        <5>2. ~Named(n)'
          BY <1>0, <3>3, <5>1
        <5>3. ~Named(thr[u].arg[2])'
          BY <4>1, <5>2 DEF Named
        <5>4. \A v \in Thread : v # t /\ Creating(v)' => thr'[v].arg[2] <= made
          BY <3>1 DEF Numbered
        <5>5. \A v \in Thread : Creating(v)' /\ thr'[v].arg[2] = thr'[u].arg[2] => v = u
          BY <1>0, <4>1, <4>2, <5>1, <5>4
        <5> QED
          BY <1>0, <2>3, <4>1, <5>1, <5>3, <5>5
      <4>3. CASE u # t
        <5>1. Creating(u) /\ n = thr[u].arg[2]
          BY <3>1, <3>4, <4>1, <4>3
        <5>2. n <= made /\ ~Named(n) /\ \A v \in Thread : Creating(v) /\ thr[v].arg[2] = n => v = u
          BY <5>1 DEF Numbered
        <5>3. ~Named(n)'
          BY <3>2, <5>2
        <5>4. ~Named(thr[u].arg[2])'
          BY <4>1, <5>3 DEF Named
        <5>5. \A v \in Thread : Creating(v)' /\ thr'[v].arg[2] = n => v = u
          <6>1. n # made + 1
            BY <1>0, <5>2
          <6> QED
            BY <3>1, <5>2, <6>1
        <5> QED
          BY <1>0, <2>3, <4>1, <5>2, <5>4, <5>5
      <4> QED
        BY <4>2, <4>3
    <3>5. \A n \in Nat : Named(n)' => n <= made'
      BY <1>0, <2>3, <3>3
    <3> QED
      BY <3>4, <3>5 DEF Numbered
  <2> QED
    BY <1>11, <2>2, <2>3, CreateAlloc
<1>12. ASSUME NEW t \in Thread, create_send(t) PROVE Numbered'
  <2>1. /\ thr[t].pc = "send" /\ thr[t].op = "create" /\ thr[t].arg \in Requests /\ SameHost
        /\ \/ h2c' = Append(h2c, [op |-> "create", by |-> t, req |-> thr[t].arg]) /\ Goes(t, "wait")
           \/ h2c' = h2c /\ Moves(t, "answered", "create", thr[t].arg, Failure("io_error"))
    BY <1>12, CreateSend
  <2>2. PICK m \in Message : m = [op |-> "create", by |-> t, req |-> thr[t].arg] /\ m.op # "destroy"
    BY <2>1, Messages
  <2> QED
    BY <1>g, <2>1, <2>2 DEF Goes
<1>13. ASSUME NEW t \in Thread, create_done(t) PROVE Numbered'
  <2>1. /\ thr[t].pc = "answered" /\ thr[t].op = "create" /\ Returns(t) /\ made' = made /\ h2c' = h2c
        /\ s_infreqs' \subseteq s_infreqs \cup {thr[t].arg}
    BY <1>13, CreateDone
  <2>2. PICK n \in Nat : n = thr[t].arg[2]
    BY <1>0
  <2>3. /\ Creating(t) /\ ~Creating(t)' /\ ~Destroying(t)'
        /\ \A u \in Thread : u # t => (Creating(u)' <=> Creating(u)) /\ (Destroying(u)' <=> Destroying(u)) /\ thr'[u] = thr[u]
    BY <2>1 DEF Creating, Destroying, Returns, Moves
  <2>4. \A i \in Nat : Named(i)' => Named(i) \/ i = n
    <3>1. \A k \in DOMAIN h2c' : DestroyAt(k)' => DestroyAt(k) /\ k \in DOMAIN h2c /\ h2c'[k] = h2c[k]
      BY <2>1 DEF DestroyAt
    <3>2. ASSUME NEW i \in Nat, NEW r \in s_infreqs', r[2] = i PROVE Named(i) \/ i = n
      BY <2>1, <2>2, <3>2 DEF Named
    <3>3. ASSUME NEW i \in Nat, NEW u \in Thread, Destroying(u)', thr'[u].arg[2] = i PROVE Named(i)
      BY <2>3, <3>3 DEF Named
    <3>4. ASSUME NEW i \in Nat, NEW k \in DOMAIN h2c', DestroyAt(k)', h2c'[k].req[2] = i PROVE Named(i)
      BY <3>1, <3>4 DEF Named
    <3> QED
      BY <3>2, <3>3, <3>4 DEF Named
  <2>5. n <= made /\ \A u \in Thread : u # t /\ Creating(u) => thr[u].arg[2] # n
    BY <2>2, <2>3 DEF Numbered
  <2>6. ASSUME NEW u \in Thread, Creating(u)'
        PROVE  /\ thr'[u].arg[2] <= made' /\ ~Named(thr[u].arg[2])'
               /\ \A v \in Thread : Creating(v)' /\ thr'[v].arg[2] = thr'[u].arg[2] => v = u
    <3>1. u # t /\ Creating(u) /\ thr'[u] = thr[u]
      BY <2>3, <2>6
    <3>2. PICK i \in Nat : i = thr[u].arg[2]
      BY <1>0
    <3>3. i # n /\ i <= made /\ ~Named(i)
      BY <2>5, <3>1, <3>2 DEF Numbered
    <3>4. ~Named(i)'
      BY <2>4, <3>3
    <3>5. ~Named(thr[u].arg[2])'
      BY <3>1, <3>2, <3>4 DEF Named
    <3> QED
      BY <2>1, <2>3, <3>1, <3>2, <3>3, <3>5 DEF Numbered
  <2>7. \A i \in Nat : Named(i)' => i <= made'
    BY <2>1, <2>4, <2>5 DEF Numbered
  <2> QED
    BY <2>6, <2>7 DEF Numbered
<1>14. ASSUME NEW t \in Thread, destroy_send(t) PROVE Numbered'
  <2>1. /\ thr[t].pc = "destroy" /\ thr[t].op = "destroy" /\ thr[t].arg \in Requests /\ Goes(t, "remove") /\ SameHost
        /\ h2c' = h2c \/ h2c' = Append(h2c, [op |-> "destroy", req |-> thr[t].arg])
    BY <1>14, DestroySend
  <2>2. PICK m \in Message : m = [op |-> "destroy", req |-> thr[t].arg] /\ m.req = thr[t].arg
    BY <2>1, Messages
  <2> QED
    BY <1>g, <2>1, <2>2 DEF Goes, Destroying
<1>16. ASSUME NEW t \in Thread, destroy_net_send(t) PROVE Numbered'
  <2>1. /\ thr[t].pc = "destroy_net" /\ SameHost /\ (Goes(t, "remove") \/ (Returns(t) /\ h2c' = h2c))
        /\ h2c' = h2c \/ h2c' = Append(h2c, [op |-> "destroy_net"])
    BY <1>16, DestroyNetSend
  <2>2. PICK m \in Message : m = [op |-> "destroy_net"] /\ m.op # "destroy"
    BY Messages
  <2> QED
    BY <1>g, <1>r, <2>1, <2>2 DEF Goes
<1>18. ASSUME NEW t \in Thread, NEW c \in Call, find_network(t, c) PROVE Numbered'
  <2>1. PICK s : Moves(t, c, c, s, thr[t].got)
    BY <1>18, FindNetwork
  <2>2. c # "destroy" /\ SameHost /\ h2c' = h2c
    BY <1>18, FindNetwork
  <2> QED
    BY <2>1, <2>2, ThreadNumbers
<1>19. ASSUME NEW t \in Thread, NEW r \in s_infreqs, find_infreq(t, r) PROVE Numbered'
  BY <1>19, FindRequest, ThreadNumbers
<1>20. CASE Respond
  BY <1>20, ReplyStep, RequestGone, NetworkGone, Critical, OtherNumbers DEF Respond
<1>21. CASE CardWork \/ card_event
  <2>1. SameDriver /\ (h2c' = h2c \/ (h2c # <<>> /\ h2c' = Tail(h2c)))
    BY <1>21, CardPage, CardAsked, CardDestroys, CardNetDestroy, CardNetGone, CardEvent DEF CardWork
  <2> QED
    BY <2>1, OtherNumbers DEF SameDriver
<1>22. CASE UNCHANGED netVars
  BY <1>22, Stutter, OtherNumbers DEF SameDriver
<1> QED
  BY <1>1, <1>2, <1>3, <1>4, <1>5, <1>6, <1>7, <1>9, <1>11, <1>12, <1>13, <1>14, <1>16, <1>18, <1>19, <1>20, <1>21, <1>22
  DEF NetNext, Do, Begin

-----------------------------------------------------------------------------
(***************************************************************************)
(* What a thread is going to be told                                       *)
(***************************************************************************)

\* The answer of u has left the card, and is b.
ToHear(u, b) ==
    \/ \E k \in DOMAIN c2h : Reply(k, u) /\ c2h[k].what.ok = b
    \/ \E k \in DOMAIN m_create_reply : Stored(k, u) /\ m_create_reply[k].what.ok = b
Heard(u, b) == thr[u].pc = "wait" /\ ToHear(u, b)

\* A step mixes up answers, but not those to requests.
Plain(u) == (Mixed => Mixed') /\ ((Mixed' <=> Mixed) \/ thr[u].op = "create")

LEMMA CreateKey == ASSUME Types, NEW u \in Thread, thr[u].pc = "wait", thr[u].op = "create" PROVE Key(u) \in Id /\ Key(u) # -1
<1>1. thr[u].arg \in Requests
  BY DEF Types, Place, Fits
<1> QED
  BY <1>1 DEF Key, Requests, Id

\* Two threads do not wait under one key.
LEMMA KeyAlone ==
    ASSUME Types, Locking, OwnAnswer, NEW u \in Thread, NEW v \in Thread, thr[u].pc = "wait", thr[v].pc = "wait",
           Key(u) = Key(v), Mixed => Key(u) # -1
    PROVE  u = v
<1>1. \A w \in {u, v} : thr[w].op \in {"build", "add", "create", "property"}
  BY DEF Types, Place, Fits
<1>2. CASE Key(u) # -1
  <2>1. thr[u].op = "create" /\ thr[v].op = "create"
    BY <1>2 DEF Key
  <2> QED
    BY <2>1 DEF Locking, Inside
<1>3. CASE Key(u) = -1
  <2>1. thr[u].op # "create" /\ thr[v].op # "create"
    BY <1>3, CreateKey
  <2>2. UsesNetKey(u) /\ UsesNetKey(v)
    BY <1>1, <2>1 DEF UsesNetKey
  <2> QED
    BY <1>3, <2>2 DEF OwnAnswer, OneUser
<1> QED
  BY <1>2, <1>3

\* Answers stay, go one place to the front, or others follow them.
LEMMA HeardSame ==
    ASSUME Types, OwnAnswer, ~broken, NEW u \in Thread, thr'[u] = thr[u] \/ thr[u].pc # "wait", Plain(u),
           m_create_reply' = m_create_reply,
           \/ c2h' = c2h
           \/ c2h # <<>> /\ c2h' = Tail(c2h) /\ Head(c2h).op # "reply"
           \/ \E m \in Reported : c2h' = Append(c2h, m) /\ ~(m.op = "reply" /\ m.by = u /\ (Mixed' => m.key # -1)),
           NEW b \in BOOLEAN
    PROVE  Heard(u, b)' <=> Heard(u, b)
<1>1. c2h \in Seq(Reported) /\ OneAnswer(u)
  BY DEF Types, CardTypes, OwnAnswer
<1>2. PICK d \in {0, 1} : RepliesCarried(u, d)
  BY <1>1, RepliesStep DEF Plain
<1>3. StoreCarried(u)
  BY StoreSame DEF Plain
<1>4. ASSUME Heard(u, b)' PROVE Heard(u, b)
  <2>1. ToHear(u, b)
    <3>1. ASSUME NEW k \in DOMAIN c2h', Reply(k, u)', c2h'[k].what.ok = b PROVE ToHear(u, b)
      <4>1. Reply(k + d, u) /\ c2h[k + d].what.ok = b
        BY <1>2, <3>1 DEF RepliesCarried
      <4> QED
        BY <4>1 DEF ToHear, Reply
    <3>2. ASSUME NEW k \in DOMAIN m_create_reply', Stored(k, u)', m_create_reply'[k].what.ok = b PROVE ToHear(u, b)
      BY <1>3, <3>2 DEF StoreCarried, ToHear, Stored
    <3> QED
      BY <1>4, <3>1, <3>2 DEF Heard, ToHear
  <2>2. thr[u].pc = "wait"
    <3>1. ASSUME thr[u].pc # "wait" PROVE FALSE
      <4>1. Nothing(u)
        BY <1>1, <3>1, NotWaiting
      <4> QED
        BY <2>1, <4>1 DEF Nothing, NoReply, NotStored, ToHear
    <3> QED
      BY <3>1
  <2> QED
    BY <2>1, <2>2 DEF Heard
<1>5. ASSUME Heard(u, b) PROVE Heard(u, b)'
  <2>1. thr[u].pc = "wait" /\ thr'[u] = thr[u] /\ (thr[u].op = "create" => Key(u) # -1)
    BY <1>5, CreateKey DEF Heard
  <2>2. ASSUME NEW k \in DOMAIN c2h, Reply(k, u), c2h[k].what.ok = b PROVE ToHear(u, b)'
    <3>1. Mixed' => c2h[k].key # -1
      BY <1>1, <2>1, <2>2 DEF Plain, OneAnswer, ReplyOnce, Awaits, Reply
    <3>2. ASSUME NEW j \in DOMAIN c2h', c2h'[j] = c2h[k] PROVE ToHear(u, b)'
      BY <2>2, <3>1, <3>2 DEF ToHear, Reply
    <3>3. CASE c2h' = c2h
      BY <2>2, <3>2, <3>3
    <3>4. CASE c2h # <<>> /\ c2h' = Tail(c2h) /\ Head(c2h).op # "reply"
      <4>1. Head(c2h) = c2h[1] /\ (k # 1 => k - 1 \in DOMAIN c2h' /\ c2h'[k - 1] = c2h[k])
        BY <1>1, <2>2, <3>4, TailOf
      <4>2. k # 1
        BY <2>2, <3>4, <4>1 DEF Reply
      <4> QED
        BY <3>2, <4>1, <4>2
    <3>5. ASSUME NEW m \in Reported, c2h' = Append(c2h, m) PROVE ToHear(u, b)'
      <4>1. k \in DOMAIN c2h' /\ c2h'[k] = c2h[k]
        BY <1>1, <2>2, <3>5, AppendTo
      <4> QED
        BY <3>2, <4>1
    <3> QED
      BY <3>3, <3>4, <3>5
  <2>3. ASSUME NEW k \in DOMAIN m_create_reply, Stored(k, u), m_create_reply[k].what.ok = b PROVE ToHear(u, b)'
    <3>1. Mixed' => k # -1
      BY <1>1, <2>1, <2>3 DEF Plain, OneAnswer, StoredOnce, Awaits, Stored
    <3> QED
      BY <2>3, <3>1 DEF ToHear, Stored
  <2> QED
    BY <1>5, <2>1, <2>2, <2>3 DEF Heard, ToHear
<1> QED
  BY <1>4, <1>5

\* The response thread stores an answer.
LEMMA HeardStored ==
    ASSUME Types, Locking, OwnAnswer, ~broken, NEW u \in Thread, thr' = thr, Mixed' <=> Mixed,
           c2h # <<>>, c2h' = Tail(c2h), NEW e, e = Head(c2h), e.op = "reply",
           m_create_reply' = Put(m_create_reply, e.key, [what |-> e.what, by |-> e.by]), NEW b \in BOOLEAN
    PROVE  Heard(u, b)' <=> Heard(u, b)
<1>1. c2h \in Seq(Reported) /\ \A v \in Thread : OneAnswer(v)
  BY DEF Types, CardTypes, OwnAnswer
<1>2. /\ 1 \in DOMAIN c2h /\ e = c2h[1] /\ e \in Reported
      /\ \A i \in DOMAIN c2h' : i + 1 \in DOMAIN c2h /\ c2h'[i] = c2h[i + 1]
      /\ \A i \in DOMAIN c2h : i # 1 => i - 1 \in DOMAIN c2h' /\ c2h'[i - 1] = c2h[i]
  BY <1>1, TailOf
<1>3. e.by \in Thread
  BY <1>2, ReportedFields
<1>4. /\ \A k \in DOMAIN m_create_reply' : k # e.key => k \in DOMAIN m_create_reply /\ m_create_reply'[k] = m_create_reply[k]
      /\ \A k \in DOMAIN m_create_reply : k # e.key => k \in DOMAIN m_create_reply' /\ m_create_reply'[k] = m_create_reply[k]
      /\ e.key \in DOMAIN m_create_reply' /\ m_create_reply'[e.key].by = e.by /\ m_create_reply'[e.key].what = e.what
  BY DEF Put
<1>5. ASSUME ToHear(u, b)' PROVE ToHear(u, b)
  <2>1. ASSUME NEW k \in DOMAIN c2h', Reply(k, u)', c2h'[k].what.ok = b PROVE ToHear(u, b)
    <3>1. k + 1 \in DOMAIN c2h /\ Reply(k + 1, u) /\ c2h[k + 1].what.ok = b
      BY <1>2, <2>1 DEF Reply
    <3> QED
      BY <3>1 DEF ToHear
  <2>2. ASSUME NEW k \in DOMAIN m_create_reply', Stored(k, u)', m_create_reply'[k].what.ok = b PROVE ToHear(u, b)
    <3>1. CASE k = e.key
      <4>1. Reply(1, u) /\ c2h[1].what.ok = b
        BY <1>2, <1>4, <2>2, <3>1 DEF Reply, Stored
      <4> QED
        BY <1>2, <4>1 DEF ToHear
    <3>2. CASE k # e.key
      BY <1>4, <2>2, <3>2 DEF ToHear, Stored
    <3> QED
      BY <3>1, <3>2
  <2> QED
    BY <1>5, <2>1, <2>2 DEF ToHear
<1>6. ASSUME ToHear(u, b) PROVE ToHear(u, b)'
  <2>1. ASSUME NEW k \in DOMAIN c2h, Reply(k, u), c2h[k].what.ok = b PROVE ToHear(u, b)'
    <3>1. CASE k = 1
      <4>1. e.key \in DOMAIN m_create_reply' /\ Stored(e.key, u)' /\ m_create_reply'[e.key].what.ok = b
        BY <1>2, <1>4, <2>1, <3>1 DEF Reply, Stored
      <4> QED
        BY <4>1 DEF ToHear
    <3>2. CASE k # 1
      <4>1. k - 1 \in DOMAIN c2h' /\ Reply(k - 1, u)' /\ c2h'[k - 1].what.ok = b
        BY <1>2, <2>1, <3>2 DEF Reply
      <4> QED
        BY <4>1 DEF ToHear
    <3> QED
      BY <3>1, <3>2
  <2>2. ASSUME NEW k \in DOMAIN m_create_reply, Stored(k, u), m_create_reply[k].what.ok = b PROVE ToHear(u, b)'
    <3>1. k # e.key
      <4>1. ASSUME k = e.key PROVE FALSE
        <5>1. Reply(1, e.by)
          BY <1>2, <2>2, <4>1 DEF Reply, Stored
        <5>2. thr[e.by].pc = "wait" /\ Key(e.by) = e.key /\ NotStored(e.by)
          BY <1>1, <1>2, <1>3, <5>1 DEF OneAnswer, ReplyOnce, Awaits
        <5>3. thr[u].pc = "wait" /\ Key(u) = e.key
          BY <1>1, <2>2, <4>1 DEF OneAnswer, StoredOnce, Awaits
        <5>4. u = e.by
          BY <1>3, <2>2, <4>1, <5>2, <5>3, KeyAlone DEF Stored
        <5> QED
          BY <2>2, <5>2, <5>4 DEF NotStored
      <4> QED
        BY <4>1
    <3>2. k \in DOMAIN m_create_reply' /\ Stored(k, u)' /\ m_create_reply'[k].what.ok = b
      BY <1>4, <2>2, <3>1 DEF Stored
    <3> QED
      BY <3>2 DEF ToHear
  <2> QED
    BY <1>6, <2>1, <2>2 DEF ToHear
<1> QED
  BY <1>5, <1>6 DEF Heard

\* The card answers the first message.
LEMMA HeardAnswered ==
    ASSUME Types, OwnAnswer, ~broken, NEW u \in Thread, thr' = thr, h2c # <<>>, Mixed' <=> Mixed,
           NEW m, m = Head(h2c), Expects(m), NEW w \in Answers, w.of = m.op,
           NEW key \in Id \cup {-1}, key = IF m.op = "create" THEN m.req[1] ELSE -1,
           c2h' = Append(c2h, ReplyTo(key, w)), m_create_reply' = m_create_reply, NEW b \in BOOLEAN
    PROVE  /\ Command(1, u) => AwaitsOf(u, m) /\ m.by = u /\ ~Heard(u, b) /\ (Heard(u, b)' <=> w.ok = b)
           /\ ~Command(1, u) => (Heard(u, b)' <=> Heard(u, b))
<1>1. h2c \in Seq(Message) /\ c2h \in Seq(Reported) /\ OneAnswer(u)
  BY DEF Types, CardTypes, OwnAnswer
<1>2. 1 \in DOMAIN h2c /\ m = h2c[1] /\ m \in Message
  BY <1>1, TailOf
<1>3. m.by \in Thread /\ (m.op = "create" => m.req[1] \in Id)
  BY <1>2, MessageFields DEF Expects, IsPage, Requests
<1>4. PICK e \in Reported : e = ReplyTo(key, w) /\ e.op = "reply" /\ e.key = key /\ e.what = w /\ e.by = m.by
  BY <1>3, Reports DEF ReplyTo
<1>5. key # -1 <=> m.op = "create"
  BY <1>3 DEF Id
<1>6. CASE Command(1, u)
  <2>1. AwaitsOf(u, m) /\ m.by = u /\ NoReply(u) /\ NotStored(u)
    BY <1>1, <1>2, <1>6 DEF OneAnswer, CommandOnce, Command
  <2>2. PICK n : /\ n \in DOMAIN c2h' /\ c2h'[n] = e
                 /\ \A i \in DOMAIN c2h : c2h'[i] = c2h[i]
                 /\ \A i \in DOMAIN c2h' : i \in DOMAIN c2h \/ i = n
    BY <1>1, <1>4, AppendTo
  <2>3. Reply(n, u)'
    BY <1>2, <1>4, <1>5, <1>6, <2>1, <2>2 DEF Reply, Command
  <2>4. \A k \in DOMAIN c2h' : Reply(k, u)' => c2h'[k].what = w
    BY <1>4, <2>1, <2>2 DEF Reply, NoReply
  <2>5. \A k \in DOMAIN m_create_reply' : ~Stored(k, u)'
    BY <2>1 DEF Stored, NotStored
  <2>6. ToHear(u, b)' <=> w.ok = b
    BY <2>2, <2>3, <2>4, <2>5 DEF ToHear
  <2>7. ~Heard(u, b)
    BY <2>1 DEF Heard, ToHear, NoReply, NotStored
  <2> QED
    BY <1>6, <2>1, <2>6, <2>7 DEF Heard, AwaitsOf
<1>7. CASE ~Command(1, u)
  <2>1. ~(e.op = "reply" /\ e.by = u /\ (Mixed' => e.key # -1))
    BY <1>2, <1>4, <1>5, <1>7 DEF Command
  <2>2. Heard(u, b)' <=> Heard(u, b)
    BY <1>4, <2>1, HeardSame DEF Plain
  <2> QED
    BY <1>7, <2>2
<1> QED
  BY <1>6, <1>7

\* t reads its answer, and no other one.
LEMMA HeardRead ==
    ASSUME Types, Locking, OwnAnswer, NEW t \in Thread, wait(t), ~broken, NEW b \in BOOLEAN
    PROVE  /\ Mixed' <=> Mixed
           /\ \A u \in Thread : u # t => (Heard(u, b)' <=> Heard(u, b))
           /\ ~Heard(t, b)'
           /\ ~Mixed \/ thr[t].op = "create" =>
                 /\ Heard(t, b) <=> thr'[t].got.ok = b
                 /\ thr'[t].got = IF thr'[t].got.ok THEN Success(thr[t].op) ELSE Failure(thr[t].op)
<1>1. /\ thr[t].pc = "wait" /\ Key(t) \in DOMAIN m_create_reply /\ m_create_reply' = Erase(m_create_reply, Key(t))
      /\ hist' = IF m_create_reply[Key(t)].by # t THEN hist \cup {"foreign"} ELSE hist
      /\ c2h' = c2h
      /\ Moves(t, "answered", thr[t].op, thr[t].arg, m_create_reply[Key(t)].what)
  BY Wait
<1>2. (Mixed /\ Key(t) = -1) \/ (m_create_reply[Key(t)].by = t /\ Stored(Key(t), t))
  BY <1>1, OwnEntry
<1>3. Mixed' <=> Mixed
  BY <1>1 DEF Mixed
<1>4. ASSUME NEW u \in Thread, u # t PROVE Heard(u, b)' <=> Heard(u, b)
  <2>1. thr'[u] = thr[u]
    BY <1>1, <1>4 DEF Moves
  <2>2. \A k \in DOMAIN c2h : Reply(k, u)' <=> Reply(k, u)
    BY <1>1, <1>3 DEF Reply
  <2>3. \A k : Stored(k, u) => k # Key(t)
    BY <1>2, <1>4 DEF Stored
  <2>4. \A k : (Stored(k, u)' <=> Stored(k, u)) /\ (Stored(k, u) => m_create_reply'[k] = m_create_reply[k])
    BY <1>1, <1>3, <2>3 DEF Stored, Erase
  <2>5. \A k : Stored(k, u) => k \in DOMAIN m_create_reply /\ k \in DOMAIN m_create_reply'
    BY <1>1, <2>3 DEF Stored, Erase
  <2>6. ToHear(u, b)' <=> ToHear(u, b)
    BY <1>1, <2>2, <2>4, <2>5 DEF ToHear
  <2> QED
    BY <2>1, <2>6 DEF Heard
<1>5. ~Heard(t, b)'
  BY <1>1 DEF Heard, Moves
<1>6. ASSUME ~Mixed \/ thr[t].op = "create"
      PROVE  /\ Heard(t, b) <=> thr'[t].got.ok = b
             /\ thr'[t].got = IF thr'[t].got.ok THEN Success(thr[t].op) ELSE Failure(thr[t].op)
  <2> DEFINE w == m_create_reply[Key(t)].what
  <2>1. Stored(Key(t), t) /\ OneAnswer(t)
    BY <1>1, <1>2, <1>6, CreateKey DEF OwnAnswer
  <2>2. NoReply(t) /\ (\A k \in DOMAIN m_create_reply : Stored(k, t) => k = Key(t)) /\ w.of = thr[t].op
    BY <1>1, <2>1 DEF OneAnswer, ReplyOnce, StoredOnce, NotStored, NoReply, Awaits
  <2>3. w \in Answers /\ thr'[t].got = w
    BY <1>1 DEF Types, HostTypes, Moves
  <2>4. Heard(t, b) <=> w.ok = b
    BY <1>1, <2>1, <2>2 DEF Heard, ToHear, NoReply
  <2> HIDE DEF w
  <2>5. w = IF w.ok THEN Success(thr[t].op) ELSE Failure(thr[t].op)
    BY <2>2, <2>3 DEF Answers, Success, Failure
  <2> QED
    BY <2>3, <2>4, <2>5
<1> QED
  BY <1>3, <1>4, <1>5, <1>6

-----------------------------------------------------------------------------
(***************************************************************************)
(* The destruction of requests                                             *)
(***************************************************************************)

\* A handle was given to two destroying calls at a time.
Twice == "twice" \in hist

\* t has sent the destruction of r, or not been able to, and gives up its handle.
Removing(t, r) == Destroying(t) /\ thr[t].pc = "remove" /\ thr[t].arg = r

\* t knows that its request is made, or is going to be told.
Told(t) ==
    /\ thr[t].op = "create"
    /\ (thr[t].pc = "answered" /\ thr[t].got = Success("create")) \/ (~broken /\ Heard(t, TRUE))

\* The card has the request of each handle until a call that destroys it has sent that,
\* there is one such call and one such message, and the message finds its request.
HandlesLive == \A r \in s_infreqs : r \in cardReq \/ \E t \in Thread : Removing(t, r)
OneDestroyer == \A t \in Thread : Destroying(t) =>
    /\ thr[t].arg \in s_infreqs
    /\ \A u \in Thread : Destroying(u) /\ thr[u].arg = thr[t].arg => u = t
    /\ thr[t].pc = "destroy" => thr[t].arg \in cardReq
OneDestroy == \A k \in DOMAIN h2c : DestroyAt(k) =>
    /\ h2c[k].req \in cardReq
    /\ \A j \in DOMAIN h2c : DestroyAt(j) /\ h2c[j].req = h2c[k].req => j = k
    /\ h2c[k].req \in s_infreqs => \E t \in Thread : Removing(t, h2c[k].req)
ToldTruly == \A t \in Thread : Told(t) => thr[t].arg \in cardReq

Destroys == ~Twice => "wrong" \notin hist /\ HandlesLive /\ OneDestroyer /\ OneDestroy /\ ToldTruly

\* Nothing is told that was not.
ToldBefore == \A u \in Thread : Told(u)' => (Told(u) /\ thr'[u].arg = thr[u].arg) \/ thr'[u].arg \in cardReq'

LEMMA ToldThread ==
    ASSUME Types, OwnAnswer, NEW t \in Thread, NEW p, NEW o, NEW a, NEW g, Moves(t, p, o, a, g), thr[t].pc # "wait",
           Mixed => Mixed', o = "create" /\ p = "wait" => thr[t].op = "create",
           ~(o = "create" /\ p = "answered" /\ g = Success("create")),
           m_create_reply' = m_create_reply, c2h' = c2h, m_critical_error' = m_critical_error
    PROVE  ToldBefore
<1>1. ASSUME NEW u \in Thread, Told(u)' PROVE Told(u) /\ thr'[u].arg = thr[u].arg
  <2>1. broken' <=> broken
    BY DEF broken
  <2>2. CASE u = t
    <3>1. ~broken /\ Heard(t, TRUE)' /\ o = "create" /\ p = "wait"
      BY <1>1, <2>1, <2>2 DEF Told, Moves, Heard
    <3>2. Heard(t, TRUE)
      BY <3>1, HeardSame DEF Plain
    <3> QED
      BY <3>2 DEF Heard
  <2>3. CASE u # t
    <3>1. thr'[u] = thr[u] /\ thr[u].op = "create"
      BY <1>1, <2>3 DEF Told, Moves
    <3>2. CASE broken
      BY <1>1, <2>1, <3>1, <3>2 DEF Told
    <3>3. CASE ~broken
      <4>1. Heard(u, TRUE)' <=> Heard(u, TRUE)
        BY <3>1, <3>3, HeardSame DEF Plain
      <4> QED
        BY <1>1, <2>1, <3>1, <4>1 DEF Told
    <3> QED
      BY <3>2, <3>3
  <2> QED
    BY <2>2, <2>3
<1> QED
  BY <1>1 DEF ToldBefore

\* A step that moves no thread and carries no answer.
LEMMA ToldSame ==
    ASSUME Types, OwnAnswer, thr' = thr, Mixed' <=> Mixed, broken => broken',
           ~broken' => \A u \in Thread : Heard(u, TRUE)' => Heard(u, TRUE) \/ (thr[u].op = "create" => thr[u].arg \in cardReq')
    PROVE  ToldBefore
BY DEF ToldBefore, Told

LEMMA DestroysKept ==
    ASSUME Types, Destroys, Twice => Twice', "wrong" \in hist' => "wrong" \in hist,
           s_infreqs' = s_infreqs, cardReq \subseteq cardReq', ToldBefore,
           \A u \in Thread : (Destroying(u)' <=> Destroying(u)) /\ (Destroying(u) => thr'[u] = thr[u]),
           NEW d, Carried(h2c, h2c', {"destroy"}, d)
    PROVE  Destroys'
<1> SUFFICES ASSUME ~Twice'
             PROVE  ("wrong" \notin hist)' /\ HandlesLive' /\ OneDestroyer' /\ OneDestroy' /\ ToldTruly'
  BY DEF Destroys
<1>1. "wrong" \notin hist /\ HandlesLive /\ OneDestroyer /\ OneDestroy /\ ToldTruly
  BY DEF Destroys
<1>2. \A u \in Thread : \A r : Removing(u, r) => Removing(u, r)'
  BY DEF Removing
<1>3. HandlesLive'
  BY <1>1, <1>2 DEF HandlesLive
<1>4. OneDestroyer'
  BY <1>1 DEF OneDestroyer
<1>5. OneDestroy'
  <2>1. ASSUME NEW k \in DOMAIN h2c', DestroyAt(k)'
        PROVE  k \in Nat /\ d \in {0, 1} /\ k + d \in DOMAIN h2c /\ DestroyAt(k + d) /\ h2c'[k] = h2c[k + d]
    BY <2>1 DEF Carried, DestroyAt
  <2>2. ASSUME NEW k \in DOMAIN h2c', DestroyAt(k)'
        PROVE  /\ h2c'[k].req \in cardReq'
               /\ \A j \in DOMAIN h2c' : DestroyAt(j)' /\ h2c'[j].req = h2c'[k].req => j = k
               /\ h2c'[k].req \in s_infreqs' => \E t \in Thread : Removing(t, h2c[k].req)'
    <3>1. k + d \in DOMAIN h2c /\ DestroyAt(k + d) /\ h2c'[k] = h2c[k + d]
      BY <2>1, <2>2
    <3>2. ASSUME NEW j \in DOMAIN h2c', DestroyAt(j)', h2c'[j].req = h2c'[k].req PROVE j = k
      <4>1. j + d = k + d
        BY <1>1, <2>1, <3>1, <3>2 DEF OneDestroy
      <4> QED
        BY <2>1, <2>2, <3>2, <4>1
    <3>3. h2c'[k].req \in s_infreqs' => \E t \in Thread : Removing(t, h2c[k].req)'
      BY <1>1, <1>2, <3>1 DEF OneDestroy, Removing
    <3> QED
      BY <1>1, <3>1, <3>2, <3>3 DEF OneDestroy
  <2> QED
    BY <2>2 DEF OneDestroy
<1>6. ToldTruly'
  BY <1>1 DEF ToldTruly, ToldBefore
<1> QED
  BY <1>1, <1>3, <1>4, <1>5, <1>6

\* A thread step that has nothing to do with the destruction of requests.
LEMMA ThreadDestroys ==
    ASSUME Types, OwnAnswer, Destroys, NEW t \in Thread, NEW p, NEW o, NEW a, NEW g, Moves(t, p, o, a, g),
           thr[t].op # "destroy", o # "destroy", ToldBefore, Twice => Twice', "wrong" \in hist' => "wrong" \in hist,
           s_infreqs' = s_infreqs, cardReq' = cardReq,
           h2c' = h2c \/ \E m \in Message : m.op # "destroy" /\ h2c' = Append(h2c, m)
    PROVE  Destroys'
<1>1. h2c \in Seq(Message)
  BY DEF Types, CardTypes
<1>2. Carried(h2c, h2c', {"destroy"}, 0)
  <2>1. CASE h2c' = h2c
    BY <1>1, <2>1, CarriedSame
  <2>2. ASSUME NEW m \in Message, m.op # "destroy", h2c' = Append(h2c, m) PROVE Carried(h2c, h2c', {"destroy"}, 0)
    BY <1>1, <2>2, CarriedAppend
  <2> QED
    BY <2>1, <2>2
<1>3. \A u \in Thread : (Destroying(u)' <=> Destroying(u)) /\ (Destroying(u) => thr'[u] = thr[u])
  BY DEF Destroying, Moves
<1> QED
  BY <1>2, <1>3, DestroysKept

\* A step that moves no thread and takes nothing from the card.
LEMMA OtherDestroys ==
    ASSUME Types, OwnAnswer, Destroys, thr' = thr, ToldBefore,
           hist' = hist \/ ((Twice => Twice') /\ ("wrong" \in hist' => "wrong" \in hist)),
           s_infreqs' = s_infreqs, cardReq \subseteq cardReq', h2c' = h2c \/ (h2c # <<>> /\ h2c' = Tail(h2c))
    PROVE  Destroys'
<1>1. h2c \in Seq(Message)
  BY DEF Types, CardTypes
<1>2. \E d : Carried(h2c, h2c', {"destroy"}, d)
  BY <1>1, CarriedSame, CarriedTail
<1>3. \A u \in Thread : (Destroying(u)' <=> Destroying(u)) /\ (Destroying(u) => thr'[u] = thr[u])
  BY DEF Destroying
<1>4. (Twice => Twice') /\ ("wrong" \in hist' => "wrong" \in hist)
  BY DEF Twice
<1> QED
  BY <1>2, <1>3, <1>4, DestroysKept

\* What a thread reads it was going to be told.
LEMMA ToldRead == ASSUME Types, Locking, OwnAnswer, NEW t \in Thread, wait(t) PROVE ToldBefore
<1>1. m_critical_error' = m_critical_error /\ thr[t].pc = "wait"
  BY Wait
<1>2. broken' <=> broken
  BY <1>1 DEF broken
<1>3. CASE broken
  <2>1. Moves(t, "answered", thr[t].op, thr[t].arg, Failure("broken"))
    BY <1>3, Wait
  <2>2. Failure("broken") # Success("create")
    BY DEF Failure, Success
  <2> QED
    BY <1>2, <1>3, <2>1, <2>2 DEF ToldBefore, Told, Moves
<1>4. CASE ~broken
  <2>1. \E g : Moves(t, "answered", thr[t].op, thr[t].arg, g)
    BY Wait
  <2>2. /\ \A u \in Thread : u # t => (Heard(u, TRUE)' <=> Heard(u, TRUE))
        /\ ~Heard(t, TRUE)'
        /\ thr[t].op = "create" => (Heard(t, TRUE) <=> thr'[t].got.ok = TRUE)
    BY <1>4, HeardRead
  <2>3. Success("create").ok = TRUE
    BY DEF Success
  <2>4. ASSUME NEW u \in Thread, Told(u)' PROVE Told(u) /\ thr'[u].arg = thr[u].arg
    <3>1. CASE u = t
      <4>1. thr'[t].got = Success("create") /\ thr[t].op = "create" /\ thr'[t].arg = thr[t].arg
        BY <2>1, <2>2, <2>4, <3>1 DEF Told, Moves
      <4>2. Heard(t, TRUE)
        BY <2>2, <2>3, <4>1
      <4> QED
        BY <1>4, <3>1, <4>1, <4>2 DEF Told
    <3>2. CASE u # t
      <4>1. thr'[u] = thr[u]
        BY <2>1, <3>2 DEF Moves
      <4> QED
        BY <1>2, <1>4, <2>2, <2>4, <3>2, <4>1 DEF Told
    <3> QED
      BY <3>1, <3>2
  <2> QED
    BY <2>4 DEF ToldBefore
<1> QED
  BY <1>3, <1>4

\* What the card answers, it has done.
LEMMA ToldAnswered ==
    ASSUME Types, OwnAnswer, SameDriver, h2c # <<>>, Mixed' <=> Mixed,
           NEW m, m = Head(h2c), Expects(m), NEW w \in Answers, w.of = m.op, m.op = "create" /\ w.ok => m.req \in cardReq',
           c2h' = Append(c2h, ReplyTo(IF m.op = "create" THEN m.req[1] ELSE -1, w))
    PROVE  ToldBefore
<1>1. PICK key \in Id \cup {-1} : key = IF m.op = "create" THEN m.req[1] ELSE -1
  <2>1. m \in Message
    BY TailOf DEF Types, CardTypes
  <2>2. m.op = "create" => m.req[1] \in Id
    BY <2>1, MessageFields DEF Requests
  <2> QED
    BY <2>2
<1>2. thr' = thr /\ m_create_reply' = m_create_reply /\ (broken' <=> broken)
  BY DEF SameDriver, SameContext, broken
<1>3. ASSUME ~broken', NEW u \in Thread, Heard(u, TRUE)', ~Heard(u, TRUE), thr[u].op = "create" PROVE thr[u].arg \in cardReq'
  <2>1. /\ Command(1, u) => AwaitsOf(u, m) /\ m.by = u /\ ~Heard(u, TRUE) /\ (Heard(u, TRUE)' <=> w.ok = TRUE)
        /\ ~Command(1, u) => (Heard(u, TRUE)' <=> Heard(u, TRUE))
    BY <1>1, <1>2, <1>3, HeardAnswered
  <2>2. AwaitsOf(u, m) /\ w.ok = TRUE
    BY <1>3, <2>1
  <2> QED
    BY <1>3, <2>2 DEF AwaitsOf
<1> QED
  BY <1>2, <1>3, ToldSame

\* A step of the response thread, or of the card, that is no answer.
LEMMA ToldOther ==
    ASSUME Types, OwnAnswer, thr' = thr, Mixed' <=> Mixed, broken => broken', m_create_reply' = m_create_reply,
           \/ c2h' = c2h
           \/ c2h # <<>> /\ c2h' = Tail(c2h) /\ Head(c2h).op # "reply"
           \/ \E m \in Reported : m.op # "reply" /\ c2h' = Append(c2h, m)
    PROVE  ToldBefore
<1>1. ASSUME ~broken', NEW u \in Thread, Heard(u, TRUE)' PROVE Heard(u, TRUE)
  BY <1>1, HeardSame DEF Plain
<1> QED
  BY <1>1, ToldSame

LEMMA ToldStored ==
    ASSUME Types, Locking, OwnAnswer, process_create_reply
    PROVE  ToldBefore
<1>1. /\ c2h # <<>> /\ Head(c2h).op = "reply" /\ c2h' = Tail(c2h) /\ thr' = thr /\ hist' = hist
      /\ m_create_reply' = Put(m_create_reply, Head(c2h).key, [what |-> Head(c2h).what, by |-> Head(c2h).by])
      /\ m_critical_error' = m_critical_error
  BY ReplyStep DEF SameLocal
<1>2. (broken' <=> broken) /\ (Mixed' <=> Mixed)
  BY <1>1 DEF broken, Mixed
<1>3. ASSUME ~broken', NEW u \in Thread, Heard(u, TRUE)' PROVE Heard(u, TRUE)
  BY <1>1, <1>2, <1>3, HeardStored
<1> QED
  BY <1>1, <1>2, <1>3, ToldSame

LEMMA DestroySends ==
    ASSUME Types, OwnAnswer, Destroys, NEW t \in Thread, destroy_send(t)
    PROVE  Destroys'
<1>1. /\ thr[t].pc = "destroy" /\ thr[t].op = "destroy" /\ thr[t].arg \in Requests /\ Goes(t, "remove")
      /\ s_infreqs' = s_infreqs /\ cardReq' = cardReq /\ hist' = hist /\ c2h' = c2h /\ m_create_reply' = m_create_reply
      /\ m_critical_error' = m_critical_error
      /\ h2c' = h2c \/ h2c' = Append(h2c, [op |-> "destroy", req |-> thr[t].arg])
  BY DestroySend DEF SameHost, SameMaps, SameContext, SameCard
<1>2. h2c \in Seq(Message)
  BY DEF Types, CardTypes
<1>3. ToldBefore
  BY <1>1, ToldThread DEF Goes, Mixed
<1> SUFFICES ASSUME ~Twice'
             PROVE  ("wrong" \notin hist)' /\ HandlesLive' /\ OneDestroyer' /\ OneDestroy' /\ ToldTruly'
  BY DEF Destroys
<1>4. "wrong" \notin hist /\ HandlesLive /\ OneDestroyer /\ OneDestroy /\ ToldTruly
  BY <1>1 DEF Destroys, Twice
<1>5. /\ \A u \in Thread : (Destroying(u)' <=> Destroying(u)) /\ thr'[u].arg = thr[u].arg
      /\ \A u \in Thread : u # t => thr'[u] = thr[u]
      /\ thr'[t].pc = "remove" /\ Destroying(t)
  BY <1>1 DEF Goes, Moves, Destroying
<1>6. \A u \in Thread : \A r : Removing(u, r) => Removing(u, r)'
  BY <1>5 DEF Removing
<1>7. HandlesLive'
  BY <1>1, <1>4, <1>6 DEF HandlesLive
<1>8. OneDestroyer'
  BY <1>1, <1>4, <1>5 DEF OneDestroyer
<1>9. ToldTruly'
  BY <1>1, <1>3, <1>4 DEF ToldTruly, ToldBefore
<1>10. \A k \in DOMAIN h2c : DestroyAt(k) => h2c[k].req # thr[t].arg
  <2>1. ASSUME NEW k \in DOMAIN h2c, DestroyAt(k), h2c[k].req = thr[t].arg PROVE FALSE
    <3>1. PICK u \in Thread : Removing(u, thr[t].arg)
      BY <1>4, <1>5, <2>1 DEF OneDestroy, OneDestroyer
    <3>2. u = t
      BY <1>4, <1>5, <3>1 DEF OneDestroyer, Removing
    <3> QED
      BY <1>1, <3>1, <3>2 DEF Removing
  <2> QED
    BY <2>1
<1>11. OneDestroy'
  <2>1. CASE h2c' = h2c
    BY <1>1, <1>4, <1>6, <2>1 DEF OneDestroy, DestroyAt
  <2>2. CASE h2c' = Append(h2c, [op |-> "destroy", req |-> thr[t].arg])
    <3>1. PICK m \in Message : m = [op |-> "destroy", req |-> thr[t].arg] /\ m.req = thr[t].arg
      BY <1>1, Messages
    <3>2. PICK n : /\ n \in DOMAIN h2c' /\ h2c'[n] = m /\ n \notin DOMAIN h2c
                   /\ \A i \in DOMAIN h2c : h2c'[i] = h2c[i]
                   /\ \A i \in DOMAIN h2c' : i \in DOMAIN h2c \/ i = n
      BY <1>2, <2>2, <3>1, AppendTo
    <3>3. thr[t].arg \in cardReq /\ Removing(t, thr[t].arg)'
      BY <1>1, <1>4, <1>5 DEF OneDestroyer, Removing
    <3>4. ASSUME NEW k \in DOMAIN h2c', DestroyAt(k)'
          PROVE  /\ h2c'[k].req \in cardReq'
                 /\ \A j \in DOMAIN h2c' : DestroyAt(j)' /\ h2c'[j].req = h2c'[k].req => j = k
                 /\ h2c'[k].req \in s_infreqs' => \E u \in Thread : Removing(u, h2c[k].req)'
      <4>1. \A j \in DOMAIN h2c : DestroyAt(j)' => DestroyAt(j) /\ h2c'[j].req # thr[t].arg
        BY <1>10, <3>2 DEF DestroyAt
      <4>2. CASE k = n
        <5>1. h2c'[k].req = thr[t].arg
          BY <3>1, <3>2, <4>2
        <5>2. Removing(t, h2c[k].req)'
          BY <1>5, <5>1 DEF Removing
        <5>3. \A j \in DOMAIN h2c' : DestroyAt(j)' /\ h2c'[j].req = h2c'[k].req => j = k
          BY <3>2, <4>1, <4>2, <5>1
        <5> QED
          BY <1>1, <3>3, <5>1, <5>2, <5>3
      <4>3. CASE k \in DOMAIN h2c
        <5>1. DestroyAt(k) /\ h2c'[k] = h2c[k] /\ h2c'[k].req # thr[t].arg
          BY <3>2, <3>4, <4>1, <4>3
        <5>2. h2c'[k].req \in s_infreqs' => \E u \in Thread : Removing(u, h2c[k].req)'
          BY <1>1, <1>4, <1>5, <4>3, <5>1 DEF OneDestroy, Removing
        <5>3. \A j \in DOMAIN h2c' : DestroyAt(j)' /\ h2c'[j].req = h2c'[k].req => j = k
          BY <1>4, <3>1, <3>2, <4>1, <4>3, <5>1 DEF OneDestroy
        <5> QED
          BY <1>1, <1>4, <4>3, <5>1, <5>2, <5>3 DEF OneDestroy
      <4> QED
        BY <3>2, <4>2, <4>3
    <3> QED
      BY <3>4 DEF OneDestroy
  <2> QED
    BY <1>1, <2>1, <2>2
<1> QED
  BY <1>1, <1>4, <1>7, <1>8, <1>9, <1>11

LEMMA HandleRemoved ==
    ASSUME Types, OwnAnswer, Destroys, NEW t \in Thread, destroy_remove(t)
    PROVE  Destroys'
<1>1. /\ thr[t].pc = "remove" /\ thr[t].op = "destroy" /\ Moves(t, "idle", "none", <<0, 0>>, Failure("none"))
      /\ s_infreqs' = s_infreqs \ {thr[t].arg} /\ cardReq' = cardReq /\ hist' = hist /\ c2h' = c2h
      /\ m_create_reply' = m_create_reply /\ m_critical_error' = m_critical_error /\ h2c' = h2c
  BY DestroyRemove DEF SameMaps, SameContext, SameCard, Returns
<1>3. ToldBefore
  BY <1>1, ToldThread DEF Mixed
<1> SUFFICES ASSUME ~Twice'
             PROVE  ("wrong" \notin hist)' /\ HandlesLive' /\ OneDestroyer' /\ OneDestroy' /\ ToldTruly'
  BY DEF Destroys
<1>4. "wrong" \notin hist /\ HandlesLive /\ OneDestroyer /\ OneDestroy /\ ToldTruly
  BY <1>1 DEF Destroys, Twice
<1>5. /\ \A u \in Thread : u # t => thr'[u] = thr[u] /\ (Destroying(u)' <=> Destroying(u))
      /\ ~Destroying(t)' /\ Destroying(t)
  BY <1>1 DEF Moves, Destroying
<1>6. \A u \in Thread : \A r \in s_infreqs' : Removing(u, r) => Removing(u, r)'
  BY <1>1, <1>5 DEF Removing
<1>7. HandlesLive'
  BY <1>1, <1>4, <1>6 DEF HandlesLive
<1>8. OneDestroyer'
  BY <1>1, <1>4, <1>5 DEF OneDestroyer
<1>9. ToldTruly'
  BY <1>1, <1>3, <1>4 DEF ToldTruly, ToldBefore
<1>10. OneDestroy'
  BY <1>1, <1>4, <1>6 DEF OneDestroy, DestroyAt
<1> QED
  BY <1>1, <1>4, <1>7, <1>8, <1>9, <1>10

LEMMA HandleFound ==
    ASSUME Types, OwnAnswer, Destroys, NEW t \in Thread, NEW r \in s_infreqs, find_infreq(t, r)
    PROVE  Destroys'
<1>1. /\ thr[t].pc = "idle" /\ thr[t].op = "none" /\ Moves(t, "destroy", "destroy", r, thr[t].got)
      /\ s_infreqs' = s_infreqs /\ cardReq' = cardReq /\ c2h' = c2h
      /\ m_create_reply' = m_create_reply /\ m_critical_error' = m_critical_error /\ h2c' = h2c
      /\ hist' = IF \E u \in Thread : thr[u].pc \in {"destroy", "remove"} /\ thr[u].op = "destroy" /\ thr[u].arg = r
                 THEN hist \cup {"twice"} ELSE hist
  BY FindRequest, IdleType DEF SameHost, SameMaps, SameContext, SameCard
<1>3. ToldBefore
  <2>1. Mixed => Mixed'
    BY <1>1 DEF Mixed
  <2> QED
    BY <1>1, <2>1, ToldThread
<1> SUFFICES ASSUME ~Twice'
             PROVE  ("wrong" \notin hist)' /\ HandlesLive' /\ OneDestroyer' /\ OneDestroy' /\ ToldTruly'
  BY DEF Destroys
<1>4. "wrong" \notin hist /\ HandlesLive /\ OneDestroyer /\ OneDestroy /\ ToldTruly
  <2>1. ~Twice
    BY <1>1 DEF Twice
  <2> QED
    BY <2>1 DEF Destroys
<1>5. \A u \in Thread : ~(Destroying(u) /\ thr[u].arg = r)
  <2>1. \A u \in Thread : Destroying(u) => thr[u].pc \in {"destroy", "remove"}
    BY DEF Destroying, Types, HostTypes, Place, Fits, ThreadState, Idle, Call
  <2>2. ~\E u \in Thread : thr[u].pc \in {"destroy", "remove"} /\ thr[u].op = "destroy" /\ thr[u].arg = r
    BY <1>1 DEF Twice
  <2> QED
    BY <2>1, <2>2 DEF Destroying
<1>6. /\ \A u \in Thread : u # t => thr'[u] = thr[u] /\ (Destroying(u)' <=> Destroying(u))
      /\ ~Destroying(t) /\ thr'[t].arg = r
  BY <1>1 DEF Moves, Destroying
<1>7. \A u \in Thread : \A q : Removing(u, q) => Removing(u, q)'
  BY <1>6 DEF Removing
<1>8. HandlesLive'
  BY <1>1, <1>4, <1>7 DEF HandlesLive
<1>9. r \in cardReq
  BY <1>4, <1>5 DEF HandlesLive, Removing
<1>10. OneDestroyer'
  BY <1>1, <1>4, <1>5, <1>6, <1>9 DEF OneDestroyer
<1>11. ToldTruly'
  BY <1>1, <1>3, <1>4 DEF ToldTruly, ToldBefore
<1>12. OneDestroy'
  BY <1>1, <1>4, <1>7 DEF OneDestroy, DestroyAt
<1> QED
  BY <1>1, <1>4, <1>8, <1>10, <1>11, <1>12

LEMMA RequestMade ==
    ASSUME Types, OwnAnswer, Numbered, Destroys, NEW t \in Thread, create_done(t), thr[t].got = Success("create")
    PROVE  Destroys'
<1>1. /\ thr[t].pc = "answered" /\ thr[t].op = "create" /\ Moves(t, "idle", "none", <<0, 0>>, Failure("none"))
      /\ thr[t].arg \in Requests
      /\ s_infreqs' = s_infreqs \cup {thr[t].arg} /\ cardReq' = cardReq /\ hist' = hist /\ c2h' = c2h
      /\ m_create_reply' = m_create_reply /\ m_critical_error' = m_critical_error /\ h2c' = h2c
  BY CreateDone DEF SameMaps, SameContext, SameCard, Returns
<1>3. ToldBefore
  BY <1>1, ToldThread DEF Mixed
<1> SUFFICES ASSUME ~Twice'
             PROVE  ("wrong" \notin hist)' /\ HandlesLive' /\ OneDestroyer' /\ OneDestroy' /\ ToldTruly'
  BY DEF Destroys
<1>4. "wrong" \notin hist /\ HandlesLive /\ OneDestroyer /\ OneDestroy /\ ToldTruly
  BY <1>1 DEF Destroys, Twice
<1>5. /\ \A u \in Thread : u # t => thr'[u] = thr[u]
      /\ \A u \in Thread : (Destroying(u)' <=> Destroying(u)) /\ (Destroying(u) => u # t)
  BY <1>1 DEF Moves, Destroying
<1>6. thr[t].arg \in cardReq
  BY <1>1, <1>4 DEF ToldTruly, Told
<1>7. \A k \in DOMAIN h2c : DestroyAt(k) => h2c[k].req # thr[t].arg
  BY <1>1 DEF Numbered, Named, Creating
<1>8. \A u \in Thread : \A q : Removing(u, q) => Removing(u, q)'
  BY <1>5 DEF Removing
<1>9. HandlesLive'
  BY <1>1, <1>4, <1>6, <1>8 DEF HandlesLive
<1>10. OneDestroyer'
  BY <1>1, <1>4, <1>5 DEF OneDestroyer
<1>11. ToldTruly'
  BY <1>1, <1>3, <1>4 DEF ToldTruly, ToldBefore
<1>12. OneDestroy'
  BY <1>1, <1>4, <1>7, <1>8 DEF OneDestroy, DestroyAt
<1> QED
  BY <1>1, <1>4, <1>9, <1>10, <1>11, <1>12

\* The card destroys the request that the message is about.
LEMMA RequestDestroyed ==
    ASSUME Types, OwnAnswer, Ids, Numbered, Destroys, card_destroys
    PROVE  Destroys'
<1> DEFINE m == Head(h2c)
           R == {r \in cardReq : r[1] = m.req[1]}
<1>1. /\ h2c # <<>> /\ m.op = "destroy" /\ h2c' = Tail(h2c) /\ SameDriver /\ cardReq' = cardReq \ R
      /\ hist' = IF R \cap {m.req} # R THEN hist \cup {"wrong"} ELSE hist
      /\ c2h' = c2h \/ (R # {} /\ c2h' = Append(c2h, [op |-> "infreq_destroyed", id |-> m.req[1]]))
  BY CardDestroys
<1>2. h2c \in Seq(Message) /\ cardReq \subseteq Requests
  BY DEF Types, CardTypes
<1>3. /\ 1 \in DOMAIN h2c /\ m = h2c[1] /\ m \in Message /\ DestroyAt(1)
      /\ \A i \in DOMAIN h2c' : i \in Nat \ {0} /\ i + 1 \in DOMAIN h2c /\ h2c'[i] = h2c[i + 1]
  BY <1>1, <1>2, TailOf DEF DestroyAt
<1>4. m.req \in Requests
  BY <1>1, <1>3, MessageFields
<1> SUFFICES ASSUME ~Twice'
             PROVE  ("wrong" \notin hist)' /\ HandlesLive' /\ OneDestroyer' /\ OneDestroy' /\ ToldTruly'
  BY DEF Destroys
<1>5. "wrong" \notin hist /\ HandlesLive /\ OneDestroyer /\ OneDestroy /\ ToldTruly
  BY <1>1 DEF Destroys, Twice
<1>6. m.req \in cardReq
  BY <1>3, <1>5 DEF OneDestroy
<1>7. R = {m.req}
  <2>1. m.req[1] \in Id
    BY <1>4 DEF Requests
  <2>2. \A r \in cardReq : r[1] = m.req[1] => r = m.req
    BY <1>6, <2>1 DEF Ids, OnePlace, Known
  <2> QED
    BY <1>6, <2>2
<1>8. ToldBefore
  <2>1. Mixed' <=> Mixed
    BY <1>1 DEF Mixed
  <2>2. c2h' = c2h \/ \E e \in Reported : e.op # "reply" /\ c2h' = Append(c2h, e)
    <3>1. PICK e \in Reported : e = [op |-> "infreq_destroyed", id |-> m.req[1]]
      BY <1>4, Reports DEF Requests
    <3>2. e.op # "reply"
      BY <3>1
    <3> QED
      BY <1>1, <3>1, <3>2
  <2> QED
    BY <1>1, <2>1, <2>2, ToldOther DEF SameDriver, SameContext, broken
<1> HIDE DEF R, m
<1>9. thr' = thr /\ s_infreqs' = s_infreqs /\ hist' = hist /\ cardReq' = cardReq \ {m.req}
  BY <1>1, <1>7 DEF SameDriver, SameMaps
<1>10. \A u \in Thread : \A q : Removing(u, q)' <=> Removing(u, q)
  BY <1>9 DEF Removing, Destroying
<1>11. m.req \in s_infreqs => \E t \in Thread : Removing(t, m.req)
  BY <1>3, <1>5 DEF OneDestroy
<1>12. HandlesLive'
  BY <1>5, <1>9, <1>10, <1>11 DEF HandlesLive
<1>13. OneDestroyer'
  <2>1. \A t \in Thread : Destroying(t) /\ thr[t].pc = "destroy" => thr[t].arg # m.req
    BY <1>5, <1>11 DEF OneDestroyer, Removing
  <2> QED
    BY <1>5, <1>9, <2>1 DEF OneDestroyer, Destroying
<1>14. OneDestroy'
  <2>1. ASSUME NEW k \in DOMAIN h2c', DestroyAt(k)'
        PROVE  /\ h2c'[k].req \in cardReq'
               /\ \A j \in DOMAIN h2c' : DestroyAt(j)' /\ h2c'[j].req = h2c'[k].req => j = k
               /\ h2c'[k].req \in s_infreqs' => \E t \in Thread : Removing(t, h2c[k].req)'
    <3>1. /\ k \in Nat \ {0} /\ k + 1 \in DOMAIN h2c /\ h2c'[k] = h2c[k + 1] /\ DestroyAt(k + 1)
      BY <1>3, <2>1 DEF DestroyAt
    <3>2. k + 1 # 1
      BY <3>1
    <3>3. h2c'[k].req # m.req
      BY <1>3, <1>5, <3>1, <3>2 DEF OneDestroy
    <3>4. ASSUME NEW j \in DOMAIN h2c', DestroyAt(j)', h2c'[j].req = h2c'[k].req PROVE j = k
      <4>1. j \in Nat /\ j + 1 \in DOMAIN h2c /\ h2c'[j] = h2c[j + 1] /\ DestroyAt(j + 1)
        BY <1>3, <3>4 DEF DestroyAt
      <4>2. j + 1 = k + 1
        BY <1>5, <3>1, <3>4, <4>1 DEF OneDestroy
      <4> QED
        BY <3>1, <4>1, <4>2
    <3>5. h2c'[k].req \in s_infreqs' => \E t \in Thread : Removing(t, h2c[k].req)'
      BY <1>5, <1>9, <3>1 DEF OneDestroy, Removing, Destroying
    <3> QED
      BY <1>5, <1>9, <3>1, <3>3, <3>4, <3>5 DEF OneDestroy
  <2> QED
    BY <2>1 DEF OneDestroy
<1>15. ToldTruly'
  <2>1. \A t \in Thread : Told(t) => thr[t].arg # m.req
    <3>1. ASSUME NEW t \in Thread, Told(t), thr[t].arg = m.req PROVE FALSE
      <4>1. Creating(t)
        BY <3>1 DEF Told, Creating, Heard
      <4>2. ~Named(thr[t].arg[2])
        BY <4>1 DEF Numbered
      <4> QED
        BY <1>3, <3>1, <4>2 DEF Named
    <3> QED
      BY <3>1
  <2> QED
    BY <1>5, <1>8, <1>9, <2>1 DEF ToldTruly, ToldBefore
<1> QED
  BY <1>5, <1>9, <1>12, <1>13, <1>14, <1>15

\* A step of a thread in another call, that does not wait and does not find its request made.
LEMMA CallDestroys ==
    ASSUME Types, OwnAnswer, Destroys, NEW t \in Thread, NEW p, NEW o, NEW a, NEW g, Moves(t, p, o, a, g),
           thr[t].op # "destroy", o # "destroy", thr[t].pc # "wait", o = "create" /\ p = "wait" => thr[t].op = "create",
           ~(o = "create" /\ p = "answered" /\ g = Success("create")),
           \A e \in {"overlap", "twice"} : e \in hist => e \in hist', "wrong" \in hist' => "wrong" \in hist,
           SameContext, c2h' = c2h, s_infreqs' = s_infreqs, SameCard,
           h2c' = h2c \/ \E m \in Message : m.op # "destroy" /\ h2c' = Append(h2c, m)
    PROVE  Destroys'
<1>1. (Mixed => Mixed') /\ (Twice => Twice')
  BY DEF Mixed, Twice
<1>2. m_create_reply' = m_create_reply /\ m_critical_error' = m_critical_error /\ cardReq' = cardReq
  BY DEF SameContext, SameCard
<1>3. ToldBefore
  BY <1>1, <1>2, ToldThread
<1> QED
  BY <1>1, <1>2, <1>3, ThreadDestroys

LEMMA DestroysHeld ==
    ASSUME Types, Locking, Pages, Ids, OwnAnswer, Numbered, Destroys, [NetNext]_netVars
    PROVE  Destroys'
<1>0. /\ \A t \in Thread : Place(t)
      /\ h2c \in Seq(Message) /\ c2h \in Seq(Reported)
  BY DEF Types, CardTypes
<1> USE DEF SameHost, SameMaps
<1>r. ASSUME NEW t \in Thread, Returns(t), thr[t].op # "destroy", thr[t].pc # "wait",
             \A e \in {"overlap", "twice"} : e \in hist => e \in hist', "wrong" \in hist' => "wrong" \in hist,
             SameContext, c2h' = c2h, s_infreqs' = s_infreqs, SameCard, h2c' = h2c
      PROVE  Destroys'
  <2>1. Moves(t, "idle", "none", <<0, 0>>, Failure("none"))
    BY <1>r DEF Returns
  <2> QED
    BY <1>r, <2>1, CallDestroys
<1>f. ASSUME NEW t \in Thread, NEW p, NEW of, Moves(t, p, thr[t].op, thr[t].arg, Failure(of)), thr[t].op # "destroy", thr[t].pc # "wait",
             SameHost, p = "answered", \A e \in {"overlap", "twice"} : e \in hist => e \in hist', "wrong" \in hist' => "wrong" \in hist,
             h2c' = h2c
      PROVE  Destroys'
  <2>1. Failure(of) # Success("create")
    BY DEF Failure, Success
  <2> QED
    BY <1>f, <2>1, CallDestroys
<1>g. ASSUME NEW t \in Thread, NEW p, Goes(t, p), thr[t].op # "destroy", thr[t].pc # "wait", p # "answered",
             SameHost, \A e \in {"overlap", "twice"} : e \in hist => e \in hist', "wrong" \in hist' => "wrong" \in hist,
             h2c' = h2c \/ \E m \in Message : m.op # "destroy" /\ h2c' = Append(h2c, m)
      PROVE  Destroys'
  BY <1>g, CallDestroys DEF Goes
<1>1. ASSUME NEW t \in Thread, from_file(t) PROVE Destroys'
  <2>1. thr[t].op = "build" /\ thr[t].pc \in {"file0", "file1"} /\ SameHost /\ h2c' = h2c /\ hist' = hist
    BY <1>1, FromFile
  <2>2. CASE Returns(t)
    BY <2>1, <1>r, <2>2
  <2>3. ASSUME NEW to \in {"lock", "file1"}, NEW k, Moves(t, to, "build", <<k, 1>>, thr[t].got) PROVE Destroys'
    BY <2>1, <2>3, CallDestroys
  <2> QED
    BY <1>1, <2>2, <2>3, FromFile
<1>2. ASSUME NEW t \in Thread, build_done(t) \/ add_done(t) \/ property_done(t) PROVE Destroys'
  BY <1>2, <1>r, BuildDone, AddDone, PropertyDone
<1>3. ASSUME NEW t \in Thread, add_test(t) PROVE Destroys'
  <2>1. thr[t].pc = "add" /\ thr[t].op = "add" /\ (Returns(t) \/ Goes(t, "lock")) /\ SameHost /\ h2c' = h2c /\ hist' = hist
    BY <1>3, AddTest
  <2> QED
    BY <1>g, <1>r, <2>1
<1>4. ASSUME NEW t \in Thread, lock(t) PROVE Destroys'
  <2>1. /\ thr[t].pc = "lock" /\ SameHost /\ h2c' = h2c
        /\ Goes(t, "send") \/ Moves(t, "answered", thr[t].op, thr[t].arg, Failure("broken"))
        /\ (\A e \in {"overlap", "twice"} : e \in hist => e \in hist') /\ ("wrong" \in hist' => "wrong" \in hist)
    BY <1>4, Lock
  <2>2. thr[t].op # "destroy"
    BY <1>0, <2>1 DEF Place, Fits
  <2> QED
    BY <1>g, <1>f, <2>1, <2>2
<1>5. ASSUME NEW t \in Thread, send_page(t) PROVE Destroys'
  <2>1. thr[t].pc = "send" /\ thr[t].op \in {"build", "add"} /\ SameHost /\ Sending(t) /\ hist' = hist
    BY <1>5, SendPage DEF Sending
  <2>2. PICK m \in Message : m = PageOf(t, n_res(t), n_conf(t)) /\ m.op = thr[t].op
    BY <2>1, NextPage
  <2>3. CASE h2c' = h2c /\ Moves(t, "answered", thr[t].op, thr[t].arg, Failure("io_error"))
    BY <1>f, <2>1, <2>3
  <2>4. CASE h2c' = Append(h2c, m) /\ Goes(t, "wait")
    BY <1>g, <2>1, <2>2, <2>4
  <2>5. CASE h2c' = Append(h2c, m) /\ thr' = thr
    <3>1. Goes(t, "send")
      BY <2>1, <2>5 DEF Goes, Moves, Types, HostTypes
    <3> QED
      BY <1>g, <2>1, <2>2, <2>5, <3>1
  <2> QED
    BY <1>5, <2>2, <2>3, <2>4, <2>5, SendPage
<1>6. ASSUME NEW t \in Thread, wait(t) PROVE Destroys'
  <2>1. /\ thr[t].pc = "wait" /\ SameMaps /\ SameCard /\ h2c' = h2c
        /\ (Twice => Twice') /\ ("wrong" \in hist' => "wrong" \in hist)
        /\ \E g : Moves(t, "answered", thr[t].op, thr[t].arg, g)
    BY <1>6, Wait DEF Twice
  <2>2. thr[t].op # "destroy" /\ cardReq' = cardReq
    BY <1>0, <2>1 DEF Place, Fits, SameCard
  <2> QED
    BY <1>6, <2>1, <2>2, ToldRead, ThreadDestroys
<1>7. ASSUME NEW t \in Thread, add_insert(t) PROVE Destroys'
  <2>1. /\ thr[t].pc = "answered" /\ thr[t].op = "add" /\ (Returns(t) \/ Goes(t, "insert")) /\ SameHost /\ h2c' = h2c
        /\ (\A e \in {"overlap", "twice"} : e \in hist => e \in hist') /\ ("wrong" \in hist' => "wrong" \in hist)
    BY <1>7, AddInsert
  <2> QED
    BY <1>g, <1>r, <2>1
<1>9. ASSUME NEW t \in Thread, property_send(t) PROVE Destroys'
  <2>1. /\ thr[t].pc = "property" /\ thr[t].op = "property" /\ SameHost
        /\ \/ h2c' = Append(h2c, [op |-> "property", by |-> t]) /\ Goes(t, "wait")
           \/ h2c' = h2c /\ Returns(t)
        /\ (\A e \in {"overlap", "twice"} : e \in hist => e \in hist') /\ ("wrong" \in hist' => "wrong" \in hist)
    BY <1>9, PropertySend
  <2>2. PICK m \in Message : m = [op |-> "property", by |-> t] /\ m.op # "destroy"
    BY Messages
  <2> QED
    BY <1>g, <1>r, <2>1, <2>2
<1>11. ASSUME NEW t \in Thread, create_alloc(t) PROVE Destroys'
  <2>1. /\ thr[t].pc = "create" /\ thr[t].op = "create" /\ SameMaps /\ SameContext /\ SameCard /\ h2c' = h2c /\ c2h' = c2h
        /\ (\A e \in {"overlap", "twice"} : e \in hist => e \in hist') /\ ("wrong" \in hist' => "wrong" \in hist)
    BY <1>11, CreateAlloc
  <2>2. CASE Returns(t)
    BY <1>r, <2>1, <2>2
  <2>3. ASSUME NEW i, Moves(t, "lock", "create", i, thr[t].got) PROVE Destroys'
    BY <2>1, <2>3, CallDestroys
  <2> QED
    BY <1>11, <2>2, <2>3, CreateAlloc
<1>12. ASSUME NEW t \in Thread, create_send(t) PROVE Destroys'
  <2>1. /\ thr[t].pc = "send" /\ thr[t].op = "create" /\ thr[t].arg \in Requests /\ SameHost /\ hist' = hist
        /\ \/ h2c' = Append(h2c, [op |-> "create", by |-> t, req |-> thr[t].arg]) /\ Goes(t, "wait")
           \/ h2c' = h2c /\ Moves(t, "answered", "create", thr[t].arg, Failure("io_error"))
    BY <1>12, CreateSend
  <2>2. PICK m \in Message : m = [op |-> "create", by |-> t, req |-> thr[t].arg] /\ m.op # "destroy"
    BY <2>1, Messages
  <2> QED
    BY <1>g, <1>f, <2>1, <2>2
<1>13. ASSUME NEW t \in Thread, create_done(t) PROVE Destroys'
  <2>1. CASE thr[t].got = Success("create")
    BY <1>13, <2>1, RequestMade
  <2>2. CASE thr[t].got # Success("create")
    BY <1>13, <1>r, <2>2, CreateDone
  <2> QED
    BY <2>1, <2>2
<1>14. ASSUME NEW t \in Thread, destroy_send(t) \/ destroy_remove(t) PROVE Destroys'
  BY <1>14, DestroySends, HandleRemoved
<1>15. ASSUME NEW t \in Thread, destroy_net_remove(t) PROVE Destroys'
  BY <1>15, <1>r, DestroyNetRemove
<1>16. ASSUME NEW t \in Thread, destroy_net_send(t) PROVE Destroys'
  <2>1. /\ thr[t].pc = "destroy_net" /\ thr[t].op = "destroy_net" /\ SameHost /\ hist' = hist
        /\ \/ Goes(t, "remove") /\ h2c' = h2c
           \/ Goes(t, "remove") /\ h2c' = Append(h2c, [op |-> "destroy_net"])
           \/ Returns(t) /\ h2c' = h2c
    BY <1>16, DestroyNetSend
  <2>2. PICK m \in Message : m = [op |-> "destroy_net"] /\ m.op # "destroy"
    BY Messages
  <2> QED
    BY <1>g, <1>r, <2>1, <2>2
<1>18. ASSUME NEW t \in Thread, NEW c \in Call, find_network(t, c) PROVE Destroys'
  <2>1. PICK s : Moves(t, c, c, s, thr[t].got)
    BY <1>18, FindNetwork
  <2>2. /\ c # "destroy" /\ c \notin {"wait", "answered"} /\ SameHost /\ h2c' = h2c /\ hist' = hist
        /\ thr[t].pc = "idle" /\ thr[t].op = "none"
    BY <1>18, FindNetwork, IdleType DEF Call
  <2> QED
    BY <2>1, <2>2, CallDestroys
<1>19. ASSUME NEW t \in Thread, NEW r \in s_infreqs, find_infreq(t, r) PROVE Destroys'
  BY <1>19, HandleFound
<1>20. ASSUME process_create_reply PROVE Destroys'
  BY <1>20, ToldStored, ReplyStep, OtherDestroys DEF SameLocal, SameCard
<1>21. ASSUME infreq_destroyed \/ devnet_destroyed \/ critical_event PROVE Destroys'
  <2>1. /\ SameLocal /\ m_create_reply' = m_create_reply /\ c2h # <<>> /\ c2h' = Tail(c2h) /\ Head(c2h).op # "reply"
        /\ (broken => broken') /\ s_infreqs' = s_infreqs
    BY <1>21, RequestGone, NetworkGone, Critical DEF broken, SameContext
  <2>2. ToldBefore
    BY <2>1, ToldOther DEF SameLocal, Mixed
  <2> QED
    BY <2>1, <2>2, OtherDestroys DEF SameLocal, SameCard
<1>22. ASSUME card_page PROVE Destroys'
  <2>1. PICK m : m = Head(h2c)
    OBVIOUS
  <2>2. /\ h2c # <<>> /\ h2c' = Tail(h2c) /\ SameDriver /\ m.op \in {"build", "add"} /\ cardReq' = cardReq
        /\ (Mixed' <=> Mixed) /\ (Twice => Twice') /\ ("wrong" \in hist' => "wrong" \in hist)
    <3>1. hist' = hist \/ PageLast(m)
      BY <1>22, <2>1, CardPage DEF PageKept
    <3> QED
      BY <1>22, <2>1, <3>1, CardPage DEF PageLast, Mixed, Twice
  <2>3. ToldBefore
    <3>1. CASE PageKept(m)
      BY <2>2, <3>1, ToldOther DEF PageKept, SameDriver, SameContext, broken
    <3>2. CASE ~PageKept(m)
      <4>1. Expects(m)
        BY <1>22, <2>1, <3>2, TakenPage DEF Expects
      <4>2. PICK w \in {Success(m.op), Failure(m.op)} : c2h' = Append(c2h, ReplyTo(-1, w))
        BY <1>22, <2>1, <3>2, CardPage DEF PageMade, PageRefused
      <4>3. w \in Answers /\ w.of = m.op
        <5>1. /\ Success(m.op) \in Answers /\ Failure(m.op) \in Answers
              /\ Success(m.op).of = m.op /\ Failure(m.op).of = m.op
          BY <2>2, Outcomes DEF Success, Failure, Call
        <5> QED
          BY <5>1
      <4>4. (IF m.op = "create" THEN m.req[1] ELSE -1) = -1 /\ m.op # "create"
        BY <2>2
      <4> QED
        BY <2>1, <2>2, <4>1, <4>2, <4>3, <4>4, ToldAnswered
    <3> QED
      BY <3>1, <3>2
  <2> QED
    BY <2>2, <2>3, OtherDestroys DEF SameDriver
<1>23. ASSUME card_asked PROVE Destroys'
  <2>1. PICK m : m = Head(h2c)
    OBVIOUS
  <2>2. h2c # <<>> /\ h2c' = Tail(h2c) /\ SameDriver /\ m.op \in {"property", "create"} /\ hist' = hist
    BY <1>23, <2>1, CardAsked
  <2>3. PICK w \in {Success(m.op), Failure(m.op)} :
          /\ c2h' = Append(c2h, ReplyTo(IF m.op = "create" THEN m.req[1] ELSE -1, w))
          /\ w = Success(m.op) /\ m.op = "create" => m.req \in cardReq'
    <3>1. Failure(m.op) # Success(m.op)
      BY DEF Failure, Success
    <3> QED
      BY <1>23, <2>1, <3>1, CardAsked
  <2>4. w \in Answers /\ w.of = m.op /\ (w.ok => w = Success(m.op))
    <3>1. /\ Success(m.op) \in Answers /\ Failure(m.op) \in Answers
          /\ Success(m.op).of = m.op /\ Failure(m.op).of = m.op /\ ~Failure(m.op).ok
      BY <2>2, Outcomes DEF Success, Failure, Call
    <3> QED
      BY <3>1
  <2>5. cardReq \subseteq cardReq'
    BY <1>23, CardAsked
  <2>6. ToldBefore
    BY <2>1, <2>2, <2>3, <2>4, ToldAnswered DEF Expects, Mixed
  <2> QED
    BY <2>2, <2>5, <2>6, OtherDestroys DEF SameDriver
<1>24. ASSUME card_destroys PROVE Destroys'
  BY <1>24, RequestDestroyed
<1>25. ASSUME card_net_destroy \/ card_net_gone \/ card_event \/ UNCHANGED netVars PROVE Destroys'
  <2>1. /\ SameDriver /\ cardReq' = cardReq /\ hist' = hist /\ (h2c' = h2c \/ (h2c # <<>> /\ h2c' = Tail(h2c)))
        /\ c2h' = c2h \/ \E e \in {"devnet_destroyed", "context", "card"} : c2h' = Append(c2h, [op |-> e])
    BY <1>25, CardNetDestroy, CardNetGone, CardEvent, Stutter DEF SameCard
  <2>2. c2h' = c2h \/ \E m \in Reported : m.op # "reply" /\ c2h' = Append(c2h, m)
    <3>1. ASSUME NEW e \in {"devnet_destroyed", "context", "card"}, c2h' = Append(c2h, [op |-> e])
          PROVE  \E m \in Reported : m.op # "reply" /\ c2h' = Append(c2h, m)
      <4>1. PICK m \in Reported : m = [op |-> e]
        BY Reports
      <4>2. m.op # "reply"
        BY <4>1
      <4> QED
        BY <3>1, <4>1, <4>2
    <3> QED
      BY <2>1, <3>1
  <2>3. ToldBefore
    BY <2>1, <2>2, ToldOther DEF SameDriver, SameContext, Mixed, broken
  <2> QED
    BY <2>1, <2>3, OtherDestroys DEF SameDriver
<1> QED
  BY <1>1, <1>2, <1>3, <1>4, <1>5, <1>6, <1>7, <1>9, <1>11, <1>12, <1>13, <1>14, <1>15, <1>16, <1>18, <1>19, <1>20, <1>21,
     <1>22, <1>23, <1>24, <1>25 DEF NetNext, Do, Begin, Respond, CardWork

-----------------------------------------------------------------------------
(***************************************************************************)
(* The ids that are held                                                   *)
(***************************************************************************)

\* The card, or the driver, has refused to make the request of t, and t has not returned.
Refused(t) == thr[t].op = "create" /\ ((thr[t].pc = "answered" /\ thr[t].got # Success("create")) \/ Heard(t, FALSE))
Holds(t, id) == Making(t, id) \/ (Refused(t) /\ thr[t].arg[1] = id)

Requested(id) == \E k \in DOMAIN h2c : Asked(k, id)
Announced(id) == \E k \in DOMAIN c2h : Gone(k, id)

\* Who has an id that is held: the card's request, a message about it, a thread that makes
\* the request or has been refused; or it is lost.
Claim(id) ==
    \/ \E r \in cardReq : Known(r, id)
    \/ id \in leaked
    \/ Requested(id)
    \/ Announced(id)
    \/ \E t \in Thread : Holds(t, id)

Claims == ~broken /\ cardNet # "gone" => \A id \in held : Claim(id)

LEMMA ClaimsKept ==
    ASSUME Claims, broken => broken', cardNet = "gone" => cardNet' = "gone",
           ~broken' /\ cardNet' # "gone" => \A id \in held' : id \in held /\ (Claim(id) => Claim(id)')
    PROVE  Claims'
<1>1. ASSUME ~broken', cardNet' # "gone", NEW id \in held' PROVE Claim(id)'
  BY <1>1 DEF Claims
<1> QED
  BY <1>1 DEF Claims

LEMMA RequestedStays ==
    ASSUME Types,
           \/ h2c' = h2c
           \/ h2c # <<>> /\ h2c' = Tail(h2c) /\ Head(h2c).op # "create"
           \/ \E m \in Message : h2c' = Append(h2c, m),
           NEW id, Requested(id)
    PROVE  Requested(id)'
<1>1. h2c \in Seq(Message)
  BY DEF Types, CardTypes
<1>2. PICK k \in DOMAIN h2c : Asked(k, id)
  BY DEF Requested
<1>3. \E j \in DOMAIN h2c' : h2c'[j] = h2c[k]
  <2>1. CASE h2c' = h2c
    BY <2>1
  <2>2. CASE h2c # <<>> /\ h2c' = Tail(h2c) /\ Head(h2c).op # "create"
    <3>1. Head(h2c) = h2c[1] /\ (k # 1 => k - 1 \in DOMAIN h2c' /\ h2c'[k - 1] = h2c[k])
      BY <1>1, <2>2, TailOf
    <3>2. k # 1
      BY <1>2, <2>2, <3>1 DEF Asked
    <3> QED
      BY <3>1, <3>2
  <2>3. ASSUME NEW m \in Message, h2c' = Append(h2c, m) PROVE \E j \in DOMAIN h2c' : h2c'[j] = h2c[k]
    BY <1>1, <2>3, AppendTo
  <2> QED
    BY <2>1, <2>2, <2>3
<1> QED
  BY <1>2, <1>3 DEF Requested, Asked

LEMMA AnnouncedStays ==
    ASSUME Types, NEW id, Announced(id),
           \/ c2h' = c2h
           \/ c2h # <<>> /\ c2h' = Tail(c2h) /\ ~(Head(c2h).op = "infreq_destroyed" /\ Head(c2h).id = id)
           \/ \E m \in Reported : c2h' = Append(c2h, m)
    PROVE  Announced(id)'
<1>1. c2h \in Seq(Reported)
  BY DEF Types, CardTypes
<1>2. PICK k \in DOMAIN c2h : Gone(k, id)
  BY DEF Announced
<1>3. \E j \in DOMAIN c2h' : c2h'[j] = c2h[k]
  <2>1. CASE c2h' = c2h
    BY <2>1
  <2>2. CASE c2h # <<>> /\ c2h' = Tail(c2h) /\ ~(Head(c2h).op = "infreq_destroyed" /\ Head(c2h).id = id)
    <3>1. Head(c2h) = c2h[1] /\ (k # 1 => k - 1 \in DOMAIN c2h' /\ c2h'[k - 1] = c2h[k])
      BY <1>1, <2>2, TailOf
    <3>2. k # 1
      BY <1>2, <2>2, <3>1 DEF Gone
    <3> QED
      BY <3>1, <3>2
  <2>3. ASSUME NEW m \in Reported, c2h' = Append(c2h, m) PROVE \E j \in DOMAIN c2h' : c2h'[j] = c2h[k]
    BY <1>1, <2>3, AppendTo
  <2> QED
    BY <2>1, <2>2, <2>3
<1> QED
  BY <1>2, <1>3 DEF Announced, Gone

\* A thread step that hands on what the thread held.
LEMMA ThreadClaims ==
    ASSUME Types, OwnAnswer, Claims, NEW t \in Thread, NEW p, NEW o, NEW a, NEW g, Moves(t, p, o, a, g),
           thr[t].pc # "wait", Mixed => Mixed', held' = held, SameContext, SameCard, c2h' = c2h, leaked \subseteq leaked',
           h2c' = h2c \/ \E m \in Message : h2c' = Append(h2c, m),
           \A id : Holds(t, id) => Claim(id)'
    PROVE  Claims'
<1> USE DEF SameContext, SameCard
<1>1. broken' <=> broken
  BY DEF broken
<1>2. ASSUME ~broken, NEW id, Claim(id) PROVE Claim(id)'
  <2>1. ASSUME NEW u \in Thread, u # t, Holds(u, id) PROVE Holds(u, id)'
    <3>1. thr'[u] = thr[u]
      BY <2>1 DEF Moves
    <3>2. CASE Making(u, id)
      BY <3>1, <3>2 DEF Holds, Making
    <3>3. CASE Refused(u)
      <4>1. thr[u].op = "create"
        BY <3>3 DEF Refused
      <4>2. Heard(u, FALSE)' <=> Heard(u, FALSE)
        BY <1>2, <3>1, <4>1, HeardSame DEF Plain
      <4> QED
        BY <2>1, <3>1, <3>3, <4>2 DEF Holds, Making, Refused
    <3> QED
      BY <2>1, <3>2, <3>3 DEF Holds
  <2>2. CASE \E u \in Thread : Holds(u, id)
    BY <2>1, <2>2 DEF Claim
  <2>3. CASE Requested(id)
    <3>1. Requested(id)'
      BY <2>3, RequestedStays
    <3> QED
      BY <3>1 DEF Claim
  <2>4. CASE Announced(id)
    <3>1. Announced(id)'
      BY <2>4, AnnouncedStays
    <3> QED
      BY <3>1 DEF Claim
  <2>5. CASE id \in leaked \/ \E r \in cardReq : Known(r, id)
    BY <2>5 DEF Claim, Known
  <2> QED
    BY <1>2, <2>2, <2>3, <2>4, <2>5 DEF Claim
<1> QED
  BY <1>1, <1>2, ClaimsKept

\* A step of the response thread, or of the card, that moves no thread.
LEMMA OtherClaims ==
    ASSUME Types, Claims, thr' = thr, held' = held, leaked' = leaked, broken => broken', cardNet = "gone" => cardNet' = "gone",
           ~broken' /\ cardNet' # "gone" =>
               \A id \in held :
                  /\ Requested(id) => Claim(id)'
                  /\ Announced(id) => Announced(id)'
                  /\ \A r \in cardReq : Known(r, id) => Claim(id)'
                  /\ \A u \in Thread : thr[u].op = "create" /\ Heard(u, FALSE) => Heard(u, FALSE)'
    PROVE  Claims'
<1>1. ASSUME ~broken', cardNet' # "gone", NEW id \in held, Claim(id) PROVE Claim(id)'
  <2>1. ASSUME NEW u \in Thread, Holds(u, id) PROVE Holds(u, id)'
    <3>1. Refused(u) => Refused(u)'
      BY <1>1 DEF Refused
    <3> QED
      BY <2>1, <3>1 DEF Holds, Making
  <2>2. CASE \E u \in Thread : Holds(u, id)
    BY <2>1, <2>2 DEF Claim
  <2>3. CASE Announced(id)
    BY <1>1, <2>3 DEF Claim
  <2>4. CASE id \in leaked
    BY <2>4 DEF Claim
  <2> QED
    BY <1>1, <2>2, <2>3, <2>4 DEF Claim
<1> QED
  BY <1>1, ClaimsKept

LEMMA AllocClaims ==
    ASSUME Types, OwnAnswer, Claims, NEW t \in Thread, create_alloc(t)
    PROVE  Claims'
<1>1. /\ thr[t].pc = "create" /\ thr[t].op = "create" /\ SameMaps /\ SameContext /\ SameCard /\ h2c' = h2c /\ c2h' = c2h
      /\ leaked' = leaked /\ (Mixed => Mixed')
  BY CreateAlloc DEF Mixed
<1>2. \A id : ~Holds(t, id)
  BY <1>1 DEF Holds, Making, Refused, Heard
<1>3. CASE Returns(t) /\ SameIds
  BY <1>1, <1>2, <1>3, ThreadClaims DEF Returns, SameIds
<1>4. ASSUME NEW i \in Id, alloc(i), Moves(t, "lock", "create", <<i, made + 1>>, thr[t].got) PROVE Claims'
  <2>1. held' = held \cup {i}
    BY <1>4 DEF alloc
  <2>2. Making(t, i)'
    BY <1>4 DEF Making, Moves
  <2>3. ASSUME NEW u \in Thread, NEW id, ~broken, Holds(u, id) PROVE Holds(u, id)'
    <3>1. u # t /\ thr'[u] = thr[u]
      BY <1>2, <1>4, <2>3 DEF Moves
    <3>2. thr[u].op = "create" => (Heard(u, FALSE)' <=> Heard(u, FALSE))
      BY <1>1, <2>3, <3>1, HeardSame DEF Plain, SameContext
    <3> QED
      BY <2>3, <3>1, <3>2 DEF Holds, Making, Refused
  <2>4. ASSUME ~broken, NEW id \in held, Claim(id) PROVE Claim(id)'
    BY <1>1, <2>3, <2>4 DEF Claim, Requested, Announced, Asked, Gone, Known, SameCard
  <2>5. (broken' <=> broken) /\ cardNet' = cardNet
    BY <1>1 DEF broken, SameContext, SameCard
  <2>6. ASSUME ~broken', cardNet' # "gone", NEW id \in held' PROVE Claim(id)'
    BY <2>1, <2>2, <2>4, <2>5, <2>6 DEF Claims, Claim, Holds
  <2> QED
    BY <2>6 DEF Claims
<1> QED
  BY <1>3, <1>4, CreateAlloc

LEMMA ReadClaims ==
    ASSUME Types, Locking, OwnAnswer, Claims, NEW t \in Thread, wait(t)
    PROVE  Claims'
<1>1. /\ thr[t].pc = "wait" /\ SameIds /\ SameCard /\ h2c' = h2c /\ c2h' = c2h /\ leaked' = leaked
      /\ (broken' <=> broken) /\ \E g : Moves(t, "answered", thr[t].op, thr[t].arg, g)
  BY Wait DEF broken
<1>2. ASSUME ~broken, NEW u \in Thread, NEW id, Holds(u, id) PROVE Holds(u, id)'
  <2>1. /\ \A v \in Thread : v # t => (Heard(v, FALSE)' <=> Heard(v, FALSE))
        /\ thr[t].op = "create" => (Heard(t, FALSE) <=> thr'[t].got.ok = FALSE)
    BY <1>2, HeardRead
  <2>2. CASE u # t
    <3>1. thr'[u] = thr[u]
      BY <1>1, <2>2 DEF Moves
    <3> QED
      BY <1>2, <2>1, <2>2, <3>1 DEF Holds, Making, Refused
  <2>3. CASE u = t
    <3>1. thr[t].op = "create" /\ Heard(t, FALSE) /\ thr[t].arg[1] = id
      BY <1>1, <1>2, <2>3 DEF Holds, Making, Refused
    <3>2. thr'[t].got # Success("create")
      <4>1. thr'[t].got.ok = FALSE
        BY <2>1, <3>1
      <4>2. Success("create").ok = TRUE
        BY DEF Success
      <4> QED
        BY <4>1, <4>2
    <3> QED
      BY <1>1, <2>3, <3>1, <3>2 DEF Holds, Refused, Moves
  <2> QED
    BY <2>2, <2>3
<1>3. ASSUME ~broken, NEW id \in held, Claim(id) PROVE Claim(id)'
  BY <1>1, <1>2, <1>3 DEF Claim, Requested, Announced, Asked, Gone, Known, SameCard
<1> QED
  BY <1>1, <1>3, ClaimsKept DEF SameIds, SameCard

\* The id of a request that is gone is given back, for the network is in the database.
LEMMA FreedClaims ==
    ASSUME Types, Stage, OwnAnswer, Claims, infreq_destroyed
    PROVE  Claims'
<1>1. /\ c2h # <<>> /\ Head(c2h).op = "infreq_destroyed" /\ c2h' = Tail(c2h) /\ SameLocal /\ SameContext
      /\ (netDB /\ held' = held \ {Head(c2h).id}) \/ (~netDB /\ held' = held)
  BY RequestGone DEF free, SameIds
<1>2. (broken' <=> broken) /\ cardNet' = cardNet /\ thr' = thr /\ leaked' = leaked /\ cardReq' = cardReq /\ h2c' = h2c
  BY <1>1 DEF SameLocal, SameContext, SameCard, broken
<1>3. ~broken /\ cardNet # "gone" => netDB
  <2>1. 1 \in DOMAIN c2h /\ c2h[1].op = "infreq_destroyed"
    BY <1>1, TailOf DEF Types, CardTypes
  <2>2. Built
    BY <2>1 DEF Stage, Unbuilt
  <2> QED
    BY <2>2 DEF Stage, Kept
<1>4. ASSUME ~broken, cardNet # "gone", NEW id \in held', Claim(id) PROVE Claim(id)'
  <2>1. Announced(id) => Announced(id)'
    BY <1>1, <1>3, <1>4, AnnouncedStays
  <2>2. ASSUME NEW u \in Thread, Holds(u, id) PROVE Holds(u, id)'
    <3>1. Heard(u, FALSE)' <=> Heard(u, FALSE)
      BY <1>1, <1>2, <1>4, HeardSame DEF Plain, Mixed, SameLocal, SameContext
    <3> QED
      BY <1>2, <2>2, <3>1 DEF Holds, Making, Refused
  <2> QED
    BY <1>2, <1>4, <2>1, <2>2 DEF Claim, Requested, Asked, Known
<1>5. held' \subseteq held
  BY <1>1
<1> QED
  BY <1>2, <1>4, <1>5, ClaimsKept

\* The card makes the request, or the thread is going to be told that it does not.
LEMMA AskedClaims ==
    ASSUME Types, OwnAnswer, Claims, card_asked
    PROVE  Claims'
<1> DEFINE m == Head(h2c)
           k0 == IF m.op = "create" THEN m.req[1] ELSE -1
<1>1. /\ h2c # <<>> /\ h2c' = Tail(h2c) /\ SameDriver /\ m.op \in {"property", "create"} /\ hist' = hist /\ cardNet' = cardNet
      /\ \/ c2h' = Append(c2h, ReplyTo(k0, Success(m.op))) /\ (m.op = "create" => m.req \in cardReq')
         \/ c2h' = Append(c2h, ReplyTo(k0, Failure(m.op)))
      /\ cardReq \subseteq cardReq'
  BY CardAsked
<1>2. h2c \in Seq(Message) /\ m \in Message /\ m = h2c[1]
  BY <1>1, TailOf DEF Types, CardTypes
<1>3. k0 \in Id \cup {-1}
  BY <1>1, <1>2, MessageFields DEF Requests
<1>4. /\ Success(m.op) \in Answers /\ Failure(m.op) \in Answers
      /\ Success(m.op).of = m.op /\ Failure(m.op).of = m.op
      /\ Success(m.op).ok = TRUE /\ Failure(m.op).ok = FALSE
  BY <1>1, Outcomes DEF Success, Failure, Call
<1>5. thr' = thr /\ held' = held /\ leaked' = leaked /\ m_create_reply' = m_create_reply /\ (broken' <=> broken) /\ (Mixed' <=> Mixed)
  BY <1>1 DEF SameDriver, SameIds, SameContext, broken, Mixed
<1>6. PICK w \in Answers : /\ c2h' = Append(c2h, ReplyTo(k0, w)) /\ w.of = m.op
                           /\ m.op = "create" /\ w.ok # FALSE => m.req \in cardReq'
  BY <1>1, <1>4
<1>7. Expects(m)
  BY <1>1 DEF Expects
<1>8. PICK key \in Id \cup {-1} : key = k0
  BY <1>3
<1>9. c2h' = Append(c2h, ReplyTo(key, w)) /\ key = IF m.op = "create" THEN m.req[1] ELSE -1
  BY <1>6, <1>8
<1>10. ASSUME NEW u \in Thread, ~broken
       PROVE  /\ Command(1, u) => AwaitsOf(u, m) /\ m.by = u /\ ~Heard(u, FALSE) /\ (Heard(u, FALSE)' <=> w.ok = FALSE)
              /\ ~Command(1, u) => (Heard(u, FALSE)' <=> Heard(u, FALSE))
  BY <1>1, <1>5, <1>6, <1>7, <1>9, <1>10, HeardAnswered
<1>11. \E e \in Reported : c2h' = Append(c2h, e)
  <2>1. m.by \in Thread
    BY <1>1, <1>2, MessageFields
  <2>2. ReplyTo(key, w) \in Reported
    BY <2>1, Reports DEF ReplyTo
  <2> QED
    BY <1>9, <2>2
<1> HIDE DEF k0
<1>12. ASSUME ~broken, NEW id \in held, Requested(id) PROVE Claim(id)'
  <2>1. PICK k \in DOMAIN h2c : Asked(k, id)
    BY <1>12 DEF Requested
  <2>2. CASE k # 1
    <3>1. k - 1 \in DOMAIN h2c' /\ h2c'[k - 1] = h2c[k]
      BY <1>1, <1>2, <2>2, TailOf
    <3>2. Requested(id)'
      BY <2>1, <3>1 DEF Requested, Asked
    <3> QED
      BY <3>2 DEF Claim
  <2>3. CASE k = 1
    <3>1. m.op = "create" /\ m.req[1] = id
      BY <1>2, <2>1, <2>3 DEF Asked
    <3>2. CASE m.req \in cardReq'
      BY <3>1, <3>2 DEF Claim, Known
    <3>3. CASE m.req \notin cardReq'
      <4>1. w.ok = FALSE
        BY <1>6, <3>1, <3>3
      <4>2. PICK u \in Thread : u = m.by
        BY <1>2, <3>1, MessageFields
      <4>3. Command(1, u)
        BY <1>2, <1>7, <2>1, <2>3, <3>1, <4>2 DEF Command
      <4>4. Heard(u, FALSE)' /\ AwaitsOf(u, m)
        BY <1>10, <1>12, <4>1, <4>3
      <4>5. Refused(u)' /\ thr'[u].arg[1] = id
        BY <1>5, <3>1, <4>4 DEF Refused, AwaitsOf
      <4> QED
        BY <4>5 DEF Claim, Holds
    <3> QED
      BY <3>2, <3>3
  <2> QED
    BY <2>2, <2>3
<1>13. \A id : Announced(id) => Announced(id)'
  BY <1>11, AnnouncedStays
<1>14. ASSUME NEW id, NEW r \in cardReq, Known(r, id) PROVE Claim(id)'
  BY <1>1, <1>14 DEF Claim, Known
<1> HIDE DEF m
<1> QED
  BY <1>1, <1>5, <1>10, <1>12, <1>13, <1>14, OtherClaims

LEMMA DestroyedClaims ==
    ASSUME Types, OwnAnswer, Claims, card_destroys
    PROVE  Claims'
<1> DEFINE m == Head(h2c)
           R == {r \in cardReq : r[1] = m.req[1]}
<1>1. /\ h2c # <<>> /\ m.op = "destroy" /\ h2c' = Tail(h2c) /\ SameDriver /\ cardReq' = cardReq \ R /\ cardNet' = cardNet
      /\ (Mixed' <=> Mixed)
      /\ (R = {} /\ c2h' = c2h) \/ (R # {} /\ c2h' = Append(c2h, [op |-> "infreq_destroyed", id |-> m.req[1]]))
  BY CardDestroys DEF Mixed
<1>2. h2c \in Seq(Message) /\ m \in Message /\ c2h \in Seq(Reported)
  BY <1>1, TailOf DEF Types, CardTypes
<1>3. PICK e \in Reported : e = [op |-> "infreq_destroyed", id |-> m.req[1]] /\ e.op = "infreq_destroyed" /\ e.id = m.req[1]
  <2>1. m.req[1] \in Id
    BY <1>1, <1>2, MessageFields DEF Requests
  <2> QED
    BY <2>1, Reports
<1>4. c2h' = c2h \/ c2h' = Append(c2h, e)
  BY <1>1, <1>3
<1>5. thr' = thr /\ held' = held /\ leaked' = leaked /\ m_create_reply' = m_create_reply /\ (broken' <=> broken)
  BY <1>1 DEF SameDriver, SameIds, SameContext, broken
<1>6. ASSUME NEW id, NEW r \in cardReq, Known(r, id) PROVE Claim(id)'
  <2>1. CASE r \in R
    <3>1. c2h' = Append(c2h, e) /\ e.id = id
      BY <1>1, <1>3, <1>6, <2>1 DEF Known
    <3>2. Len(c2h) + 1 \in DOMAIN c2h' /\ c2h'[Len(c2h) + 1] = e
      BY <1>2, <3>1, AppendTo
    <3>3. Announced(id)'
      BY <1>3, <3>1, <3>2 DEF Announced, Gone
    <3> QED
      BY <3>3 DEF Claim
  <2>2. CASE r \notin R
    BY <1>1, <1>6, <2>2 DEF Claim, Known
  <2> QED
    BY <2>1, <2>2
<1>7. \A id : Requested(id) => Requested(id)'
  BY <1>1, RequestedStays
<1>8. \A id : Announced(id) => Announced(id)'
  BY <1>4, AnnouncedStays
<1>9. ~broken => \A u \in Thread : Heard(u, FALSE)' <=> Heard(u, FALSE)
  BY <1>1, <1>3, <1>4, <1>5, HeardSame DEF Plain
<1>10. \A id : Requested(id) => Claim(id)'
  BY <1>7 DEF Claim
<1> HIDE DEF m, R
<1> QED
  BY <1>1, <1>5, <1>6, <1>8, <1>9, <1>10, OtherClaims

LEMMA ClaimsHeld ==
    ASSUME Types, Locking, Pages, Stage, OwnAnswer, Claims, [NetNext]_netVars
    PROVE  Claims'
<1>0. (\A t \in Thread : Place(t)) /\ h2c \in Seq(Message) /\ c2h \in Seq(Reported)
  BY DEF Types, CardTypes
<1> USE DEF SameHost, SameIds
<1>n. ASSUME NEW t \in Thread, thr[t].op # "create" PROVE \A id : ~Holds(t, id)
  BY <1>n DEF Holds, Making, Refused
<1>g. ASSUME NEW t \in Thread, NEW p, NEW o, NEW a, NEW g, Moves(t, p, o, a, g), thr[t].op # "create", thr[t].pc # "wait",
             Mixed => Mixed', SameIds, SameContext, SameCard, c2h' = c2h, leaked \subseteq leaked',
             h2c' = h2c \/ \E m \in Message : h2c' = Append(h2c, m)
      PROVE  Claims'
  BY <1>g, <1>n, ThreadClaims
<1>r. ASSUME NEW t \in Thread, Returns(t), thr[t].op # "create", thr[t].pc # "wait",
             Mixed => Mixed', SameIds, SameContext, SameCard, c2h' = c2h, leaked \subseteq leaked', h2c' = h2c
      PROVE  Claims'
  BY <1>r, <1>g DEF Returns
<1>1. ASSUME NEW t \in Thread, from_file(t) PROVE Claims'
  <2>1. /\ thr[t].op = "build" /\ thr[t].pc \in {"file0", "file1"} /\ SameHost /\ h2c' = h2c /\ leaked' = leaked
        /\ (Mixed' <=> Mixed)
    BY <1>1, FromFile DEF Mixed
  <2>2. CASE Returns(t)
    BY <2>1, <1>r, <2>2
  <2>3. ASSUME NEW to \in {"lock", "file1"}, NEW k, Moves(t, to, "build", <<k, 1>>, thr[t].got) PROVE Claims'
    BY <2>1, <2>3, <1>g
  <2> QED
    BY <1>1, <2>2, <2>3, FromFile
<1>2. ASSUME NEW t \in Thread, build_done(t) \/ add_done(t) \/ property_done(t) \/ destroy_remove(t) \/ destroy_net_remove(t)
      PROVE  Claims'
  <2>1. /\ thr[t].pc # "wait" /\ thr[t].op # "create" /\ Returns(t) /\ SameIds /\ SameContext /\ SameCard
        /\ h2c' = h2c /\ c2h' = c2h /\ leaked' = leaked /\ hist' = hist
    BY <1>2, BuildDone, AddDone, PropertyDone, DestroyRemove, DestroyNetRemove
  <2> QED
    BY <1>r, <2>1 DEF Mixed
<1>3. ASSUME NEW t \in Thread, add_test(t) \/ add_insert(t) PROVE Claims'
  <2>1. /\ thr[t].pc # "wait" /\ thr[t].op = "add" /\ (Returns(t) \/ \E p : Goes(t, p))
        /\ SameHost /\ h2c' = h2c /\ (Mixed' <=> Mixed) /\ leaked' = leaked
    BY <1>3, AddTest, AddInsert DEF Mixed
  <2> QED
    BY <1>g, <1>r, <2>1 DEF Goes
<1>4. ASSUME NEW t \in Thread, lock(t) PROVE Claims'
  <2>1. /\ thr[t].pc = "lock" /\ SameHost /\ h2c' = h2c /\ (Mixed => Mixed') /\ leaked' = leaked
        /\ Goes(t, "send") \/ (thr[t].op # "create" /\ Moves(t, "answered", thr[t].op, thr[t].arg, Failure("broken")))
    BY <1>4, Lock DEF Mixed
  <2>2. CASE thr[t].op # "create"
    BY <1>g, <2>1, <2>2 DEF Goes
  <2>3. CASE thr[t].op = "create"
    <3>1. Moves(t, "send", thr[t].op, thr[t].arg, thr[t].got)
      BY <2>1, <2>3 DEF Goes
    <3>2. \A id : Holds(t, id) => Making(t, id)'
      BY <2>1, <2>3, <3>1 DEF Holds, Making, Refused, Heard, Moves
    <3>3. \A id : Holds(t, id) => Claim(id)'
      BY <3>2 DEF Claim, Holds
    <3> QED
      BY <2>1, <3>1, <3>3, ThreadClaims
  <2> QED
    BY <2>2, <2>3
<1>5. ASSUME NEW t \in Thread, send_page(t) PROVE Claims'
  <2>1. thr[t].pc = "send" /\ thr[t].op \in {"build", "add"} /\ SameHost /\ Sending(t) /\ (Mixed' <=> Mixed) /\ leaked' = leaked
    BY <1>5, SendPage DEF Sending, Mixed
  <2>2. PICK m \in Message : m = PageOf(t, n_res(t), n_conf(t))
    BY <2>1, NextPage
  <2>3. h2c' = h2c \/ h2c' = Append(h2c, m)
    BY <1>5, <2>2, SendPage
  <2>4. \E p, g : Moves(t, p, thr[t].op, thr[t].arg, g)
    <3>1. CASE thr' = thr
      BY <2>1, <3>1 DEF Moves, Types, HostTypes
    <3>2. CASE thr' # thr
      BY <1>5, <3>2, SendPage DEF Goes
    <3> QED
      BY <3>1, <3>2
  <2> QED
    BY <1>g, <2>1, <2>3, <2>4
<1>6. ASSUME NEW t \in Thread, wait(t) PROVE Claims'
  BY <1>6, ReadClaims
<1>9. ASSUME NEW t \in Thread, property_send(t) PROVE Claims'
  <2>1. /\ thr[t].pc = "property" /\ thr[t].op = "property" /\ SameHost /\ (Mixed => Mixed') /\ leaked' = leaked
        /\ \/ h2c' = Append(h2c, [op |-> "property", by |-> t]) /\ Goes(t, "wait")
           \/ h2c' = h2c /\ Returns(t)
    BY <1>9, PropertySend DEF Mixed
  <2>2. PICK m \in Message : m = [op |-> "property", by |-> t]
    BY Messages
  <2> QED
    BY <1>g, <1>r, <2>1, <2>2 DEF Goes
<1>11. ASSUME NEW t \in Thread, create_alloc(t) PROVE Claims'
  BY <1>11, AllocClaims
<1>12. ASSUME NEW t \in Thread, create_send(t) PROVE Claims'
  <2>1. /\ thr[t].pc = "send" /\ thr[t].op = "create" /\ thr[t].arg \in Requests /\ SameHost /\ (Mixed' <=> Mixed) /\ leaked' = leaked
        /\ \/ h2c' = Append(h2c, [op |-> "create", by |-> t, req |-> thr[t].arg]) /\ Goes(t, "wait")
           \/ h2c' = h2c /\ Moves(t, "answered", "create", thr[t].arg, Failure("io_error"))
    BY <1>12, CreateSend DEF Mixed
  <2>2. PICK m \in Message : m = [op |-> "create", by |-> t, req |-> thr[t].arg] /\ m.op = "create" /\ m.req = thr[t].arg
    BY <2>1, Messages
  <2>3. \A id : Holds(t, id) => thr[t].arg[1] = id
    BY DEF Holds, Making
  <2>4. CASE h2c' = Append(h2c, m) /\ Goes(t, "wait")
    <3>2. \A id : Holds(t, id) => Requested(id)'
      <4>1. \E k \in DOMAIN h2c' : h2c'[k] = m
        BY <1>0, <2>4, AppendTo
      <4> QED
        BY <2>2, <2>3, <4>1 DEF Requested, Asked
    <3>3. \A id : Holds(t, id) => Claim(id)'
      BY <3>2 DEF Claim
    <3> QED
      BY <2>1, <2>4, <3>3, ThreadClaims DEF Goes
  <2>5. CASE h2c' = h2c /\ Moves(t, "answered", "create", thr[t].arg, Failure("io_error"))
    <3>1. Failure("io_error") # Success("create")
      BY DEF Failure, Success
    <3>2. \A id : Holds(t, id) => Holds(t, id)'
      BY <2>3, <2>5, <3>1 DEF Holds, Refused, Moves
    <3>3. \A id : Holds(t, id) => Claim(id)'
      BY <3>2 DEF Claim
    <3> QED
      BY <2>1, <2>5, <3>3, ThreadClaims
  <2> QED
    BY <2>1, <2>2, <2>4, <2>5
<1>13. ASSUME NEW t \in Thread, create_done(t) PROVE Claims'
  <2>1. /\ thr[t].pc = "answered" /\ thr[t].op = "create" /\ Returns(t) /\ SameIds /\ SameContext /\ SameCard
        /\ h2c' = h2c /\ c2h' = c2h /\ (Mixed' <=> Mixed) /\ leaked \subseteq leaked'
        /\ thr[t].got = Success("create") \/ thr[t].arg[1] \in leaked'
    BY <1>13, CreateDone DEF Mixed
  <2>2. \A id : Holds(t, id) => id \in leaked'
    BY <2>1 DEF Holds, Making, Refused, Heard
  <2>3. \A id : Holds(t, id) => Claim(id)'
    BY <2>2 DEF Claim
  <2> QED
    BY <2>1, <2>3, ThreadClaims DEF Returns
<1>14. ASSUME NEW t \in Thread, destroy_send(t) PROVE Claims'
  <2>1. /\ thr[t].pc = "destroy" /\ thr[t].op = "destroy" /\ thr[t].arg \in Requests /\ Goes(t, "remove") /\ SameHost
        /\ (Mixed' <=> Mixed) /\ leaked \subseteq leaked'
        /\ h2c' = h2c \/ h2c' = Append(h2c, [op |-> "destroy", req |-> thr[t].arg])
    BY <1>14, DestroySend DEF Mixed
  <2>2. PICK m \in Message : m = [op |-> "destroy", req |-> thr[t].arg]
    BY <2>1, Messages
  <2> QED
    BY <1>g, <2>1, <2>2 DEF Goes
<1>16. ASSUME NEW t \in Thread, destroy_net_send(t) PROVE Claims'
  <2>1. /\ thr[t].pc = "destroy_net" /\ thr[t].op = "destroy_net" /\ SameHost /\ (Mixed' <=> Mixed) /\ leaked' = leaked
        /\ \/ Goes(t, "remove") /\ h2c' = h2c
           \/ Goes(t, "remove") /\ h2c' = Append(h2c, [op |-> "destroy_net"])
           \/ Returns(t) /\ h2c' = h2c
    BY <1>16, DestroyNetSend DEF Mixed
  <2>2. PICK m \in Message : m = [op |-> "destroy_net"]
    BY Messages
  <2> QED
    BY <1>g, <1>r, <2>1, <2>2 DEF Goes
<1>18. ASSUME NEW t \in Thread, NEW c \in Call, find_network(t, c) PROVE Claims'
  <2>1. PICK s : Moves(t, c, c, s, thr[t].got)
    BY <1>18, FindNetwork
  <2>2. SameHost /\ h2c' = h2c /\ (Mixed' <=> Mixed) /\ thr[t].pc = "idle" /\ thr[t].op = "none" /\ leaked' = leaked
    BY <1>18, FindNetwork, IdleType DEF Mixed
  <2> QED
    BY <1>g, <2>1, <2>2
<1>19. ASSUME NEW t \in Thread, NEW r \in s_infreqs, find_infreq(t, r) PROVE Claims'
  <2>1. /\ Moves(t, "destroy", "destroy", r, thr[t].got) /\ SameHost /\ h2c' = h2c /\ (Mixed => Mixed')
        /\ thr[t].pc = "idle" /\ thr[t].op = "none" /\ leaked' = leaked
    BY <1>19, FindRequest, IdleType DEF Mixed
  <2> QED
    BY <1>g, <2>1
<1>o. ASSUME thr' = thr, held' = held, leaked' = leaked, broken => broken', cardNet = "gone" => cardNet' = "gone", cardReq' = cardReq,
             \/ h2c' = h2c
             \/ h2c # <<>> /\ h2c' = Tail(h2c) /\ Head(h2c).op # "create",
             \/ c2h' = c2h
             \/ c2h # <<>> /\ c2h' = Tail(c2h) /\ Head(c2h).op # "infreq_destroyed"
             \/ \E m \in Reported : c2h' = Append(c2h, m),
             ~broken' => \A u \in Thread : thr[u].op = "create" /\ Heard(u, FALSE) => Heard(u, FALSE)'
      PROVE  Claims'
  <2>1. \A id : Requested(id) => Requested(id)'
    BY <1>o, RequestedStays
  <2>2. \A id : Requested(id) => Claim(id)'
    BY <2>1 DEF Claim
  <2>3. \A id : Announced(id) => Announced(id)'
    BY <1>o, AnnouncedStays
  <2>4. \A id : \A r \in cardReq : Known(r, id) => Claim(id)'
    BY <1>o DEF Claim, Known
  <2> QED
    BY <1>o, <2>2, <2>3, <2>4, OtherClaims
<1>20. ASSUME process_create_reply PROVE Claims'
  <2>1. /\ c2h # <<>> /\ Head(c2h).op = "reply" /\ c2h' = Tail(c2h) /\ SameLocal /\ SameIds
        /\ m_create_reply' = Put(m_create_reply, Head(c2h).key, [what |-> Head(c2h).what, by |-> Head(c2h).by])
        /\ (broken' <=> broken) /\ thr' = thr /\ (Mixed' <=> Mixed)
    BY <1>20, ReplyStep DEF SameLocal, broken, Mixed
  <2>2. ~broken => \A u \in Thread : Heard(u, FALSE)' <=> Heard(u, FALSE)
    BY <2>1, HeardStored
  <2> QED
    BY <1>o, <2>1, <2>2 DEF SameLocal, SameCard
<1>21. ASSUME infreq_destroyed PROVE Claims'
  BY <1>21, FreedClaims
<1>22. ASSUME devnet_destroyed \/ critical_event PROVE Claims'
  <2>1. /\ SameLocal /\ SameIds /\ m_create_reply' = m_create_reply /\ c2h # <<>> /\ c2h' = Tail(c2h)
        /\ Head(c2h).op \in {"devnet_destroyed", "context", "card"} /\ (broken => broken')
    BY <1>22, NetworkGone, Critical DEF broken, SameContext
  <2>2. ~broken => \A u \in Thread : Heard(u, FALSE)' <=> Heard(u, FALSE)
    BY <2>1, HeardSame DEF Plain, SameLocal, Mixed
  <2> QED
    BY <1>o, <2>1, <2>2 DEF SameLocal, SameCard
<1>23. ASSUME card_page PROVE Claims'
  <2>1. PICK m : m = Head(h2c)
    OBVIOUS
  <2>2. /\ h2c # <<>> /\ h2c' = Tail(h2c) /\ SameDriver /\ m.op \in {"build", "add"} /\ cardReq' = cardReq
        /\ (Mixed' <=> Mixed) /\ cardNet' \in {cardNet, "up"} /\ (cardNet' = cardNet \/ cardNet = "up" \/ m.op = "build")
    <3>1. hist' = hist \/ PageLast(m)
      BY <1>23, <2>1, CardPage DEF PageKept
    <3> QED
      BY <1>23, <2>1, <3>1, CardPage DEF PageLast, PageKept, PageMade, PageRefused, Mixed
  <2>3. cardNet = "gone" => cardNet' = "gone"
    <3>1. m = h2c[1] /\ 1 \in DOMAIN h2c
      BY <1>0, <2>1, <2>2, TailOf
    <3>2. m.op = "build" => cardNet # "gone"
      BY <3>1 DEF Stage, Unbuilt, Kept
    <3> QED
      BY <2>2, <3>2
  <2>4. thr' = thr /\ held' = held /\ leaked' = leaked /\ m_create_reply' = m_create_reply /\ (broken' <=> broken)
    BY <2>2 DEF SameDriver, SameContext, broken
  <2>5. CASE PageKept(m)
    BY <1>o, <2>1, <2>2, <2>3, <2>4, <2>5, HeardSame DEF PageKept, Plain
  <2>6. CASE ~PageKept(m)
    <3>1. Expects(m)
      BY <1>23, <2>1, <2>6, TakenPage DEF Expects
    <3>2. PICK w \in {Success(m.op), Failure(m.op)} : c2h' = Append(c2h, ReplyTo(-1, w))
      BY <1>23, <2>1, <2>6, CardPage DEF PageMade, PageRefused
    <3>3. w \in Answers /\ w.of = m.op
      <4>1. /\ Success(m.op) \in Answers /\ Failure(m.op) \in Answers
            /\ Success(m.op).of = m.op /\ Failure(m.op).of = m.op
        BY <2>2, Outcomes DEF Success, Failure, Call
      <4> QED
        BY <4>1
    <3>4. (IF m.op = "create" THEN m.req[1] ELSE -1) = -1 /\ m.op # "create" /\ -1 \in Id \cup {-1}
      BY <2>2
    <3>5. ~broken => \A u \in Thread : thr[u].op = "create" => (Heard(u, FALSE)' <=> Heard(u, FALSE))
      <4>1. ASSUME NEW u \in Thread, ~broken
            PROVE  /\ Command(1, u) => AwaitsOf(u, m) /\ m.by = u /\ ~Heard(u, FALSE) /\ (Heard(u, FALSE)' <=> w.ok = FALSE)
                   /\ ~Command(1, u) => (Heard(u, FALSE)' <=> Heard(u, FALSE))
        BY <2>1, <2>2, <2>4, <3>1, <3>2, <3>3, <3>4, <4>1, HeardAnswered
      <4> QED
        BY <3>4, <4>1 DEF AwaitsOf
    <3>6. \E e \in Reported : c2h' = Append(c2h, e)
      <4>1. m.by \in Thread
        BY <1>0, <2>1, <2>2, TailOf, MessageFields
      <4>2. ReplyTo(-1, w) \in Reported
        BY <2>1, <3>3, <4>1, Reports DEF ReplyTo
      <4> QED
        BY <3>2, <4>2
    <3> QED
      BY <1>o, <2>1, <2>2, <2>3, <2>4, <3>5, <3>6
  <2> QED
    BY <2>5, <2>6
<1>24. ASSUME card_asked PROVE Claims'
  BY <1>24, AskedClaims
<1>25. ASSUME card_destroys PROVE Claims'
  BY <1>25, DestroyedClaims
<1>26. ASSUME card_net_destroy \/ card_net_gone \/ card_event \/ UNCHANGED netVars PROVE Claims'
  <2>1. /\ SameDriver /\ cardReq' = cardReq /\ hist' = hist /\ (cardNet = "gone" => cardNet' = "gone")
        /\ h2c' = h2c \/ (h2c # <<>> /\ h2c' = Tail(h2c) /\ Head(h2c).op # "create")
        /\ c2h' = c2h \/ \E e \in {"devnet_destroyed", "context", "card"} : c2h' = Append(c2h, [op |-> e])
    BY <1>26, CardNetDestroy, CardNetGone, CardEvent, Stutter DEF SameCard
  <2>2. c2h' = c2h \/ \E m \in Reported : m.op # "reply" /\ c2h' = Append(c2h, m)
    <3>1. ASSUME NEW e \in {"devnet_destroyed", "context", "card"}, c2h' = Append(c2h, [op |-> e])
          PROVE  \E m \in Reported : m.op # "reply" /\ c2h' = Append(c2h, m)
      <4>1. PICK m \in Reported : m = [op |-> e]
        BY Reports
      <4>2. m.op # "reply"
        BY <4>1
      <4> QED
        BY <3>1, <4>1, <4>2
    <3> QED
      BY <2>1, <3>1
  <2>3. thr' = thr /\ held' = held /\ leaked' = leaked /\ m_create_reply' = m_create_reply /\ (broken' <=> broken) /\ (Mixed' <=> Mixed)
    BY <2>1 DEF SameDriver, SameContext, broken, Mixed
  <2>4. ~broken => \A u \in Thread : Heard(u, FALSE)' <=> Heard(u, FALSE)
    BY <2>2, <2>3, HeardSame DEF Plain
  <2> QED
    BY <1>o, <2>1, <2>2, <2>3, <2>4
<1> QED
  BY <1>1, <1>2, <1>3, <1>4, <1>5, <1>6, <1>9, <1>11, <1>12, <1>13, <1>14, <1>16, <1>18, <1>19, <1>20, <1>21,
     <1>22, <1>23, <1>24, <1>25, <1>26 DEF NetNext, Do, Begin, Respond, CardWork

-----------------------------------------------------------------------------
(***************************************************************************)
(* Resources that are added                                                *)
(***************************************************************************)

\* A request was begun while resources were being added.
Raced == "raced" \in hist

Adding(t) == thr[t].op = "add" /\ thr[t].pc \in {"lock", "send", "wait"}
AddAt(k) == k \in DOMAIN h2c /\ h2c[k].op = "add"

\* Nothing on the way to the card, and nothing on it, is a request that comes before what
\* is added.
AddsAlone == \A k \in DOMAIN h2c : AddAt(k) => cardReq = {} /\ \A j \in DOMAIN h2c : j < k => h2c[j].op # "create"

Adds ==
    ~Raced =>
        /\ "late" \notin hist
        /\ \A t \in Thread : Adding(t) => held = {}
        /\ AddsAlone

LEMMA AloneKept ==
    ASSUME Types, AddsAlone, cardReq' = {} \/ cardReq' \subseteq cardReq,
           h2c' = h2c \/ (h2c # <<>> /\ h2c' = Tail(h2c)) \/ \E m \in Message : m.op # "add" /\ h2c' = Append(h2c, m)
    PROVE  AddsAlone'
<1>1. h2c \in Seq(Message)
  BY DEF Types, CardTypes
<1>2. CASE h2c' = h2c
  BY <1>2 DEF AddsAlone, AddAt
<1>3. CASE h2c # <<>> /\ h2c' = Tail(h2c)
  <2>1. \A i \in DOMAIN h2c' : i \in Nat \ {0} /\ i + 1 \in DOMAIN h2c /\ h2c'[i] = h2c[i + 1]
    BY <1>1, <1>3, TailOf
  <2>2. ASSUME NEW k \in DOMAIN h2c', AddAt(k)' PROVE cardReq' = {} /\ \A j \in DOMAIN h2c' : j < k => h2c'[j].op # "create"
    <3>1. k + 1 \in DOMAIN h2c /\ AddAt(k + 1)
      BY <2>1, <2>2 DEF AddAt
    <3>2. cardReq = {} /\ \A j \in DOMAIN h2c : j < k + 1 => h2c[j].op # "create"
      BY <3>1 DEF AddsAlone
    <3>3. ASSUME NEW j \in DOMAIN h2c', j < k PROVE h2c'[j].op # "create"
      <4>1. j + 1 \in DOMAIN h2c /\ h2c'[j] = h2c[j + 1] /\ j + 1 < k + 1
        BY <2>1, <3>3
      <4> QED
        BY <3>2, <4>1
    <3> QED
      BY <3>2, <3>3
  <2> QED
    BY <2>2 DEF AddsAlone
<1>4. ASSUME NEW m \in Message, m.op # "add", h2c' = Append(h2c, m) PROVE AddsAlone'
  <2>1. /\ \A i \in DOMAIN h2c : h2c'[i] = h2c[i] /\ i \in Nat /\ i < Len(h2c) + 1
        /\ \A i \in DOMAIN h2c' : i \in DOMAIN h2c \/ i = Len(h2c) + 1
        /\ h2c'[Len(h2c) + 1] = m /\ Len(h2c) \in Nat
    BY <1>1, <1>4, AppendTo
  <2>2. ASSUME NEW k \in DOMAIN h2c', AddAt(k)' PROVE cardReq' = {} /\ \A j \in DOMAIN h2c' : j < k => h2c'[j].op # "create"
    <3>1. k \in DOMAIN h2c /\ AddAt(k)
      BY <1>4, <2>1, <2>2 DEF AddAt
    <3>2. \A j \in DOMAIN h2c' : j < k => j \in DOMAIN h2c
      BY <2>1, <3>1
    <3> QED
      BY <2>1, <3>1, <3>2 DEF AddsAlone
  <2> QED
    BY <2>2 DEF AddsAlone
<1> QED
  BY <1>2, <1>3, <1>4

LEMMA AddsKept ==
    ASSUME Types, Adds, Raced => Raced', "late" \in hist' => "late" \in hist, held' \subseteq held,
           \A u \in Thread : Adding(u)' => Adding(u) \/ held = {},
           cardReq' = {} \/ cardReq' \subseteq cardReq,
           h2c' = h2c \/ (h2c # <<>> /\ h2c' = Tail(h2c)) \/ \E m \in Message : m.op # "add" /\ h2c' = Append(h2c, m)
    PROVE  Adds'
<1> SUFFICES ASSUME ~Raced' PROVE ("late" \notin hist)' /\ (\A u \in Thread : Adding(u)' => held' = {}) /\ AddsAlone'
  BY DEF Adds
<1>1. "late" \notin hist /\ (\A u \in Thread : Adding(u) => held = {}) /\ AddsAlone
  BY DEF Adds
<1>2. AddsAlone'
  BY <1>1, AloneKept
<1>3. ASSUME NEW u \in Thread, Adding(u)' PROVE held' = {}
  BY <1>1, <1>3
<1> QED
  BY <1>1, <1>2, <1>3

LEMMA ThreadAdds ==
    ASSUME Types, Adds, NEW t \in Thread, NEW p, NEW o, NEW a, NEW g, Moves(t, p, o, a, g), SameIds, SameCard,
           o = "add" /\ p \in {"lock", "send", "wait"} => Adding(t) \/ held = {},
           Raced => Raced', "late" \in hist' => "late" \in hist,
           h2c' = h2c \/ \E m \in Message : m.op # "add" /\ h2c' = Append(h2c, m)
    PROVE  Adds'
<1>1. \A u \in Thread : Adding(u)' => Adding(u) \/ held = {}
  BY DEF Adding, Moves
<1> QED
  BY <1>1, AddsKept DEF SameIds, SameCard

\* What a page adds is sent when no id is held, so that there are no requests.
LEMMA PageAdds ==
    ASSUME Types, Locking, Ids, Adds, NEW t \in Thread, send_page(t)
    PROVE  Adds'
<1>1. thr[t].pc = "send" /\ thr[t].op \in {"build", "add"} /\ SameHost /\ Sending(t) /\ hist' = hist
  BY SendPage DEF Sending
<1>2. PICK m \in Message : m = PageOf(t, n_res(t), n_conf(t)) /\ m.op = thr[t].op
  BY <1>1, NextPage
<1>3. \E p, g : Moves(t, p, thr[t].op, thr[t].arg, g)
  <2>1. CASE thr' = thr
    BY <2>1 DEF Moves, Types, HostTypes
  <2>2. CASE thr' # thr
    BY <2>2, SendPage DEF Goes
  <2> QED
    BY <2>1, <2>2
<1>4. h2c' = h2c \/ h2c' = Append(h2c, m)
  BY <1>2, SendPage
<1>5. CASE thr[t].op = "build" \/ h2c' = h2c
  <2>1. h2c' = h2c \/ \E e \in Message : e.op # "add" /\ h2c' = Append(h2c, e)
    BY <1>2, <1>4, <1>5
  <2>2. thr[t].op = "add" => Adding(t)
    BY <1>1 DEF Adding
  <2> QED
    BY <1>1, <1>3, <2>1, <2>2, ThreadAdds DEF SameHost, Raced
<1>6. CASE thr[t].op = "add" /\ h2c' = Append(h2c, m)
  <2> SUFFICES ASSUME ~Raced PROVE ("late" \notin hist)' /\ (\A u \in Thread : Adding(u)' => held' = {}) /\ AddsAlone'
    BY <1>1 DEF Adds, Raced
  <2>1. Adding(t) /\ held = {}
    BY <1>1, <1>6 DEF Adds, Adding
  <2>2. h2c \in Seq(Message) /\ cardReq \subseteq Requests
    BY DEF Types, CardTypes
  <2>3. \A r \in cardReq : r[1] \in Id /\ Known(r, r[1])
    BY <2>2 DEF Requests, Known
  <2>4. cardReq = {}
    BY <2>1, <2>3 DEF Ids, OnePlace
  <2>5. ASSUME NEW j \in DOMAIN h2c, h2c[j].op = "create" PROVE FALSE
    <3>1. h2c[j] \in Message
      BY <2>2
    <3>2. h2c[j].req[1] \in Id
      BY <2>5, <3>1, MessageFields DEF Requests
    <3>3. Asked(j, h2c[j].req[1])
      BY <2>5 DEF Asked
    <3> QED
      BY <2>1, <3>2, <3>3 DEF Ids, OnePlace
  <2>6. AddsAlone'
    <3>1. /\ \A i \in DOMAIN h2c : h2c'[i] = h2c[i]
          /\ \A i \in DOMAIN h2c' : i \in DOMAIN h2c \/ i = Len(h2c) + 1
          /\ h2c'[Len(h2c) + 1] = m
      BY <1>6, <2>2, AppendTo
    <3>2. \A i \in DOMAIN h2c' : h2c'[i].op # "create"
      BY <1>2, <1>6, <2>5, <3>1
    <3> QED
      BY <1>1, <2>4, <3>2 DEF AddsAlone, SameHost, SameCard
  <2> QED
    BY <1>1, <2>1, <2>6 DEF Adds, SameHost, SameIds
<1> QED
  BY <1>1, <1>4, <1>5, <1>6

\* The card makes a request: nothing that is added comes after it.
LEMMA AskedAdds ==
    ASSUME Types, Adds, card_asked
    PROVE  Adds'
<1> DEFINE m == Head(h2c)
<1>1. /\ h2c # <<>> /\ h2c' = Tail(h2c) /\ SameDriver /\ hist' = hist
      /\ cardReq' = cardReq \/ m.op = "create"
  BY CardAsked
<1>2. h2c \in Seq(Message)
  BY DEF Types, CardTypes
<1>3. /\ 1 \in DOMAIN h2c /\ m = h2c[1]
      /\ \A i \in DOMAIN h2c' : i \in Nat \ {0} /\ i + 1 \in DOMAIN h2c /\ h2c'[i] = h2c[i + 1]
  BY <1>1, <1>2, TailOf
<1>4. \A u \in Thread : Adding(u)' => Adding(u)
  BY <1>1 DEF Adding, SameDriver
<1>5. CASE cardReq' = cardReq
  BY <1>1, <1>4, <1>5, AddsKept DEF SameDriver, SameIds, Raced
<1>6. CASE m.op = "create"
  <2> SUFFICES ASSUME ~Raced PROVE ("late" \notin hist)' /\ (\A u \in Thread : Adding(u)' => held' = {}) /\ AddsAlone'
    BY <1>1 DEF Adds, Raced
  <2>1. "late" \notin hist /\ (\A u \in Thread : Adding(u) => held = {}) /\ AddsAlone
    BY DEF Adds
  <2>2. ASSUME NEW k \in DOMAIN h2c', AddAt(k)' PROVE FALSE
    <3>1. k + 1 \in DOMAIN h2c /\ AddAt(k + 1) /\ 1 < k + 1
      BY <1>3, <2>2 DEF AddAt
    <3> QED
      BY <1>3, <1>6, <2>1, <3>1 DEF AddsAlone
  <2> QED
    BY <1>1, <1>4, <2>1, <2>2 DEF AddsAlone, SameDriver, SameIds
<1> QED
  BY <1>1, <1>5, <1>6

LEMMA AddsHeld ==
    ASSUME Types, Locking, Pages, Ids, Adds, [NetNext]_netVars
    PROVE  Adds'
<1>0. (\A t \in Thread : Place(t)) /\ h2c \in Seq(Message)
  BY DEF Types, CardTypes
<1> USE DEF SameHost
<1>r. ASSUME NEW t \in Thread, Returns(t), SameIds, SameCard, Raced => Raced', "late" \in hist' => "late" \in hist, h2c' = h2c
      PROVE  Adds'
  BY <1>r, ThreadAdds DEF Returns
<1>1. ASSUME NEW t \in Thread, from_file(t) PROVE Adds'
  <2>1. SameHost /\ h2c' = h2c /\ hist' = hist
    BY <1>1, FromFile
  <2>2. CASE Returns(t)
    BY <2>1, <1>r, <2>2 DEF Raced
  <2>3. ASSUME NEW to, NEW k, Moves(t, to, "build", <<k, 1>>, thr[t].got) PROVE Adds'
    BY <2>1, <2>3, ThreadAdds DEF Raced
  <2> QED
    BY <1>1, <2>2, <2>3, FromFile
<1>2. ASSUME NEW t \in Thread,
             build_done(t) \/ add_done(t) \/ property_done(t) \/ create_done(t) \/ destroy_remove(t) \/ destroy_net_remove(t)
      PROVE  Adds'
  <2>1. Returns(t) /\ SameIds /\ SameCard /\ h2c' = h2c /\ hist' = hist
    BY <1>2, BuildDone, AddDone, PropertyDone, CreateDone, DestroyRemove, DestroyNetRemove
  <2> QED
    BY <1>r, <2>1 DEF Raced
<1>3. ASSUME NEW t \in Thread, add_test(t) PROVE Adds'
  <2>1. /\ Returns(t) \/ (held = {} /\ Goes(t, "lock"))
        /\ SameHost /\ h2c' = h2c /\ hist' = hist
    BY <1>3, AddTest
  <2> QED
    BY <1>r, <2>1, ThreadAdds DEF Goes, Raced
<1>4. ASSUME NEW t \in Thread, lock(t) PROVE Adds'
  <2>1. /\ thr[t].pc = "lock" /\ SameHost /\ h2c' = h2c /\ (Raced => Raced') /\ ("late" \in hist' => "late" \in hist)
        /\ Goes(t, "send") \/ Moves(t, "answered", thr[t].op, thr[t].arg, Failure("broken"))
    BY <1>4, Lock DEF Raced
  <2> QED
    BY <2>1, ThreadAdds DEF Goes, Adding
<1>5. ASSUME NEW t \in Thread, send_page(t) PROVE Adds'
  BY <1>5, PageAdds
<1>6. ASSUME NEW t \in Thread, wait(t) PROVE Adds'
  <2>1. /\ SameIds /\ SameCard /\ h2c' = h2c /\ (Raced => Raced') /\ ("late" \in hist' => "late" \in hist)
        /\ \E g : Moves(t, "answered", thr[t].op, thr[t].arg, g)
    BY <1>6, Wait DEF Raced
  <2> QED
    BY <2>1, ThreadAdds
<1>7. ASSUME NEW t \in Thread, add_insert(t) PROVE Adds'
  <2>1. /\ Returns(t) \/ Goes(t, "insert")
        /\ SameHost /\ h2c' = h2c /\ (Raced => Raced') /\ ("late" \in hist' => "late" \in hist)
    BY <1>7, AddInsert DEF Raced
  <2> QED
    BY <1>r, <2>1, ThreadAdds DEF Goes
<1>9. ASSUME NEW t \in Thread, property_send(t) PROVE Adds'
  <2>1. /\ thr[t].op = "property" /\ SameHost /\ (Raced => Raced') /\ ("late" \in hist' => "late" \in hist)
        /\ \/ h2c' = Append(h2c, [op |-> "property", by |-> t]) /\ Goes(t, "wait")
           \/ h2c' = h2c /\ Returns(t)
    BY <1>9, PropertySend DEF Raced
  <2>2. PICK m \in Message : m = [op |-> "property", by |-> t] /\ m.op # "add"
    BY Messages
  <2> QED
    BY <1>r, <2>1, <2>2, ThreadAdds DEF Goes
<1>11. ASSUME NEW t \in Thread, create_alloc(t) PROVE Adds'
  <2>1. SameCard /\ h2c' = h2c /\ ("late" \in hist' => "late" \in hist)
    BY <1>11, CreateAlloc
  <2>2. CASE Returns(t) /\ SameIds /\ hist' = hist
    BY <1>r, <2>1, <2>2 DEF Raced
  <2>3. ASSUME NEW i \in Id, alloc(i), Moves(t, "lock", "create", <<i, made + 1>>, thr[t].got),
               hist' = IF \E u \in Thread : thr[u].op = "add" /\ thr[u].pc \in {"lock", "send", "wait"}
                       THEN hist \cup {"raced"} ELSE hist
        PROVE Adds'
    <3> SUFFICES ASSUME ~Raced' PROVE ("late" \notin hist)' /\ (\A u \in Thread : Adding(u)' => held' = {}) /\ AddsAlone'
      BY DEF Adds
    <3>1. ~Raced /\ \A u \in Thread : ~Adding(u)
      BY <2>3 DEF Raced, Adding
    <3>2. \A u \in Thread : ~Adding(u)'
      BY <2>3, <3>1 DEF Adding, Moves
    <3>3. "late" \notin hist' /\ AddsAlone
      BY <2>1, <3>1 DEF Adds
    <3>4. AddsAlone'
      BY <2>1, <3>3, AloneKept DEF SameCard
    <3> QED
      BY <3>2, <3>3, <3>4
  <2> QED
    BY <1>11, <2>2, <2>3, CreateAlloc
<1>12. ASSUME NEW t \in Thread, create_send(t) PROVE Adds'
  <2>1. /\ thr[t].op = "create" /\ thr[t].arg \in Requests /\ SameHost /\ hist' = hist
        /\ \/ h2c' = Append(h2c, [op |-> "create", by |-> t, req |-> thr[t].arg]) /\ Goes(t, "wait")
           \/ h2c' = h2c /\ Moves(t, "answered", "create", thr[t].arg, Failure("io_error"))
    BY <1>12, CreateSend
  <2>2. PICK m \in Message : m = [op |-> "create", by |-> t, req |-> thr[t].arg] /\ m.op # "add"
    BY <2>1, Messages
  <2> QED
    BY <2>1, <2>2, ThreadAdds DEF Goes, Raced
<1>14. ASSUME NEW t \in Thread, destroy_send(t) PROVE Adds'
  <2>1. /\ thr[t].op = "destroy" /\ thr[t].arg \in Requests /\ Goes(t, "remove") /\ SameHost /\ hist' = hist
        /\ h2c' = h2c \/ h2c' = Append(h2c, [op |-> "destroy", req |-> thr[t].arg])
    BY <1>14, DestroySend
  <2>2. PICK m \in Message : m = [op |-> "destroy", req |-> thr[t].arg] /\ m.op # "add"
    BY <2>1, Messages
  <2> QED
    BY <2>1, <2>2, ThreadAdds DEF Goes, Raced
<1>16. ASSUME NEW t \in Thread, destroy_net_send(t) PROVE Adds'
  <2>1. /\ thr[t].op = "destroy_net" /\ SameHost /\ hist' = hist
        /\ \/ Goes(t, "remove") /\ h2c' = h2c
           \/ Goes(t, "remove") /\ h2c' = Append(h2c, [op |-> "destroy_net"])
           \/ Returns(t) /\ h2c' = h2c
    BY <1>16, DestroyNetSend
  <2>2. PICK m \in Message : m = [op |-> "destroy_net"] /\ m.op # "add"
    BY Messages
  <2> QED
    BY <1>r, <2>1, <2>2, ThreadAdds DEF Goes, Raced
<1>18. ASSUME NEW t \in Thread, NEW c \in Call, find_network(t, c) PROVE Adds'
  <2>1. PICK s : Moves(t, c, c, s, thr[t].got)
    BY <1>18, FindNetwork
  <2>2. SameHost /\ h2c' = h2c /\ hist' = hist /\ c \notin {"lock", "send", "wait"}
    BY <1>18, FindNetwork DEF Call
  <2> QED
    BY <2>1, <2>2, ThreadAdds DEF Raced
<1>19. ASSUME NEW t \in Thread, NEW r \in s_infreqs, find_infreq(t, r) PROVE Adds'
  <2>1. /\ Moves(t, "destroy", "destroy", r, thr[t].got) /\ SameHost /\ h2c' = h2c
        /\ (Raced => Raced') /\ ("late" \in hist' => "late" \in hist)
    BY <1>19, FindRequest DEF Raced
  <2> QED
    BY <2>1, ThreadAdds
<1>o. ASSUME thr' = thr, held' \subseteq held, cardReq' \subseteq cardReq, Raced => Raced', "late" \in hist' => "late" \in hist,
             h2c' = h2c \/ (h2c # <<>> /\ h2c' = Tail(h2c))
      PROVE  Adds'
  <2>1. \A u \in Thread : Adding(u)' => Adding(u)
    BY <1>o DEF Adding
  <2> QED
    BY <1>o, <2>1, AddsKept
<1>20. CASE Respond
  <2>1. SameLocal /\ held' \subseteq held
    BY <1>20, ReplyStep, RequestGone, NetworkGone, Critical DEF Respond, SameIds, free
  <2> QED
    BY <1>o, <2>1 DEF SameLocal, SameCard, Raced
<1>23. ASSUME card_page PROVE Adds'
  <2>1. PICK m : m = Head(h2c)
    OBVIOUS
  <2>2. h2c # <<>> /\ h2c' = Tail(h2c) /\ SameDriver /\ cardReq' = cardReq /\ (Raced' <=> Raced) /\ m = h2c[1] /\ 1 \in DOMAIN h2c
    <3>1. hist' = hist \/ PageLast(m)
      BY <1>23, <2>1, CardPage DEF PageKept
    <3>2. h2c # <<>> /\ h2c' = Tail(h2c) /\ SameDriver /\ cardReq' = cardReq
      BY <1>23, CardPage
    <3>3. Raced' <=> Raced
      BY <3>1 DEF PageLast, Raced
    <3> QED
      BY <1>0, <2>1, <3>2, <3>3, TailOf
  <2>3. hist' = hist \/ hist' = hist \cup (IF Got(m) = Items("res", 0, m.num_res) \o Items("conf", 0, m.size - m.num_res) THEN {} ELSE {"garbled"})
                                     \cup (IF m.op = "add" /\ cardReq # {} THEN {"late"} ELSE {})
    BY <1>23, <2>1, CardPage DEF PageKept, PageLast
  <2>4. CASE Raced
    BY <2>2, <2>4 DEF Adds
  <2>5. CASE ~Raced
    <3>1. m.op = "add" => cardReq = {}
      BY <2>2, <2>5 DEF Adds, AddsAlone, AddAt
    <3>2. "late" \in hist' => "late" \in hist
      BY <2>3, <3>1
    <3> QED
      BY <1>o, <2>2, <3>2 DEF SameDriver, SameIds
  <2> QED
    BY <2>4, <2>5
<1>24. ASSUME card_asked PROVE Adds'
  BY <1>24, AskedAdds
<1>25. ASSUME card_destroys \/ card_net_destroy \/ card_net_gone \/ card_event \/ UNCHANGED netVars PROVE Adds'
  <2>1. /\ SameDriver /\ cardReq' \subseteq cardReq /\ (Raced => Raced') /\ ("late" \in hist' => "late" \in hist)
        /\ h2c' = h2c \/ (h2c # <<>> /\ h2c' = Tail(h2c))
    BY <1>25, CardDestroys, CardNetDestroy, CardNetGone, CardEvent, Stutter DEF SameCard, Raced
  <2> QED
    BY <1>o, <2>1 DEF SameDriver, SameIds
<1> QED
  BY <1>1, <1>2, <1>3, <1>4, <1>5, <1>6, <1>7, <1>9, <1>11, <1>12, <1>14, <1>16, <1>18, <1>19, <1>20,
     <1>23, <1>24, <1>25 DEF NetNext, Do, Begin, CardWork

-----------------------------------------------------------------------------
(***************************************************************************)
(* Resources that the card has, and the driver will have                   *)
(***************************************************************************)

\* t has learnt that its resources are on the card, or is going to, and has not counted
\* them yet in m_devres_vec.
Settled(t) ==
    thr[t].op \in {"build", "add"} /\ (thr[t].pc = "insert" \/ (thr[t].pc = "answered" /\ thr[t].got = Success(thr[t].op)))
Owes(t) == Settled(t) \/ (thr[t].op \in {"build", "add"} /\ Heard(t, TRUE))

\* The resources of those threads, one element each.
DebtOf(t) == {t} \X (1 .. thr[t].arg[1])
Owed == {d \in Thread \X Nat : Owes(d[1]) /\ d \in DebtOf(d[1])}

Resources == ~broken /\ ~Mixed => IsFiniteSet(Owed) /\ cardRes = m_devres_vec + Cardinality(Owed)

LEMMA Debt ==
    ASSUME NEW t, NEW n \in Nat
    PROVE  IsFiniteSet({t} \X (1 .. n)) /\ Cardinality({t} \X (1 .. n)) = n
<1>1. IsFiniteSet({t}) /\ Cardinality({t}) = 1
  BY FS_Singleton
<1>2. IsFiniteSet(1 .. n) /\ Cardinality(1 .. n) = n
  BY FS_Interval
<1>3. IsFiniteSet({t} \X (1 .. n)) /\ Cardinality({t} \X (1 .. n)) = Cardinality({t}) * Cardinality(1 .. n)
  BY <1>1, <1>2, FS_Product
<1>4. 1 * n = n
  OBVIOUS
<1> QED
  BY <1>1, <1>2, <1>3, <1>4

\* Sets of debts that share none: the sum of what they hold.
LEMMA DebtAdded ==
    ASSUME NEW D, IsFiniteSet(D), NEW t, NEW n \in Nat, \A d \in D : d[1] # t
    PROVE  IsFiniteSet(D \cup ({t} \X (1 .. n))) /\ Cardinality(D \cup ({t} \X (1 .. n))) = Cardinality(D) + n
<1> DEFINE E == {t} \X (1 .. n)
<1>1. IsFiniteSet(E) /\ Cardinality(E) = n
  BY Debt
<1>2. D \cap E = {}
  OBVIOUS
<1>3. IsFiniteSet(D \cup E) /\ Cardinality(D \cup E) = Cardinality(D) + Cardinality(E) - Cardinality(D \cap E)
  BY <1>1, FS_Union
<1>4. Cardinality(D \cap E) = 0
  BY <1>2, FS_EmptySet
<1>5. Cardinality(D) \in Nat
  BY FS_CardinalityType
<1> HIDE DEF E
<1>6. Cardinality(D \cup E) = Cardinality(D) + n
  BY <1>1, <1>3, <1>4, <1>5
<1> QED
  BY <1>3, <1>6 DEF E

\* Nobody owes more or less than before.
LEMMA DebtsKept ==
    ASSUME Resources, broken => broken', Mixed => Mixed',
           ~broken' /\ ~Mixed' =>
               /\ cardRes' = cardRes /\ m_devres_vec' = m_devres_vec
               /\ \A u \in Thread : (Owes(u)' <=> Owes(u)) /\ (Owes(u) => thr'[u].arg = thr[u].arg)
    PROVE  Resources'
<1>1. ASSUME ~broken', ~Mixed' PROVE Owed' = Owed
  BY <1>1 DEF Owed, DebtOf
<1> QED
  BY <1>1 DEF Resources

\* t comes to owe n resources that the card has got.
LEMMA DebtMade ==
    ASSUME Types, Resources, broken => broken', Mixed => Mixed', NEW t \in Thread,
           ~broken' /\ ~Mixed' =>
               /\ cardRes' = cardRes + thr'[t].arg[1] /\ thr'[t].arg[1] \in Nat /\ m_devres_vec' = m_devres_vec
               /\ ~Owes(t) /\ Owes(t)'
               /\ \A u \in Thread : u # t => (Owes(u)' <=> Owes(u)) /\ thr'[u] = thr[u]
    PROVE  Resources'
<1> SUFFICES ASSUME ~broken', ~Mixed' PROVE IsFiniteSet(Owed)' /\ (cardRes = m_devres_vec + Cardinality(Owed))'
  BY DEF Resources
<1>0. PICK n \in Nat : n = thr'[t].arg[1]
  OBVIOUS
<1>1. Owed' = Owed \cup ({t} \X (1 .. n))
  BY <1>0 DEF Owed, DebtOf
<1>2. \A d \in Owed : d[1] # t
  BY DEF Owed
<1>3. IsFiniteSet(Owed) /\ cardRes = m_devres_vec + Cardinality(Owed)
  BY DEF Resources
<1>4. IsFiniteSet(Owed') /\ Cardinality(Owed') = Cardinality(Owed) + n
  BY <1>1, <1>2, <1>3, DebtAdded
<1>5. Cardinality(Owed) \in Nat /\ m_devres_vec \in Nat /\ cardRes \in Nat
  BY <1>3, FS_CardinalityType DEF Types, HostTypes, CardTypes
<1>6. cardRes' = m_devres_vec' + Cardinality(Owed')
  BY <1>0, <1>3, <1>4, <1>5
<1> QED
  BY <1>4, <1>6

\* t counts what it owes.
LEMMA DebtPaid ==
    ASSUME Types, Resources, broken => broken', Mixed => Mixed', NEW t \in Thread,
           ~broken' /\ ~Mixed' =>
               /\ m_devres_vec' = m_devres_vec + thr[t].arg[1] /\ thr[t].arg[1] \in Nat /\ cardRes' = cardRes
               /\ Owes(t) /\ ~Owes(t)'
               /\ \A u \in Thread : u # t => (Owes(u)' <=> Owes(u)) /\ thr'[u] = thr[u]
    PROVE  Resources'
<1> SUFFICES ASSUME ~broken', ~Mixed' PROVE IsFiniteSet(Owed)' /\ (cardRes = m_devres_vec + Cardinality(Owed))'
  BY DEF Resources
<1>0. PICK n \in Nat : n = thr[t].arg[1]
  OBVIOUS
<1>1. Owed = Owed' \cup ({t} \X (1 .. n))
  BY <1>0 DEF Owed, DebtOf
<1>2. \A d \in Owed' : d[1] # t
  BY DEF Owed
<1>3. IsFiniteSet(Owed) /\ cardRes = m_devres_vec + Cardinality(Owed)
  BY DEF Resources
<1>4. IsFiniteSet(Owed')
  BY <1>1, <1>3, FS_Subset
<1>5. Cardinality(Owed) = Cardinality(Owed') + n
  BY <1>1, <1>2, <1>4, DebtAdded
<1>6. Cardinality(Owed') \in Nat /\ m_devres_vec \in Nat /\ cardRes \in Nat
  BY <1>4, FS_CardinalityType DEF Types, HostTypes, CardTypes
<1>7. cardRes' = m_devres_vec' + Cardinality(Owed')
  BY <1>0, <1>3, <1>5, <1>6
<1> QED
  BY <1>4, <1>7

\* A step of t, which does not wait: what the others have to hear is the same.
LEMMA OthersOwe ==
    ASSUME Types, OwnAnswer, NEW t \in Thread, thr[t].pc # "wait", \A u \in Thread : u # t => thr'[u] = thr[u],
           ~broken, ~Mixed, ~Mixed', m_create_reply' = m_create_reply, c2h' = c2h
    PROVE  /\ \A u \in Thread : u # t => (Owes(u)' <=> Owes(u))
           /\ (Owes(t) <=> Settled(t)) /\ (Owes(t)' <=> Settled(t)')
<1>1. \A u \in Thread : Heard(u, TRUE)' <=> Heard(u, TRUE)
  BY HeardSame DEF Plain
<1>2. ~Heard(t, TRUE)
  BY DEF Heard
<1> QED
  BY <1>1, <1>2 DEF Owes, Settled

LEMMA ThreadOwes ==
    ASSUME Types, OwnAnswer, Resources, NEW t \in Thread, thr[t].pc # "wait", \A u \in Thread : u # t => thr'[u] = thr[u],
           Mixed => Mixed', m_create_reply' = m_create_reply, m_critical_error' = m_critical_error, c2h' = c2h,
           cardRes' = cardRes, m_devres_vec' = m_devres_vec,
           Settled(t)' <=> Settled(t), Settled(t) => thr'[t].arg = thr[t].arg
    PROVE  Resources'
<1>1. broken' <=> broken
  BY DEF broken
<1>2. ASSUME ~broken, ~Mixed' PROVE \A u \in Thread : (Owes(u)' <=> Owes(u)) /\ (Owes(u) => thr'[u].arg = thr[u].arg)
  BY <1>2, OthersOwe
<1> QED
  BY <1>1, <1>2, DebtsKept

\* A step of the response thread, or of the card, that adds no resources.
LEMMA OtherOwes ==
    ASSUME Resources, thr' = thr, broken => broken', Mixed => Mixed', cardRes' = cardRes, m_devres_vec' = m_devres_vec,
           ~broken' /\ ~Mixed' => \A u \in Thread : thr[u].op \in {"build", "add"} => (Heard(u, TRUE)' <=> Heard(u, TRUE))
    PROVE  Resources'
<1>1. ASSUME ~broken', ~Mixed' PROVE \A u \in Thread : Owes(u)' <=> Owes(u)
  BY <1>1 DEF Owes, Settled
<1> QED
  BY <1>1, DebtsKept

LEMMA ReadOwes ==
    ASSUME Types, Locking, OwnAnswer, Resources, NEW t \in Thread, wait(t)
    PROVE  Resources'
<1>1. /\ thr[t].pc = "wait" /\ SameCard /\ m_devres_vec' = m_devres_vec /\ (broken' <=> broken) /\ (Mixed => Mixed')
      /\ \E g : Moves(t, "answered", thr[t].op, thr[t].arg, g)
  BY Wait DEF broken, Mixed
<1>2. ASSUME ~broken, ~Mixed, NEW u \in Thread PROVE Owes(u)' <=> Owes(u)
  <2>1. /\ \A v \in Thread : v # t => (Heard(v, TRUE)' <=> Heard(v, TRUE))
        /\ ~Heard(t, TRUE)' /\ (Heard(t, TRUE) <=> thr'[t].got.ok = TRUE)
        /\ thr'[t].got = IF thr'[t].got.ok THEN Success(thr[t].op) ELSE Failure(thr[t].op)
    BY <1>2, HeardRead
  <2>2. CASE u # t
    <3>1. thr'[u] = thr[u]
      BY <1>1, <2>2 DEF Moves
    <3> QED
      BY <2>1, <2>2, <3>1 DEF Owes, Settled
  <2>3. CASE u = t
    <3>1. /\ Owes(t) <=> thr[t].op \in {"build", "add"} /\ Heard(t, TRUE)
          /\ Owes(t)' <=> thr[t].op \in {"build", "add"} /\ thr'[t].got = Success(thr[t].op)
      BY <1>1, <2>1 DEF Owes, Settled, Moves
    <3>2. Success(thr[t].op).ok = TRUE /\ Failure(thr[t].op).ok = FALSE
      BY DEF Success, Failure
    <3>3. thr'[t].got = Success(thr[t].op) <=> thr'[t].got.ok = TRUE
      BY <2>1, <3>2
    <3> QED
      BY <2>1, <2>3, <3>1, <3>3
  <2> QED
    BY <2>2, <2>3
<1>3. \A u \in Thread : thr'[u].arg = thr[u].arg
  BY <1>1 DEF Moves
<1> QED
  BY <1>1, <1>2, <1>3, DebtsKept DEF SameCard

\* The card gets resources with the last page of a command, whose thread waits for the answer.
LEMMA PageOwes ==
    ASSUME Types, Pages, OwnAnswer, Resources, card_page
    PROVE  Resources'
<1>1. PICK m : m = Head(h2c)
  OBVIOUS
<1>2. /\ h2c # <<>> /\ h2c' = Tail(h2c) /\ SameDriver /\ m.op \in {"build", "add"}
      /\ (Mixed' <=> Mixed) /\ (PageKept(m) \/ PageMade(m) \/ PageRefused(m))
  <2>1. hist' = hist \/ PageLast(m)
    BY <1>1, CardPage DEF PageKept
  <2> QED
    BY <1>1, <2>1, CardPage DEF PageLast, Mixed
<1>3. thr' = thr /\ m_create_reply' = m_create_reply /\ (broken' <=> broken) /\ m_devres_vec' = m_devres_vec
  BY <1>2 DEF SameDriver, SameContext, broken
<1>4. CASE PageKept(m)
  <2>1. c2h' = c2h /\ cardRes' = cardRes
    BY <1>4 DEF PageKept
  <2>2. ~broken => \A u \in Thread : Heard(u, TRUE)' <=> Heard(u, TRUE)
    BY <1>2, <1>3, <2>1, HeardSame DEF Plain
  <2> QED
    BY <1>2, <1>3, <2>1, <2>2, OtherOwes
<1>5. ASSUME ~PageKept(m), ~broken, NEW w \in {Success(m.op), Failure(m.op)}, c2h' = Append(c2h, ReplyTo(-1, w))
      PROVE  \A u \in Thread :
                /\ Command(1, u) => AwaitsOf(u, m) /\ m.by = u /\ ~Heard(u, TRUE) /\ (Heard(u, TRUE)' <=> w.ok = TRUE)
                /\ ~Command(1, u) => (Heard(u, TRUE)' <=> Heard(u, TRUE))
  <2>1. Expects(m)
    BY <1>1, <1>5, TakenPage DEF Expects
  <2>2. w \in Answers /\ w.of = m.op
    <3>1. /\ Success(m.op) \in Answers /\ Failure(m.op) \in Answers
          /\ Success(m.op).of = m.op /\ Failure(m.op).of = m.op
      BY <1>2, Outcomes DEF Success, Failure, Call
    <3> QED
      BY <3>1
  <2>3. (IF m.op = "create" THEN m.req[1] ELSE -1) = -1 /\ -1 \in Id \cup {-1}
    BY <1>2
  <2>4. ASSUME NEW u \in Thread
        PROVE  /\ Command(1, u) => AwaitsOf(u, m) /\ m.by = u /\ ~Heard(u, TRUE) /\ (Heard(u, TRUE)' <=> w.ok = TRUE)
               /\ ~Command(1, u) => (Heard(u, TRUE)' <=> Heard(u, TRUE))
    BY <1>1, <1>2, <1>3, <1>5, <2>1, <2>2, <2>3, HeardAnswered
  <2> QED
    BY <2>4
<1>6. CASE ~PageKept(m) /\ PageRefused(m)
  <2>1. cardRes' = cardRes /\ c2h' = Append(c2h, ReplyTo(-1, Failure(m.op)))
    BY <1>6 DEF PageRefused
  <2>2. Failure(m.op).ok # TRUE
    BY DEF Failure
  <2>3. ~broken => \A u \in Thread : Heard(u, TRUE)' <=> Heard(u, TRUE)
    BY <1>5, <1>6, <2>1, <2>2
  <2> QED
    BY <1>2, <1>3, <2>1, <2>3, OtherOwes
<1>7. CASE ~PageKept(m) /\ PageMade(m)
  <2>1. cardRes' = cardRes + m.num_res /\ c2h' = Append(c2h, ReplyTo(-1, Success(m.op)))
    BY <1>7 DEF PageMade
  <2>2. Success(m.op).ok = TRUE
    BY DEF Success
  <2>3. m = h2c[1] /\ 1 \in DOMAIN h2c /\ IsPage(m) /\ Expects(m) /\ m.by \in Thread /\ m.num_res \in Nat
    <3>1. m = h2c[1] /\ PageAt(1) /\ IsPage(m) /\ m \in Message /\ Expects(m) /\ m.num_res \in Nat
      BY <1>1, <1>7, TakenPage DEF Expects
    <3> QED
      BY <1>2, <3>1, MessageFields DEF PageAt
  <2>4. PICK t \in Thread : t = m.by
    BY <2>3
  <2>5. ASSUME ~broken, ~Mixed
        PROVE  /\ thr[t].op = m.op /\ m.num_res = thr[t].arg[1] /\ thr[t].pc = "wait"
               /\ ~Heard(t, TRUE) /\ Heard(t, TRUE)'
               /\ \A u \in Thread : u # t => (Heard(u, TRUE)' <=> Heard(u, TRUE))
    <3>1. Command(1, t) /\ \A u \in Thread : u # t => ~Command(1, u)
      BY <2>3, <2>4, <2>5 DEF Command
    <3>2. /\ AwaitsOf(t, m) /\ ~Heard(t, TRUE) /\ (Heard(t, TRUE)' <=> Success(m.op).ok = TRUE)
          /\ \A u \in Thread : u # t => (Heard(u, TRUE)' <=> Heard(u, TRUE))
      BY <1>5, <1>7, <2>1, <2>5, <3>1
    <3> QED
      BY <2>2, <2>3, <3>2 DEF AwaitsOf
  <2>6. ASSUME ~broken, ~Mixed PROVE ~Owes(t) /\ Owes(t)' /\ \A u \in Thread : u # t => (Owes(u)' <=> Owes(u))
    BY <1>2, <1>3, <2>5, <2>6 DEF Owes, Settled
  <2> QED
    BY <1>2, <1>3, <2>1, <2>3, <2>5, <2>6, DebtMade
<1> QED
  BY <1>2, <1>4, <1>6, <1>7

LEMMA ResourcesHeld ==
    ASSUME Types, Locking, Pages, Stage, OwnAnswer, Resources, [NetNext]_netVars
    PROVE  Resources'
<1>0. (\A t \in Thread : Place(t)) /\ h2c \in Seq(Message) /\ c2h \in Seq(Reported)
  BY DEF Types, CardTypes
<1> USE DEF SameHost
<1>g. ASSUME NEW t \in Thread, NEW p, NEW o, NEW a, NEW g, Moves(t, p, o, a, g), thr[t].pc # "wait",
             Mixed => Mixed', SameContext, SameCard, c2h' = c2h, m_devres_vec' = m_devres_vec,
             ~Settled(t), ~(o \in {"build", "add"} /\ (p = "insert" \/ (p = "answered" /\ g = Success(o))))
      PROVE  Resources'
  <2>1. ~Settled(t)'
    BY <1>g DEF Settled, Moves
  <2>2. \A u \in Thread : u # t => thr'[u] = thr[u]
    BY <1>g DEF Moves
  <2> QED
    BY <1>g, <2>1, <2>2, ThreadOwes DEF SameContext, SameCard
<1>r. ASSUME NEW t \in Thread, Returns(t), thr[t].pc # "wait",
             Mixed => Mixed', SameContext, SameCard, c2h' = c2h, m_devres_vec' = m_devres_vec, ~Settled(t)
      PROVE  Resources'
  BY <1>r, <1>g DEF Returns
<1>f. \A of \in {"broken", "io_error"} : \A o : Failure(of) # Success(o)
  <2>1. \A of, o : Failure(of).ok = FALSE /\ Success(o).ok = TRUE
    BY DEF Failure, Success
  <2> QED
    BY <2>1
<1>p. ASSUME NEW t \in Thread, NEW n, NEW a, Returns(t), n = thr[t].arg[1], Settled(t), thr[t].pc # "wait", Mixed => Mixed',
             SameContext, SameCard, c2h' = c2h, a = m_devres_vec + n, m_devres_vec' = a
      PROVE  Resources'
  <2>1. \A u \in Thread : u # t => thr'[u] = thr[u]
    BY <1>p DEF Returns, Moves
  <2>2. ~Settled(t)'
    BY <1>p DEF Returns, Moves, Settled
  <2>3. broken' <=> broken
    BY <1>p DEF broken, SameContext
  <2>4. n \in Nat
    BY <1>p DEF Types, HostTypes, ThreadState
  <2>5. ASSUME ~broken, ~Mixed' PROVE Owes(t) /\ ~Owes(t)' /\ \A u \in Thread : u # t => (Owes(u)' <=> Owes(u))
    BY <1>p, <2>1, <2>2, <2>5, OthersOwe DEF SameContext
  <2> QED
    BY <1>p, <2>1, <2>3, <2>4, <2>5, DebtPaid DEF SameCard
<1>1. ASSUME NEW t \in Thread, from_file(t) PROVE Resources'
  <2>1. /\ thr[t].op = "build" /\ thr[t].pc \in {"file0", "file1"} /\ SameHost /\ (Mixed' <=> Mixed)
    BY <1>1, FromFile DEF Mixed
  <2>2. ~Settled(t)
    BY <2>1 DEF Settled
  <2>3. CASE Returns(t)
    BY <2>1, <1>r, <2>2, <2>3
  <2>4. ASSUME NEW to \in {"lock", "file1"}, NEW k, Moves(t, to, "build", <<k, 1>>, thr[t].got) PROVE Resources'
    BY <2>1, <2>2, <2>4, <1>g
  <2> QED
    BY <1>1, <2>3, <2>4, FromFile
<1>2. ASSUME NEW t \in Thread, build_done(t) PROVE Resources'
  <2>1. /\ thr[t].pc = "answered" /\ thr[t].op = "build" /\ Returns(t) /\ SameContext /\ SameCard /\ c2h' = c2h
        /\ (Mixed' <=> Mixed)
        /\ \/ thr[t].got = Success("build") /\ m_devres_vec' = thr[t].arg[1]
           \/ thr[t].got # Success("build") /\ m_devres_vec' = m_devres_vec
    BY <1>2, BuildDone DEF Mixed
  <2>2. m_devres_vec = 0
    BY <2>1 DEF Stage, Kept, Built, Types, HostTypes
  <2>3. CASE thr[t].got = Success("build") /\ m_devres_vec' = thr[t].arg[1]
    <3>1. Settled(t)
      BY <2>1, <2>3 DEF Settled
    <3>2. thr[t].arg[1] \in Nat
      BY DEF Types, HostTypes, ThreadState
    <3>3. thr[t].arg[1] = m_devres_vec + thr[t].arg[1]
      BY <2>2, <3>2
    <3> QED
      BY <1>p, <2>1, <2>3, <3>1, <3>3
  <2>4. CASE thr[t].got # Success("build") /\ m_devres_vec' = m_devres_vec
    <3>1. ~Settled(t)
      BY <2>1, <2>4 DEF Settled
    <3> QED
      BY <1>r, <2>1, <2>4, <3>1
  <2> QED
    BY <2>1, <2>3, <2>4
<1>3. ASSUME NEW t \in Thread, add_done(t) PROVE Resources'
  <2>1. /\ thr[t].pc = "insert" /\ thr[t].op = "add" /\ Returns(t) /\ SameContext /\ SameCard /\ c2h' = c2h
        /\ (Mixed' <=> Mixed) /\ m_devres_vec' = m_devres_vec + thr[t].arg[1]
    BY <1>3, AddDone DEF Mixed
  <2>2. Settled(t)
    BY <2>1 DEF Settled
  <2> QED
    BY <1>p, <2>1, <2>2
<1>4. ASSUME NEW t \in Thread, add_insert(t) PROVE Resources'
  <2>1. /\ thr[t].pc = "answered" /\ thr[t].op = "add" /\ SameHost /\ (Mixed' <=> Mixed)
        /\ \/ thr[t].got = Success("add") /\ Goes(t, "insert")
           \/ thr[t].got # Success("add") /\ Returns(t)
    BY <1>4, AddInsert DEF Mixed
  <2>2. CASE thr[t].got = Success("add") /\ Goes(t, "insert")
    <3>1. Settled(t) /\ Settled(t)' /\ thr'[t].arg = thr[t].arg /\ \A u \in Thread : u # t => thr'[u] = thr[u]
      BY <2>1, <2>2 DEF Settled, Goes, Moves
    <3> QED
      BY <2>1, <3>1, ThreadOwes DEF SameContext, SameCard
  <2>3. CASE thr[t].got # Success("add") /\ Returns(t)
    <3>1. ~Settled(t)
      BY <2>1, <2>3 DEF Settled
    <3> QED
      BY <1>r, <2>1, <2>3, <3>1
  <2> QED
    BY <2>1, <2>2, <2>3
<1>5. ASSUME NEW t \in Thread, property_done(t) \/ destroy_remove(t) \/ destroy_net_remove(t) \/ create_done(t) PROVE Resources'
  <2>1. /\ thr[t].pc # "wait" /\ thr[t].op \notin {"build", "add"} /\ Returns(t) /\ SameContext /\ SameCard
        /\ c2h' = c2h /\ (Mixed' <=> Mixed) /\ m_devres_vec' = m_devres_vec
    BY <1>5, PropertyDone, DestroyRemove, DestroyNetRemove, CreateDone DEF Mixed
  <2>2. ~Settled(t)
    BY <2>1 DEF Settled
  <2> QED
    BY <1>r, <2>1, <2>2
<1>6. ASSUME NEW t \in Thread, add_test(t) PROVE Resources'
  <2>1. thr[t].pc = "add" /\ (Returns(t) \/ Goes(t, "lock")) /\ SameHost /\ (Mixed' <=> Mixed)
    BY <1>6, AddTest DEF Mixed
  <2>2. ~Settled(t)
    BY <2>1 DEF Settled
  <2> QED
    BY <1>g, <1>r, <2>1, <2>2 DEF Goes
<1>7. ASSUME NEW t \in Thread, lock(t) PROVE Resources'
  <2>1. /\ thr[t].pc = "lock" /\ SameHost /\ (Mixed => Mixed')
        /\ Goes(t, "send") \/ Moves(t, "answered", thr[t].op, thr[t].arg, Failure("broken"))
    BY <1>7, Lock DEF Mixed
  <2>2. ~Settled(t)
    BY <2>1 DEF Settled
  <2> QED
    BY <1>f, <1>g, <2>1, <2>2 DEF Goes
<1>8. ASSUME NEW t \in Thread, send_page(t) PROVE Resources'
  <2>1. thr[t].pc = "send" /\ SameHost /\ (Mixed' <=> Mixed)
    BY <1>8, SendPage DEF Mixed
  <2>2. ~Settled(t)
    BY <2>1 DEF Settled
  <2>3. CASE thr' = thr
    BY <2>1, <2>2, <2>3, ThreadOwes DEF Settled, SameContext, SameCard
  <2>4. CASE thr' # thr
    <3>1. Goes(t, "wait") \/ Moves(t, "answered", thr[t].op, thr[t].arg, Failure("io_error"))
      BY <1>8, <2>4, SendPage
    <3> QED
      BY <1>f, <1>g, <2>1, <2>2, <3>1 DEF Goes
  <2> QED
    BY <2>3, <2>4
<1>9. ASSUME NEW t \in Thread, wait(t) PROVE Resources'
  BY <1>9, ReadOwes
<1>10. ASSUME NEW t \in Thread, property_send(t) PROVE Resources'
  <2>1. thr[t].pc = "property" /\ SameHost /\ (Mixed => Mixed') /\ (Goes(t, "wait") \/ Returns(t))
    BY <1>10, PropertySend DEF Mixed
  <2>2. ~Settled(t)
    BY <2>1 DEF Settled
  <2> QED
    BY <1>g, <1>r, <2>1, <2>2 DEF Goes
<1>11. ASSUME NEW t \in Thread, create_alloc(t) PROVE Resources'
  <2>1. /\ thr[t].pc = "create" /\ SameContext /\ SameCard /\ c2h' = c2h /\ m_devres_vec' = m_devres_vec /\ (Mixed => Mixed')
        /\ Returns(t) \/ \E id \in Id : Moves(t, "lock", "create", <<id, made + 1>>, thr[t].got)
    BY <1>11, CreateAlloc DEF Mixed
  <2>2. ~Settled(t)
    BY <2>1 DEF Settled
  <2> QED
    BY <1>g, <1>r, <2>1, <2>2
<1>12. ASSUME NEW t \in Thread, create_send(t) PROVE Resources'
  <2>1. /\ thr[t].pc = "send" /\ thr[t].op = "create" /\ SameHost /\ (Mixed' <=> Mixed)
        /\ Goes(t, "wait") \/ Moves(t, "answered", "create", thr[t].arg, Failure("io_error"))
    BY <1>12, CreateSend DEF Mixed
  <2>2. ~Settled(t)
    BY <2>1 DEF Settled
  <2> QED
    BY <1>g, <2>1, <2>2 DEF Goes
<1>13. ASSUME NEW t \in Thread, destroy_send(t) \/ destroy_net_send(t) PROVE Resources'
  <2>1. thr[t].pc \in {"destroy", "destroy_net"} /\ SameHost /\ (Mixed' <=> Mixed) /\ (Goes(t, "remove") \/ Returns(t))
    BY <1>13, DestroySend, DestroyNetSend DEF Mixed
  <2>2. ~Settled(t)
    BY <2>1 DEF Settled
  <2> QED
    BY <1>g, <1>r, <2>1, <2>2 DEF Goes
<1>14. ASSUME NEW t \in Thread, NEW c \in Call, find_network(t, c) PROVE Resources'
  <2>1. PICK s : Moves(t, c, c, s, thr[t].got)
    BY <1>14, FindNetwork
  <2>2. SameHost /\ (Mixed' <=> Mixed) /\ thr[t].pc = "idle" /\ c \notin {"insert", "answered"}
    BY <1>14, FindNetwork, IdleType DEF Mixed, Call
  <2>3. ~Settled(t)
    BY <2>2 DEF Settled
  <2> QED
    BY <1>g, <2>1, <2>2, <2>3
<1>15. ASSUME NEW t \in Thread, NEW r \in s_infreqs, find_infreq(t, r) PROVE Resources'
  <2>1. Moves(t, "destroy", "destroy", r, thr[t].got) /\ SameHost /\ (Mixed => Mixed') /\ thr[t].pc = "idle"
    BY <1>15, FindRequest, IdleType DEF Mixed
  <2>2. ~Settled(t)
    BY <2>1 DEF Settled
  <2> QED
    BY <1>g, <2>1, <2>2
<1>16. ASSUME process_create_reply PROVE Resources'
  <2>1. /\ c2h # <<>> /\ Head(c2h).op = "reply" /\ c2h' = Tail(c2h) /\ SameLocal
        /\ m_create_reply' = Put(m_create_reply, Head(c2h).key, [what |-> Head(c2h).what, by |-> Head(c2h).by])
        /\ (broken' <=> broken) /\ thr' = thr /\ (Mixed' <=> Mixed)
    BY <1>16, ReplyStep DEF SameLocal, broken, Mixed
  <2>2. ~broken => \A u \in Thread : Heard(u, TRUE)' <=> Heard(u, TRUE)
    BY <2>1, HeardStored
  <2> QED
    BY <2>1, <2>2, OtherOwes DEF SameLocal, SameCard
<1>17. ASSUME infreq_destroyed \/ devnet_destroyed \/ critical_event PROVE Resources'
  <2>1. /\ SameLocal /\ m_create_reply' = m_create_reply /\ c2h # <<>> /\ c2h' = Tail(c2h)
        /\ Head(c2h).op \in {"infreq_destroyed", "devnet_destroyed", "context", "card"} /\ (broken => broken')
    BY <1>17, RequestGone, NetworkGone, Critical DEF broken, SameContext
  <2>2. ~broken => \A u \in Thread : Heard(u, TRUE)' <=> Heard(u, TRUE)
    BY <2>1, HeardSame DEF Plain, SameLocal, Mixed
  <2> QED
    BY <2>1, <2>2, OtherOwes DEF SameLocal, SameCard, Mixed
<1>18. ASSUME card_page PROVE Resources'
  BY <1>18, PageOwes
<1>19. ASSUME card_asked PROVE Resources'
  <2>1. PICK m : m = Head(h2c)
    OBVIOUS
  <2>2. /\ h2c # <<>> /\ SameDriver /\ m.op \in {"property", "create"} /\ cardRes' = cardRes /\ (Mixed' <=> Mixed)
    BY <1>19, <2>1, CardAsked DEF Mixed
  <2>3. thr' = thr /\ m_create_reply' = m_create_reply /\ (broken' <=> broken) /\ m_devres_vec' = m_devres_vec
    BY <2>2 DEF SameDriver, SameContext, broken
  <2>4. m = h2c[1] /\ 1 \in DOMAIN h2c /\ m \in Message
    BY <1>0, <2>1, <2>2, TailOf
  <2>5. PICK key \in Id \cup {-1} : key = IF m.op = "create" THEN m.req[1] ELSE -1
    <3>1. m.op = "create" => m.req[1] \in Id
      BY <2>4, MessageFields DEF Requests
    <3> QED
      BY <2>2, <3>1
  <2>6. PICK w \in {Success(m.op), Failure(m.op)} : c2h' = Append(c2h, ReplyTo(key, w))
    BY <1>19, <2>1, <2>5, CardAsked
  <2>7. w \in Answers /\ w.of = m.op /\ Expects(m)
    <3>1. /\ Success(m.op) \in Answers /\ Failure(m.op) \in Answers
          /\ Success(m.op).of = m.op /\ Failure(m.op).of = m.op
      BY <2>2, Outcomes DEF Success, Failure, Call
    <3> QED
      BY <2>2, <3>1 DEF Expects
  <2>8. ASSUME ~broken, NEW u \in Thread
        PROVE  /\ Command(1, u) => AwaitsOf(u, m) /\ m.by = u /\ ~Heard(u, TRUE) /\ (Heard(u, TRUE)' <=> w.ok = TRUE)
               /\ ~Command(1, u) => (Heard(u, TRUE)' <=> Heard(u, TRUE))
    BY <2>1, <2>2, <2>3, <2>5, <2>6, <2>7, <2>8, HeardAnswered
  <2>9. ~broken => \A u \in Thread : thr[u].op \in {"build", "add"} => (Heard(u, TRUE)' <=> Heard(u, TRUE))
    BY <2>2, <2>8 DEF AwaitsOf
  <2> QED
    BY <2>2, <2>3, <2>9, OtherOwes
<1>20. ASSUME card_destroys \/ card_net_destroy \/ card_net_gone \/ card_event \/ UNCHANGED netVars PROVE Resources'
  <2>1. /\ SameDriver /\ cardRes' = cardRes /\ (Mixed' <=> Mixed)
        /\ \/ c2h' = c2h
           \/ \E e \in {"devnet_destroyed", "context", "card"} : c2h' = Append(c2h, [op |-> e])
           \/ \E id \in Id : c2h' = Append(c2h, [op |-> "infreq_destroyed", id |-> id])
    <3>1. CASE card_destroys
      <4>1. Head(h2c).req[1] \in Id
        <5>1. Head(h2c) \in Message /\ Head(h2c).op = "destroy"
          BY <1>0, <3>1, CardDestroys, TailOf
        <5> QED
          BY <5>1, MessageFields DEF Requests
      <4> QED
        BY <3>1, <4>1, CardDestroys DEF Mixed
    <3>2. CASE ~card_destroys
      BY <1>20, <3>2, CardNetDestroy, CardNetGone, CardEvent, Stutter DEF SameCard, Mixed
    <3> QED
      BY <3>1, <3>2
  <2>2. c2h' = c2h \/ \E m \in Reported : m.op # "reply" /\ c2h' = Append(c2h, m)
    <3>1. ASSUME NEW e \in {"devnet_destroyed", "context", "card"}, c2h' = Append(c2h, [op |-> e])
          PROVE  \E m \in Reported : m.op # "reply" /\ c2h' = Append(c2h, m)
      <4>1. PICK m \in Reported : m = [op |-> e]
        BY Reports
      <4>2. m.op # "reply"
        BY <4>1
      <4> QED
        BY <3>1, <4>1, <4>2
    <3>2. ASSUME NEW id \in Id, c2h' = Append(c2h, [op |-> "infreq_destroyed", id |-> id])
          PROVE  \E m \in Reported : m.op # "reply" /\ c2h' = Append(c2h, m)
      <4>1. PICK m \in Reported : m = [op |-> "infreq_destroyed", id |-> id]
        BY Reports
      <4>2. m.op # "reply"
        BY <4>1
      <4> QED
        BY <3>2, <4>1, <4>2
    <3> QED
      BY <2>1, <3>1, <3>2
  <2>3. thr' = thr /\ m_create_reply' = m_create_reply /\ (broken' <=> broken) /\ m_devres_vec' = m_devres_vec
    BY <2>1 DEF SameDriver, SameContext, broken
  <2>4. ~broken => \A u \in Thread : Heard(u, TRUE)' <=> Heard(u, TRUE)
    BY <2>1, <2>2, <2>3, HeardSame DEF Plain
  <2> QED
    BY <2>1, <2>3, <2>4, OtherOwes
<1> QED
  BY <1>1, <1>2, <1>3, <1>4, <1>5, <1>6, <1>7, <1>8, <1>9, <1>10, <1>11, <1>12, <1>13, <1>14, <1>15, <1>16, <1>17,
     <1>18, <1>19, <1>20 DEF NetNext, Do, Begin, Respond, CardWork

-----------------------------------------------------------------------------
(***************************************************************************)
(* The network                                                             *)
(***************************************************************************)

\* The inductive invariant.
NetInv ==
    /\ Types /\ Locking
    /\ Ids /\ Claims
    /\ Pages /\ Stage
    /\ OwnAnswer
    /\ Numbered /\ Destroys
    /\ Adds /\ Resources

LEMMA StartTypes == ASSUME NetInit PROVE Types /\ Locking
<1>1. /\ m_create_reply = [k \in {} |-> "none"] /\ DOMAIN m_create_reply = {} /\ Init /\ h2c = <<>> /\ c2h = <<>> /\ chain = <<>>
      /\ s_networks = FALSE /\ netDB = FALSE /\ s_infreqs = {} /\ reqDB = {} /\ m_devres_vec = 0 /\ m_mutex = NoOne
      /\ sent = <<0, 0>> /\ m_critical_error = "none" /\ exited = FALSE /\ made = 0 /\ leaked = {}
      /\ cardNet = "none" /\ cardRes = 0 /\ cardReq = {}
  BY DEF NetInit
<1>2. thr = [t \in Thread |-> IF t = Builder THEN [Idle EXCEPT !.pc = "file0", !.op = "build"] ELSE Idle]
  BY DEF NetInit
<1>3. [Idle EXCEPT !.pc = "file0", !.op = "build"] \in ThreadState
  BY IdleType DEF ThreadState
<1>4. thr \in [Thread -> ThreadState]
  BY <1>2, <1>3, IdleType
<1>5. \A t \in Thread : (thr[t].pc = "file0" /\ thr[t].op = "build" /\ t = Builder) \/ thr[t] = Idle
  BY <1>2, IdleType DEF ThreadState
<1>6. HostTypes
  BY <1>1, <1>4 DEF HostTypes
<1>7. CardTypes
  BY <1>1 DEF CardTypes
<1>8. \A t \in Thread : Place(t)
  BY <1>5, IdleType DEF Place, Fits, Call
<1>9. Types
  BY <1>1, <1>6, <1>7, <1>8, IDAStart DEF Types
<1>10. Locking
  <2>1. \A t \in Thread : ~Sending(t) /\ ~Inside(thr[t].pc, thr[t].op)
    BY <1>5, IdleType DEF Sending, Inside
  <2>2. \A t \in Thread : m_mutex # t
    BY <1>1, NetworkAssumption
  <2> QED
    BY <1>1, <2>1, <2>2 DEF Locking
<1> QED
  BY <1>9, <1>10

LEMMA NetworkStart == ASSUME NetInit PROVE NetInv
<1>0. Types /\ Locking
  BY StartTypes
<1>1. /\ h2c = <<>> /\ c2h = <<>> /\ DOMAIN m_create_reply = {} /\ hist = {} /\ leaked = {} /\ made = 0 /\ sent = <<0, 0>>
      /\ s_networks = FALSE /\ netDB = FALSE /\ s_infreqs = {} /\ m_devres_vec = 0 /\ m_critical_error = "none"
      /\ cardNet = "none" /\ cardRes = 0 /\ cardReq = {} /\ held = {}
  BY DEF NetInit, Init
<1>2. DOMAIN h2c = {} /\ DOMAIN c2h = {}
  BY <1>1
<1>3. \A t \in Thread : thr[t] = Idle \/ thr[t] = [Idle EXCEPT !.pc = "file0", !.op = "build"]
  BY DEF NetInit
<1>4. \A t \in Thread : thr[t].pc \in {"idle", "file0"} /\ thr[t].op \in {"none", "build"} /\ thr[t].got = Failure("none")
  <2> DEFINE first == [Idle EXCEPT !.pc = "file0", !.op = "build"]
  <2>1. first.pc = "file0" /\ first.op = "build" /\ first.got = Idle.got
    BY IdleType DEF ThreadState
  <2>2. Idle.pc = "idle" /\ Idle.op = "none" /\ Idle.got = Failure("none")
    BY DEF Idle
  <2> HIDE DEF first
  <2>3. \A t \in Thread : thr[t] = Idle \/ thr[t] = first
    BY <1>3 DEF first
  <2> QED
    BY <2>1, <2>2, <2>3
<1>5. \A t \in Thread : ~Sending(t) /\ ~UsesNetKey(t) /\ \A b : ~Heard(t, b)
  BY <1>4 DEF Sending, UsesNetKey, Heard
<1>6. Ids
  BY <1>1, <1>2, <1>4 DEF Ids, OnePlace, Making, Asked, Known, Gone
<1>7. Claims
  BY <1>1 DEF Claims
<1>8. Pages
  BY <1>1, <1>2, <1>5 DEF Pages, Linked, Continuing, PageAt
<1>9. Stage
  <2>1. ~Built
    BY <1>1 DEF Built
  <2>2. OneCommand
    BY <1>1, <1>2 DEF OneCommand
  <2>3. ~Replied
    BY <1>1, <1>2, <1>4 DEF Replied, Failure
  <2>4. Unbuilt
    BY <1>1, <1>2, <1>4, <2>2, <2>3 DEF Unbuilt
  <2> QED
    BY <1>2, <2>1, <2>4 DEF Stage
<1>10. OwnAnswer
  <2>1. \A u \in Thread : OneAnswer(u)
    BY <1>1, <1>2 DEF OneAnswer, CommandOnce, ReplyOnce, StoredOnce
  <2> QED
    BY <1>1, <1>5, <2>1 DEF OwnAnswer, OneUser
<1>11. Numbered
  BY <1>1, <1>2, <1>4 DEF Numbered, Named, Creating, Destroying, DestroyAt
<1>12. Destroys
  <2>1. HandlesLive /\ OneDestroyer /\ OneDestroy
    BY <1>1, <1>2, <1>4 DEF HandlesLive, OneDestroyer, OneDestroy, Destroying
  <2>2. ToldTruly
    BY <1>4, <1>5 DEF ToldTruly, Told
  <2> QED
    BY <1>1, <2>1, <2>2 DEF Destroys
<1>13. Adds
  BY <1>1, <1>2, <1>4 DEF Adds, AddsAlone, Adding, AddAt
<1>14. Resources
  <2>1. \A t \in Thread : ~Owes(t)
    BY <1>4, <1>5 DEF Owes, Settled
  <2>2. Owed = {}
    BY <2>1 DEF Owed
  <2> QED
    BY <1>1, <2>2, FS_EmptySet DEF Resources
<1> QED
  BY <1>0, <1>6, <1>7, <1>8, <1>9, <1>10, <1>11, <1>12, <1>13, <1>14 DEF NetInv

\* What the threads, the response thread and the card do together, in any order: the one
\* invariant of nnpiDevNet and nnpiInfReq that every property below follows from.
THEOREM NetworkInv == NetSpec => []NetInv
<1>1. NetInit => NetInv
  BY NetworkStart
<1>2. NetInv /\ [NetNext]_netVars => NetInv'
  <2> SUFFICES ASSUME NetInv, [NetNext]_netVars PROVE NetInv'
    OBVIOUS
  <2>1. /\ Types /\ Locking /\ Ids /\ Claims /\ Pages /\ Stage /\ OwnAnswer /\ Numbered /\ Destroys /\ Adds /\ Resources
    BY DEF NetInv
  <2>2. Types' /\ Locking' /\ Ids' /\ Claims'
    BY <2>1, TypesHeld, LockingHeld, IdsHeld, ClaimsHeld
  <2>3. Pages' /\ Stage' /\ OwnAnswer'
    BY <2>1, PagesHeld, StageHeld, OwnAnswerHeld
  <2>4. Numbered' /\ Destroys' /\ Adds' /\ Resources'
    BY <2>1, NumberedHeld, DestroysHeld, AddsHeld, ResourcesHeld
  <2> QED
    BY <2>2, <2>3, <2>4 DEF NetInv
<1> QED
  BY <1>1, <1>2, PTL DEF NetSpec

\* The ids of the network's requests are exactly those outside the free ranges, whatever
\* the threads, the card and the response thread do: a free(id) of nnpiIDA is always of an
\* id that is held.
THEOREM NetworkIdsExact == NetSpec => []FreeExact
<1>1. NetInv => FreeExact
  BY DEF NetInv, Types, IDAInv, Exact, FreeExact
<1> QED
  BY <1>1, NetworkInv, PTL

LEMMA RequestTypes == ASSUME Types, Locking PROVE NetTypeOK
<1>1. thr \in [Thread -> ThreadState] /\ sent \in Nat \X Nat /\ \A t \in Thread : Place(t)
  BY DEF Types, HostTypes
<1>2. ASSUME NEW t \in Thread, thr[t].pc = "send" PROVE sent[1] <= thr[t].arg[1] /\ sent[2] <= thr[t].arg[2]
  <2>1. CASE Sending(t)
    BY <2>1 DEF Locking, LeftToSend
  <2>2. CASE ~Sending(t)
    <3>1. \A u \in Thread : ~Sending(u)
      BY <1>2, <2>2 DEF Locking, Inside, Sending
    <3>2. sent = <<0, 0>>
      BY <3>1 DEF Locking
    <3>3. thr[t].arg \in Nat \X Nat
      BY <1>1 DEF ThreadState
    <3> QED
      BY <3>2, <3>3
  <2> QED
    BY <2>1, <2>2
<1>3. \A t \in Thread : thr[t].pc \in {"idle", "file0", "file1", "lock", "send", "wait", "answered", "insert", "remove"} \cup Call
  BY <1>1 DEF ThreadState
<1> QED
  BY <1>1, <1>2, <1>3 DEF NetTypeOK, Types, HostTypes

\* The id of a request is held while anything of the card may name it (IdInUse); when all
\* is quiet exactly the ids of the card's requests are, but for those that a failed
\* creation or destruction lost (IdsAgree), so that get_num_alloc() lets the network take
\* resources again; and a destroy hits the request of the handle it was called with, unless
\* two threads destroy one handle at a time (DestroysOwn).
THEOREM RequestsAreRight == NetSpec => []RequestsRight
<1>1. ASSUME NetInv PROVE RequestsRight
  <2>1. Types /\ Locking /\ Ids /\ Claims /\ Destroys
    BY <1>1 DEF NetInv
  <2>2. NetTypeOK
    BY <2>1, RequestTypes
  <2>3. IdInUse
    BY <2>1 DEF Ids, OnePlace, IdInUse, ReqIds, Asked, Known, Gone
  <2>4. IdsAgree
    <3>1. ASSUME Quiet, cardNet = "up" PROVE ReqIds \subseteq held /\ held \subseteq ReqIds \cup leaked
      <4>1. DOMAIN h2c = {} /\ DOMAIN c2h = {} /\ ~broken /\ \A t \in Thread : thr[t] = Idle
        BY <2>1, <3>1 DEF Quiet, Types, Place
      <4>2. \A id : ~Requested(id) /\ ~Announced(id)
        BY <4>1 DEF Requested, Announced, Asked, Gone
      <4>3. \A t \in Thread : thr[t].op # "create"
        BY <4>1, IdleType
      <4>4. \A t \in Thread : \A id : ~Holds(t, id)
        BY <4>3 DEF Holds, Making, Refused
      <4>5. held \subseteq ReqIds \cup leaked
        BY <2>1, <3>1, <4>1, <4>2, <4>4 DEF Claims, Claim, ReqIds, Known
      <4>6. ReqIds \subseteq Id
        BY <2>1 DEF Types, CardTypes, Requests, ReqIds
      <4>7. ReqIds \subseteq held
        BY <2>1, <4>6 DEF Ids, OnePlace, ReqIds, Known
      <4> QED
        BY <4>5, <4>7
    <3> QED
      BY <3>1 DEF IdsAgree
  <2>5. DestroysOwn
    BY <2>1 DEF Destroys, DestroysOwn, Twice
  <2> QED
    BY <2>2, <2>3, <2>4, <2>5 DEF RequestsRight
<1> QED
  BY <1>1, NetworkInv, PTL

\* The card gets what the caller passed, however send_create_or_add splits it into pages
\* (CommandWhole); gets it while there is no request, unless one was begun after the test
\* of add_resources (NoAddUnderRequest); and has m_devres_vec when all is quiet, unless
\* answers were mixed up (ResourcesAgree).
THEOREM ResourcesAreRight == NetSpec => []ResourcesRight
<1>1. ASSUME NetInv PROVE ResourcesRight
  <2>1. Types /\ Pages /\ Stage /\ Adds /\ Resources
    BY <1>1 DEF NetInv
  <2>2. CommandWhole
    BY <2>1 DEF Pages, CommandWhole
  <2>3. NoAddUnderRequest
    BY <2>1 DEF Adds, Raced, NoAddUnderRequest
  <2>4. ResourcesAgree
    <3>1. ASSUME Quiet, cardNet = "up", "overlap" \notin hist PROVE s_networks /\ m_devres_vec = cardRes
      <4>1. h2c = <<>> /\ c2h = <<>> /\ ~broken /\ \A t \in Thread : thr[t].op = "none"
        BY <2>1, <3>1, IdleType DEF Quiet, Types, Place
      <4>2. Owed = {}
        BY <4>1 DEF Owed, Owes, Settled
      <4>3. m_devres_vec = cardRes
        <5>1. cardRes = m_devres_vec + Cardinality(Owed)
          BY <2>1, <3>1, <4>1 DEF Resources, Mixed
        <5> QED
          BY <2>1, <4>2, <5>1, FS_EmptySet DEF Types, HostTypes
      <4>4. Built
        BY <2>1, <3>1, <4>1, NetworkAssumption DEF Stage, Unbuilt, MadeKnown
      <4>5. ~Ending
        BY <3>1, <4>1 DEF Ending
      <4> QED
        BY <2>1, <4>3, <4>4, <4>5 DEF Stage, Kept
    <3> QED
      BY <3>1 DEF ResourcesAgree
  <2> QED
    BY <2>2, <2>3, <2>4 DEF ResourcesRight
<1> QED
  BY <1>1, NetworkInv, PTL

\* wait_create_command returns the answer to the waiting thread's own command, unless a
\* property was set, without the mutex, while another command on the network was under way.
THEOREM AnswersAreOwn == NetSpec => []AnswerIsOwn
<1>1. NetInv => AnswerIsOwn
  BY DEF NetInv, OwnAnswer, Mixed, AnswerIsOwn
<1> QED
  BY <1>1, NetworkInv, PTL
=============================================================================
