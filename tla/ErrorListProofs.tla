--------------------------- MODULE ErrorListProofs ---------------------------
(***************************************************************************)
(* Proofs about ErrorList, for any waiters, size of the ring and bounds:   *)
(* packets are read from the pages that the card put them in and make up   *)
(* the answer that was asked for, and no error of the card is forgotten.   *)
(*                                                                         *)
(* AssembledRight is not inductive.  What it needs is where the query of a *)
(* list can be: about to be sent, a message, the answer that the card      *)
(* sends and its packets, or a failure or a clear that is reported; in one *)
(* of these at most, as long as no second query was begun meanwhile.  The  *)
(* k-th packet on its way is then the k-th one that the buffer lacks.      *)
(***************************************************************************)
EXTENDS ErrorList, FiniteSetTheorems, SequenceTheorems, TLAPS

Packet == [id : Nat, k : Nat]
ListRecord ==
    [state : {"cleared", "started", "completed"}, buf : 0 .. MaxErrors, data : Seq(Packet),
     descs : Seq(Packet), val : {"ok", "io_error", "no_memory"}]

\* What the two directions of the channel carry.
Sent == [op : {"query", "clear", "destroy", "update"}, l : Lists, id : Nat]
Reported ==
    [op : {"exec", "context", "fatal", "packet", "failed", "cleared", "destroyed"}, l : Lists,
     id : Nat, k : Nat, total : 0 .. MaxErrors, val : {"ok", "io_error"}]

HostTypes ==
    /\ m_critical_error \in {"none", "exec", "context", "fatal"} /\ critical_save \in {"exec", "context"}
    /\ list \in [Lists -> ListRecord]
    /\ \A l \in Lists : Len(list[l].data) <= list[l].buf
    /\ m_head \in 0 .. RingPages - 1 /\ m_tail \in 0 .. RingPages - 1 /\ m_is_full \in BOOLEAN
    /\ objdb \in BOOLEAN
    /\ w \in [Waiter -> {"idle", "test", "asleep", "late", "take", "send", "query", "qsleep", "restore"}]
    /\ rec \in {"idle", "take", "send", "query", "qsleep", "failed"}
    /\ usr \in {"idle", "send", "query", "qsleep"}
    /\ asked \in [Lists -> Nat] /\ overlap \subseteq Lists /\ dropped \in BOOLEAN
    /\ queries \in Nat

CardTypes ==
    /\ page \in [0 .. RingPages - 1 -> Packet]
    /\ h2c \in Seq(Sent) /\ c2h \in Seq(Reported)
    /\ \A i \in PacketAt : c2h[i].total > 0
    /\ err \in [Lists -> 0 .. MaxErrors] /\ exists \in BOOLEAN
    /\ ans \in [l : Lists, id : Nat, k : Nat, total : 0 .. MaxErrors]
    /\ ans.id # 0 => ans.k < ans.total
    /\ credit \in Nat

\* The card writes its next packet behind those that are announced.
Ring == RingInStep /\ cardTail = (m_head + Cardinality(PacketAt)) % RingPages

\* A list that is gone on the card has no errors there, and no packet of it
\* follows the event that tells the host.
Destroyed ==
    /\ ~exists => err["cmd"] = 0 /\ ~(ans.id # 0 /\ ans.l = "cmd")
    /\ exists => objdb /\ \A i \in DOMAIN c2h : c2h[i].op # "destroyed"
    /\ \A j \in PacketAt : c2h[j].l = "cmd" =>
          objdb /\ \A i \in DOMAIN c2h : i < j => c2h[i].op # "destroyed"

\* Where messages about some lists are in a queue.
At(q, ops, L) == {i \in DOMAIN q : q[i].op \in ops /\ q[i].l \in L}

\* Where the query of a list can be.
Asking(l) == IF l = "ctx" THEN \E t \in Waiter : w[t] = "send" ELSE usr = "send"
Clearing(l) == l = "ctx" /\ rec = "send"
QueryAt(l) == At(h2c, {"query", "clear"}, {l})
EndAt(l) == At(c2h, {"failed", "cleared"}, {l})
PacketOf(l) == At(c2h, {"packet"}, {l})
Answering(l) == ans.id # 0 /\ ans.l = l

Queries(l) == Cardinality(QueryAt(l))
Ends(l) == Cardinality(EndAt(l))
Packets(l) == Cardinality(PacketOf(l))
Somewhere(l) == Queries(l) + Ends(l) + Packets(l) > 0 \/ Answering(l)

\* It is in one place, and the list is then started.
InOnePlace(l) ==
    /\ Asking(l) \/ Clearing(l) \/ Somewhere(l) => list[l].state = "started"
    /\ Asking(l) \/ Clearing(l) => ~Somewhere(l)
    /\ Asking(l) => ~Clearing(l)
    /\ l = "ctx" => \A t, u \in Waiter : w[t] = "send" /\ w[u] = "send" => t = u
    /\ Queries(l) + Ends(l) <= 1
    /\ Queries(l) + Ends(l) > 0 => Packets(l) = 0 /\ ~Answering(l)

\* The list is empty until the first packet of the answer.
Empty(l) == list[l].data = <<>> /\ list[l].descs = <<>> /\ list[l].buf = 0
EmptyBefore(l) ==
    /\ Asking(l) => Empty(l)
    /\ \A i \in QueryAt(l) : h2c[i].op = "query" => Empty(l) /\ h2c[i].id = asked[l]
    /\ \A i \in EndAt(l) : c2h[i].op = "failed" => Empty(l)

\* The packets that make up the answer under way: the buffer's, the announced ones
\* and those still to be sent.
Whole(l) == IF Answering(l) THEN ans.total ELSE Len(list[l].data) + Packets(l)
Arriving(l) ==
    Packets(l) > 0 \/ Answering(l) =>
        /\ list[l].descs = <<>>
        /\ \A k \in 1 .. Len(list[l].data) : list[l].data[k] = [id |-> asked[l], k |-> k]
        /\ list[l].buf \in {0, Whole(l)}
        /\ \A i \in PacketOf(l) :
              /\ c2h[i].id = asked[l] /\ c2h[i].total = Whole(l)
              /\ c2h[i].k = Len(list[l].data) + Cardinality(Below(PacketOf(l), i)) + 1
        /\ Answering(l) => ans.id = asked[l] /\ ans.k = Len(list[l].data) + Packets(l)

Completed(l) ==
    list[l].state = "completed" =>
        /\ list[l].val # "no_memory"
        /\ list[l].val = "ok" /\ list[l].descs # <<>> =>
              list[l].descs = [k \in 1 .. list[l].buf |-> [id |-> asked[l], k |-> k]]

Query(l) == InOnePlace(l) /\ EmptyBefore(l) /\ Arriving(l) /\ Completed(l)

\* Who has the error and still has to put it back.  A recover whose message is sent
\* has not: the message clears the card.
Holds ==
    \/ \E t \in Waiter : w[t] \in {"take", "send", "query", "qsleep", "restore"}
    \/ rec \in {"take", "send", "failed"}

Has(q, ops) == \E i \in DOMAIN q : q[i].op \in ops
Remembered ==
    err["ctx"] > 0 /\ ~dropped => broken \/ Holds \/ Has(c2h, {"exec", "context", "fatal"}) \/ Has(h2c, {"clear"})

\* What is cleared is the context's list.
ClearsContext == \A i \in DOMAIN h2c : h2c[i].op = "clear" => h2c[i].l = "ctx"

Types == HostTypes /\ CardTypes

\* The inductive invariant.
IInv == Types /\ Ring /\ Destroyed /\ (\A l \in Lists \ overlap : Query(l)) /\ Remembered /\ ClearsContext

-----------------------------------------------------------------------------
(***************************************************************************)
(* Queues, and positions in them                                           *)
(***************************************************************************)

\* A message is appended to a queue,
LEMMA AppendTo ==
    ASSUME NEW M, NEW q \in Seq(M), NEW m \in M, NEW r, r = Append(q, m)
    PROVE  /\ r \in Seq(M) /\ Len(q) + 1 \in DOMAIN r /\ r[Len(q) + 1] = m
           /\ \A i \in DOMAIN q : i \in DOMAIN r /\ r[i] = q[i] /\ i \in Nat /\ i < Len(q) + 1
           /\ \A i \in DOMAIN r : i \in DOMAIN q \/ i = Len(q) + 1
           /\ Len(q) \in Nat
OBVIOUS

\* the first one is taken from it,
LEMMA TailOf ==
    ASSUME NEW M, NEW q \in Seq(M), q # <<>>, NEW r, r = Tail(q)
    PROVE  /\ r \in Seq(M) /\ Head(q) \in M
           /\ 1 \in DOMAIN q /\ Head(q) = q[1]
           /\ \A i \in DOMAIN r : i \in Nat \ {0} /\ i + 1 \in DOMAIN q /\ r[i] = q[i + 1]
           /\ \A i \in DOMAIN q : i \in Nat \ {0} /\ (i # 1 => i - 1 \in DOMAIN r /\ r[i - 1] = q[i])
OBVIOUS

\* or one in the middle.
LEMMA RemovedFrom ==
    ASSUME NEW M, NEW q \in Seq(M), NEW n \in DOMAIN q, NEW r, r = RemoveAt(q, n)
    PROVE  /\ r \in Seq(M) /\ n \in Nat
           /\ \A i \in DOMAIN r : /\ i \in Nat /\ (i < n => i \in DOMAIN q /\ r[i] = q[i])
                                  /\ i >= n => i + 1 \in DOMAIN q /\ r[i] = q[i + 1]
           /\ \A i \in DOMAIN q : /\ i \in Nat /\ (i < n => i \in DOMAIN r /\ r[i] = q[i])
                                  /\ i > n => i - 1 \in DOMAIN r /\ r[i - 1] = q[i]
<1> DEFINE a == SubSeq(q, 1, n - 1)
           b == SubSeq(q, n + 1, Len(q))
<1>1. n \in 1 .. Len(q) /\ Len(q) \in Nat
  OBVIOUS
<1>2. a \in Seq(M) /\ Len(a) = n - 1 /\ \A i \in 1 .. n - 1 : a[i] = q[i]
  BY <1>1
<1>3. b \in Seq(M) /\ Len(b) = Len(q) - n /\ \A i \in 1 .. Len(q) - n : b[i] = q[n + i]
  BY <1>1
<1> HIDE DEF a, b
<1>4. r = a \o b
  BY DEF RemoveAt, a, b
<1>5. r \in Seq(M) /\ Len(r) = Len(q) - 1 /\ DOMAIN r = 1 .. Len(q) - 1
  BY <1>1, <1>2, <1>3, <1>4
<1>6. \A i \in 1 .. Len(q) - 1 : r[i] = IF i < n THEN q[i] ELSE q[i + 1]
  <2> TAKE i \in 1 .. Len(q) - 1
  <2>1. r[i] = IF i <= Len(a) THEN a[i] ELSE b[i - Len(a)]
    BY <1>1, <1>2, <1>3, <1>4
  <2>2. CASE i < n
    BY <2>1, <2>2, <1>1, <1>2
  <2>3. CASE ~(i < n)
    <3>1. i - Len(a) \in 1 .. Len(q) - n /\ n + (i - Len(a)) = i + 1
      BY <2>3, <1>1, <1>2
    <3>2. b[i - Len(a)] = q[n + (i - Len(a))]
      BY <3>1, <1>3
    <3> QED
      BY <3>1, <3>2, <2>1, <2>3, <1>1, <1>2
  <2> QED
    BY <2>2, <2>3
<1> QED
  BY <1>1, <1>5, <1>6

\* Positions in a queue are finitely many.
LEMMA FinitePositions ==
    ASSUME NEW M, NEW q \in Seq(M), NEW S \in SUBSET DOMAIN q
    PROVE  /\ IsFiniteSet(S) /\ Cardinality(S) \in Nat /\ S \subseteq Nat \ {0}
           /\ \A i : IsFiniteSet(Below(S, i)) /\ Cardinality(Below(S, i)) \in Nat
<1>1. IsFiniteSet(1 .. Len(q)) /\ S \subseteq 1 .. Len(q) /\ Len(q) \in Nat
  BY FS_Interval
<1>2. IsFiniteSet(S)
  BY <1>1, FS_Subset
<1>3. ASSUME NEW i PROVE IsFiniteSet(Below(S, i)) /\ Cardinality(Below(S, i)) \in Nat
  BY <1>2, FS_Subset, FS_CardinalityType DEF Below
<1> QED
  BY <1>1, <1>2, <1>3, FS_CardinalityType

\* A position behind the others is counted last.
LEMMA AddLast ==
    ASSUME NEW S, IsFiniteSet(S), NEW n \in Nat, \A i \in S : i \in Nat /\ i < n
    PROVE  /\ Cardinality(S) \in Nat /\ Cardinality(S \cup {n}) = Cardinality(S) + 1
           /\ Below(S \cup {n}, n) = S
           /\ \A i \in S : Below(S \cup {n}, i) = Below(S, i)
<1>1. n \notin S
  OBVIOUS
<1>2. Cardinality(S \cup {n}) = Cardinality(S) + 1
  BY <1>1, FS_AddElement
<1>3. Below(S \cup {n}, n) = S
  BY <1>1 DEF Below
<1>4. ASSUME NEW i \in S PROVE Below(S \cup {n}, i) = Below(S, i)
  BY DEF Below
<1> QED
  BY <1>2, <1>3, <1>4, FS_CardinalityType

\* T is S, one place further to the front.
Shifted(S, T) ==
    /\ S \subseteq Nat \ {0} /\ T \subseteq Nat \ {0}
    /\ \A i \in T : i + 1 \in S
    /\ \A i \in S : i # 1 => i - 1 \in T

LEMMA ShiftCount ==
    ASSUME NEW S, NEW T, IsFiniteSet(S), IsFiniteSet(T), Shifted(S, T)
    PROVE  /\ Cardinality(S) \in Nat /\ Cardinality(T) \in Nat
           /\ Cardinality(S) = Cardinality(T) + IF 1 \in S THEN 1 ELSE 0
<1>1. Cardinality(S \ {1}) = Cardinality(T)
  <2> DEFINE f == [i \in T |-> i + 1]
  <2>1. \A i \in T : i \in Nat \ {0} /\ i + 1 \in S \ {1}
    BY DEF Shifted
  <2>2. \A j \in S \ {1} : j - 1 \in T /\ (j - 1) + 1 = j
    BY DEF Shifted
  <2>3. f \in Bijection(T, S \ {1})
    BY <2>1, <2>2 DEF Bijection, Injection, Surjection, IsInjective
  <2> QED
    BY <2>3, FS_Bijection DEF ExistsBijection
<1>2. Cardinality(S) \in Nat /\ Cardinality(S \ {1}) = IF 1 \in S THEN Cardinality(S) - 1 ELSE Cardinality(S)
  BY FS_RemoveElement, FS_CardinalityType
<1> QED
  BY <1>1, <1>2, FS_CardinalityType

\* What is taken from the front is before everything that is left.
LEMMA ShiftBelow ==
    ASSUME NEW S, NEW T, IsFiniteSet(S), IsFiniteSet(T), Shifted(S, T), NEW i \in T
    PROVE  /\ Cardinality(Below(T, i)) \in Nat
           /\ Cardinality(Below(S, i + 1)) = Cardinality(Below(T, i)) + IF 1 \in S THEN 1 ELSE 0
<1>1. Shifted(Below(S, i + 1), Below(T, i)) /\ (1 \in S <=> 1 \in Below(S, i + 1))
  <2> DEFINE U == Below(S, i + 1)
             V == Below(T, i)
  <2>1. i \in Nat /\ i > 0
    BY DEF Shifted
  <2>2. U \subseteq Nat \ {0} /\ V \subseteq Nat \ {0} /\ (1 \in S <=> 1 \in U)
    <3>1. 1 < i + 1
      BY <2>1
    <3>2. 1 \in S <=> 1 \in U
      BY <3>1 DEF Below
    <3> QED
      BY <3>2 DEF Shifted, Below
  <2>3. \A j \in V : j + 1 \in U
    BY <2>1 DEF Shifted, Below
  <2>4. \A j \in U : j # 1 => j - 1 \in V
    BY <2>1 DEF Shifted, Below
  <2> HIDE DEF U, V
  <2>5. Shifted(U, V)
    BY <2>2, <2>3, <2>4 DEF Shifted
  <2> QED
    BY <2>2, <2>5 DEF U, V
<1>2. IsFiniteSet(Below(S, i + 1)) /\ IsFiniteSet(Below(T, i))
  BY FS_Subset DEF Below
<1> QED
  BY <1>1, <1>2, ShiftCount

\* There are fewer positions before one than there are in all.
LEMMA FewerBelow ==
    ASSUME NEW S, IsFiniteSet(S), S \subseteq Nat, NEW i \in S
    PROVE  /\ Cardinality(Below(S, i)) \in Nat /\ Cardinality(S) \in Nat
           /\ Cardinality(Below(S, i)) < Cardinality(S)
<1>1. Below(S, i) \subseteq S \ {i} /\ IsFiniteSet(S \ {i})
  BY FS_RemoveElement DEF Below
<1>2. Cardinality(S \ {i}) = Cardinality(S) - 1 /\ Cardinality(S) \in Nat
  BY FS_RemoveElement, FS_CardinalityType
<1>3. IsFiniteSet(Below(S, i)) /\ Cardinality(Below(S, i)) <= Cardinality(S \ {i})
  BY <1>1, FS_Subset
<1> QED
  BY <1>2, <1>3, FS_CardinalityType

\* The messages at T of r are those at S of q, in the same order.
Carried(q, S, r, T) ==
    /\ Cardinality(T) = Cardinality(S)
    /\ \A i \in T : \E j \in S : r[i] = q[j] /\ Cardinality(Below(T, i)) = Cardinality(Below(S, j))

\* A message m is added behind them,
OneMore(q, S, r, T, m) ==
    /\ Cardinality(T) = Cardinality(S) + 1
    /\ \A i \in T : \/ r[i] = m /\ Cardinality(Below(T, i)) = Cardinality(S)
                    \/ \E j \in S : r[i] = q[j] /\ Cardinality(Below(T, i)) = Cardinality(Below(S, j))

\* or the first one, m, is gone.
OneLess(q, S, r, T, m) ==
    /\ Cardinality(S) = Cardinality(T) + 1
    /\ \E i \in S : q[i] = m /\ Cardinality(Below(S, i)) = 0
    /\ \A i \in T : \E j \in S : r[i] = q[j] /\ Cardinality(Below(S, j)) = Cardinality(Below(T, i)) + 1

\* How many messages there are.
LEMMA Counts ==
    ASSUME NEW M, NEW q \in Seq(M), NEW ops, NEW L
    PROVE  /\ IsFiniteSet(At(q, ops, L)) /\ Cardinality(At(q, ops, L)) \in Nat
           /\ At(q, ops, L) \subseteq Nat \ {0}
           /\ (Cardinality(At(q, ops, L)) = 0 <=> At(q, ops, L) = {})
           /\ \A i : Cardinality(Below(At(q, ops, L), i)) \in Nat
<1>1. At(q, ops, L) \in SUBSET DOMAIN q
  BY DEF At
<1> QED
  BY <1>1, FinitePositions, FS_EmptySet

\* A message that is appended is the last one of its kind, and one of no other.
LEMMA Appended ==
    ASSUME NEW M, NEW q \in Seq(M), NEW m \in M, NEW r, r = Append(q, m), NEW ops, NEW L
    PROVE  /\ ~(m.op \in ops /\ m.l \in L) => Carried(q, At(q, ops, L), r, At(r, ops, L))
           /\ m.op \in ops /\ m.l \in L => OneMore(q, At(q, ops, L), r, At(r, ops, L), m)
<1> DEFINE n == Len(q) + 1
           S == At(q, ops, L)
           T == At(r, ops, L)
<1>1. /\ n \in DOMAIN r /\ r[n] = m /\ n \in Nat
      /\ \A i \in DOMAIN q : i \in DOMAIN r /\ r[i] = q[i] /\ i \in Nat /\ i < n
      /\ \A i \in DOMAIN r : i \in DOMAIN q \/ i = n
  BY AppendTo
<1> HIDE DEF n
<1>2. ASSUME ~(m.op \in ops /\ m.l \in L) PROVE Carried(q, S, r, T)
  <2>1. S = T
    BY <1>1, <1>2 DEF At
  <2>2. \A i \in S : r[i] = q[i]
    BY <1>1 DEF At
  <2> QED
    BY <2>1, <2>2 DEF Carried
<1>3. ASSUME m.op \in ops, m.l \in L PROVE OneMore(q, S, r, T, m)
  <2>1. T = S \cup {n}
    BY <1>1, <1>3 DEF At
  <2>2. \A i \in S : i \in Nat /\ i < n /\ r[i] = q[i]
    BY <1>1 DEF At
  <2>3. IsFiniteSet(S)
    BY Counts
  <2> HIDE DEF S, T
  <2>4. Cardinality(T) = Cardinality(S) + 1 /\ Below(T, n) = S /\ \A i \in S : Below(T, i) = Below(S, i)
    <3>1. n \in Nat /\ \A i \in S : i \in Nat /\ i < n
      BY <1>1, <2>2
    <3>2. /\ Cardinality(S \cup {n}) = Cardinality(S) + 1 /\ Below(S \cup {n}, n) = S
          /\ \A i \in S : Below(S \cup {n}, i) = Below(S, i)
      BY <2>3, <3>1, AddLast
    <3> QED
      BY <2>1, <3>2
  <2> QED
    BY <2>1, <2>2, <2>4, <1>1 DEF OneMore
<1> QED
  BY <1>2, <1>3 DEF S, T

\* The message that is taken is the first one of its kind.
LEMMA Taken ==
    ASSUME NEW M, NEW q \in Seq(M), q # <<>>, NEW r, r = Tail(q), NEW ops, NEW L
    PROVE  /\ ~(Head(q).op \in ops /\ Head(q).l \in L) => Carried(q, At(q, ops, L), r, At(r, ops, L))
           /\ Head(q).op \in ops /\ Head(q).l \in L => OneLess(q, At(q, ops, L), r, At(r, ops, L), Head(q))
<1> DEFINE S == At(q, ops, L)
           T == At(r, ops, L)
<1>1. /\ r \in Seq(M) /\ 1 \in DOMAIN q /\ Head(q) = q[1]
      /\ \A i \in DOMAIN r : i \in Nat \ {0} /\ i + 1 \in DOMAIN q /\ r[i] = q[i + 1]
      /\ \A i \in DOMAIN q : i \in Nat \ {0} /\ (i # 1 => i - 1 \in DOMAIN r /\ r[i - 1] = q[i])
  BY TailOf
<1>2. IsFiniteSet(S) /\ IsFiniteSet(T)
  BY <1>1, Counts
<1>3. Shifted(S, T) /\ (1 \in S <=> Head(q).op \in ops /\ Head(q).l \in L)
  <2>1. S \subseteq Nat \ {0} /\ T \subseteq Nat \ {0} /\ (1 \in S <=> Head(q).op \in ops /\ Head(q).l \in L)
    BY <1>1 DEF At
  <2>2. \A i \in T : i + 1 \in S
    BY <1>1 DEF At
  <2>3. \A i \in S : i # 1 => i - 1 \in T
    BY <1>1 DEF At
  <2> QED
    BY <2>1, <2>2, <2>3 DEF Shifted
<1>4. \A i \in T : i \in Nat /\ i + 1 \in S /\ r[i] = q[i + 1]
  BY <1>1 DEF At
<1> HIDE DEF S, T
<1>5. /\ Cardinality(S) = Cardinality(T) + IF 1 \in S THEN 1 ELSE 0
      /\ Cardinality(T) \in Nat
  BY <1>2, <1>3, ShiftCount
<1>6. \A i \in T : /\ Cardinality(Below(T, i)) \in Nat
                   /\ Cardinality(Below(S, i + 1)) = Cardinality(Below(T, i)) + IF 1 \in S THEN 1 ELSE 0
  BY <1>2, <1>3, ShiftBelow
<1>7. Cardinality(Below(S, 1)) = 0
  <2>1. \A j \in S : ~(j < 1)
    BY <1>3 DEF Shifted
  <2>2. Below(S, 1) = {}
    BY <2>1 DEF Below
  <2> QED
    BY <2>2, FS_EmptySet
<1>8. ASSUME 1 \in S PROVE OneLess(q, S, r, T, Head(q))
  <2>1. ASSUME NEW i \in T
        PROVE  /\ i + 1 \in S /\ r[i] = q[i + 1]
               /\ Cardinality(Below(S, i + 1)) = Cardinality(Below(T, i)) + 1
    BY <1>4, <1>6, <1>8
  <2> QED
    BY <2>1, <1>1, <1>5, <1>7, <1>8 DEF OneLess
<1>9. ASSUME 1 \notin S PROVE Carried(q, S, r, T)
  <2>1. Cardinality(T) = Cardinality(S)
    BY <1>5, <1>9
  <2>2. ASSUME NEW i \in T
        PROVE  i + 1 \in S /\ r[i] = q[i + 1] /\ Cardinality(Below(T, i)) = Cardinality(Below(S, i + 1))
    <3>1. Cardinality(Below(S, i + 1)) = Cardinality(Below(T, i)) + 0 /\ Cardinality(Below(T, i)) \in Nat
      BY <1>6, <1>9
    <3>2. Cardinality(Below(T, i)) = Cardinality(Below(S, i + 1))
      BY <3>1
    <3> QED
      BY <3>2, <1>4
  <2> QED
    BY <2>1, <2>2 DEF Carried
<1> QED
  BY <1>3, <1>8, <1>9 DEF S, T

\* As many, and no other ones.
AsMany(q, S, r, T) == Cardinality(T) = Cardinality(S) /\ \A i \in T : \E j \in S : r[i] = q[j]

\* One that is taken from the middle leaves the others.
LEMMA Removed ==
    ASSUME NEW M, NEW q \in Seq(M), NEW n \in DOMAIN q, NEW r, r = RemoveAt(q, n), NEW ops, NEW L
    PROVE  /\ ~(q[n].op \in ops /\ q[n].l \in L) => AsMany(q, At(q, ops, L), r, At(r, ops, L))
           /\ q[n].op \in ops /\ q[n].l \in L => Cardinality(At(q, ops, L)) = Cardinality(At(r, ops, L)) + 1
<1> DEFINE S == At(q, ops, L)
           T == At(r, ops, L)
           f == [i \in T |-> IF i < n THEN i ELSE i + 1]
<1>1. /\ r \in Seq(M) /\ n \in Nat
      /\ \A i \in DOMAIN r : /\ i \in Nat /\ (i < n => i \in DOMAIN q /\ r[i] = q[i])
                             /\ i >= n => i + 1 \in DOMAIN q /\ r[i] = q[i + 1]
      /\ \A i \in DOMAIN q : /\ i \in Nat /\ (i < n => i \in DOMAIN r /\ r[i] = q[i])
                             /\ i > n => i - 1 \in DOMAIN r /\ r[i - 1] = q[i]
  BY RemovedFrom
<1>2. IsFiniteSet(S) /\ IsFiniteSet(T) /\ Cardinality(S) \in Nat /\ Cardinality(T) \in Nat
  BY <1>1, Counts
<1>3. ASSUME NEW i \in T PROVE i \in Nat /\ f[i] \in S \ {n} /\ r[i] = q[f[i]]
  <2>1. i \in DOMAIN r /\ i \in Nat /\ r[i].op \in ops /\ r[i].l \in L
    BY <1>1 DEF At
  <2>2. CASE i < n
    BY <2>1, <2>2, <1>1 DEF At
  <2>3. CASE i >= n
    <3>1. i + 1 \in DOMAIN q /\ r[i] = q[i + 1] /\ i + 1 # n /\ f[i] = i + 1
      BY <2>1, <2>3, <1>1
    <3> QED
      BY <2>1, <3>1 DEF At
  <2> QED
    BY <2>1, <2>2, <2>3, <1>1
<1>4. ASSUME NEW j \in S \ {n} PROVE \E i \in T : f[i] = j
  <2>1. j \in DOMAIN q /\ j \in Nat /\ q[j].op \in ops /\ q[j].l \in L /\ j # n
    BY <1>1 DEF At
  <2>2. CASE j < n
    <3>1. j \in T
      BY <2>1, <2>2, <1>1 DEF At
    <3> QED
      BY <3>1, <2>2
  <2>3. CASE j > n
    <3>1. j - 1 \in T /\ j - 1 >= n /\ (j - 1) + 1 = j
      BY <2>1, <2>3, <1>1 DEF At
    <3>2. f[j - 1] = j
      BY <3>1, <1>1, <2>1
    <3> QED
      BY <3>1, <3>2
  <2> QED
    BY <2>1, <2>2, <2>3, <1>1
<1>5. \A i, j \in T : f[i] = f[j] => i = j
  BY <1>1, <1>3
<1>6. n \in S <=> q[n].op \in ops /\ q[n].l \in L
  BY DEF At
<1> HIDE DEF S, T
<1>7. f \in Bijection(T, S \ {n})
  <2>1. f \in [T -> S \ {n}]
    BY <1>3
  <2> HIDE DEF f
  <2> QED
    BY <2>1, <1>4, <1>5 DEF Bijection, Injection, Surjection, IsInjective
<1>8. Cardinality(S \ {n}) = Cardinality(T)
  BY <1>2, <1>7, FS_Bijection DEF ExistsBijection
<1>9. Cardinality(S \ {n}) = IF n \in S THEN Cardinality(S) - 1 ELSE Cardinality(S)
  BY <1>2, FS_RemoveElement
<1>10. Cardinality(S) = Cardinality(T) + IF n \in S THEN 1 ELSE 0
  BY <1>2, <1>8, <1>9
<1> HIDE DEF f
<1>11. \A i \in T : \E j \in S : r[i] = q[j]
  BY <1>3
<1>12. ASSUME n \notin S PROVE AsMany(q, S, r, T)
  <2>1. Cardinality(S) = Cardinality(T)
    BY <1>2, <1>10, <1>12
  <2> QED
    BY <2>1, <1>11 DEF AsMany
<1>13. ASSUME n \in S PROVE Cardinality(S) = Cardinality(T) + 1
  BY <1>10, <1>13
<1> QED
  BY <1>6, <1>12, <1>13 DEF S, T

-----------------------------------------------------------------------------
(***************************************************************************)
(* The ring                                                                *)
(***************************************************************************)

\* The remainder, for what is less than two rings.
LEMMA ModWrap ==
    ASSUME NEW x \in 0 .. 2 * RingPages - 1
    PROVE  x % RingPages = IF x < RingPages THEN x ELSE x - RingPages
<1> USE ErrorsAssumption
<1>1. CASE x < RingPages
  BY <1>1
<1>2. CASE x >= RingPages
  <2>1. x - RingPages \in 0 .. RingPages - 1
    BY <1>2
  <2>2. (x - RingPages) % RingPages = x - RingPages
    BY <2>1
  <2>3. x % RingPages = (x - RingPages) % RingPages
    BY <1>2
  <2> QED
    BY <1>2, <2>2, <2>3
<1> QED
  BY <1>1, <1>2

\* The page that is a places behind h.
Slot(h, a) == (h + a) % RingPages

LEMMA Slots ==
    ASSUME NEW h \in 0 .. RingPages - 1, NEW a \in 0 .. RingPages
    PROVE  /\ Slot(h, a) \in 0 .. RingPages - 1 /\ Inc(h) \in 0 .. RingPages - 1
           /\ Slot(h, 0) = h
           /\ a < RingPages => Slot(Inc(h), a) = Slot(h, a + 1) /\ Inc(Slot(h, a)) = Slot(h, a + 1)
           /\ \A b \in 0 .. RingPages - 1 : a < b => Slot(h, a) # Slot(h, b)
<1> USE ErrorsAssumption
<1>1. \A x \in 0 .. 2 * RingPages - 1 : x % RingPages = IF x < RingPages THEN x ELSE x - RingPages
  BY ModWrap
<1>2. /\ Slot(h, a) = IF h + a < RingPages THEN h + a ELSE h + a - RingPages
      /\ Slot(h, 0) = h
      /\ Inc(h) = IF h + 1 < RingPages THEN h + 1 ELSE h + 1 - RingPages
  BY <1>1 DEF Slot, Inc
<1>3. ASSUME a < RingPages PROVE Slot(Inc(h), a) = Slot(h, a + 1) /\ Inc(Slot(h, a)) = Slot(h, a + 1)
  <2>1. Inc(h) \in 0 .. RingPages - 1 /\ Slot(h, a) \in 0 .. RingPages - 1
    BY <1>2
  <2>2. Slot(h, a + 1) = IF h + a + 1 < RingPages THEN h + a + 1 ELSE h + a + 1 - RingPages
    BY <1>1, <1>3 DEF Slot
  <2>3. Inc(Slot(h, a)) = IF Slot(h, a) + 1 < RingPages THEN Slot(h, a) + 1 ELSE Slot(h, a) + 1 - RingPages
    BY <1>1, <2>1 DEF Inc
  <2>4. Slot(Inc(h), a) = IF Inc(h) + a < RingPages THEN Inc(h) + a ELSE Inc(h) + a - RingPages
    BY <1>1, <1>3, <2>1 DEF Slot
  <2> QED
    BY <1>2, <1>3, <2>1, <2>2, <2>3, <2>4
<1>4. ASSUME NEW b \in 0 .. RingPages - 1, a < b PROVE Slot(h, a) # Slot(h, b)
  <2>1. Slot(h, b) = IF h + b < RingPages THEN h + b ELSE h + b - RingPages
    BY <1>1 DEF Slot
  <2> QED
    BY <1>2, <1>4, <2>1
<1> QED
  BY <1>2, <1>3, <1>4

-----------------------------------------------------------------------------
(***************************************************************************)
(* Types                                                                   *)
(***************************************************************************)

\* The list that is started, or ended.
LEMMA ListStarted ==
    ASSUME HostTypes, NEW l \in Lists, startQuery(l) \/ clear_startQuery(l)
    PROVE  /\ list' \in [Lists -> ListRecord] /\ (\A x \in Lists : Len(list'[x].data) <= list'[x].buf)
           /\ overlap' \subseteq Lists
<1>1. /\ list \in [Lists -> ListRecord] /\ \A x \in Lists : Len(list[x].data) <= list[x].buf
      /\ overlap \subseteq Lists
  BY DEF HostTypes
<1>2. overlap' \subseteq Lists
  BY <1>1 DEF startQuery, clear_startQuery
<1>3. CASE startQuery(l)
  <2> DEFINE r == [list[l] EXCEPT !.state = "started", !.val = "ok"]
  <2>1. list' = [list EXCEPT ![l] = r]
    BY <1>1, <1>3 DEF startQuery
  <2>2. list[l] \in ListRecord
    BY <1>1
  <2>3. r \in ListRecord /\ r.data = list[l].data /\ r.buf = list[l].buf
    BY <2>2 DEF ListRecord
  <2> HIDE DEF r
  <2> QED
    BY <2>1, <2>3, <1>1, <1>2
<1>4. CASE clear_startQuery(l)
  <2> DEFINE r == [Cleared EXCEPT !.state = "started"]
  <2>1. list' = [list EXCEPT ![l] = r]
    BY <1>4 DEF clear_startQuery
  <2>2. Cleared \in ListRecord
    BY ErrorsAssumption DEF Cleared, ListRecord
  <2>3. r \in ListRecord
    BY <2>2 DEF ListRecord
  <2>4. r.data = <<>> /\ r.buf = 0
    BY DEF Cleared
  <2> HIDE DEF r
  <2> QED
    BY <2>1, <2>3, <2>4, <1>1, <1>2
<1> QED
  BY <1>3, <1>4

\* Who is woken is where he can be.
LEMMA Woken ==
    ASSUME HostTypes, Notify
    PROVE  /\ w' \in [Waiter -> {"idle", "test", "asleep", "late", "take", "send", "query", "qsleep", "restore"}]
           /\ rec' \in {"idle", "take", "send", "query", "qsleep", "failed"}
           /\ usr' \in {"idle", "send", "query", "qsleep"}
           /\ \A t \in Waiter : w'[t] = "send" <=> w[t] = "send"
           /\ (rec' = "send" <=> rec = "send") /\ (usr' = "send" <=> usr = "send")
<1>1. rec' \in {"idle", "take", "send", "query", "qsleep", "failed"} /\ (rec' = "send" <=> rec = "send")
  <2>1. rec' = Wake(rec) /\ rec \in {"idle", "take", "send", "query", "qsleep", "failed"}
    BY DEF Notify, HostTypes
  <2> QED
    BY <2>1 DEF Wake
<1>2. usr' \in {"idle", "send", "query", "qsleep"} /\ (usr' = "send" <=> usr = "send")
  <2>1. usr' = Wake(usr) /\ usr \in {"idle", "send", "query", "qsleep"}
    BY DEF Notify, HostTypes
  <2> QED
    BY <2>1 DEF Wake
<1>3. ASSUME NEW t \in Waiter
      PROVE  /\ Wake(w[t]) \in {"idle", "test", "asleep", "late", "take", "send", "query", "qsleep", "restore"}
             /\ Wake(w[t]) = "send" <=> w[t] = "send"
  <2>1. w[t] \in {"idle", "test", "asleep", "late", "take", "send", "query", "qsleep", "restore"}
    BY DEF HostTypes
  <2> QED
    BY <2>1 DEF Wake
<1>4. w' = [t \in Waiter |-> Wake(w[t])]
  BY DEF Notify
<1> QED
  BY <1>1, <1>2, <1>3, <1>4

\* A packet has its place in the buffer, or none.
LEMMA PacketTypes ==
    ASSUME HostTypes, NEW l \in Lists, NEW packet \in Packet, NEW total \in 1 .. MaxErrors,
           appendErrorListPacket(l, packet, total)
    PROVE  /\ list' \in [Lists -> ListRecord] /\ (\A x \in Lists : Len(list'[x].data) <= list'[x].buf)
           /\ UNCHANGED threadVars \/ Notify
<1> DEFINE r == list[l]
           buf == IF r.buf = 0 THEN total ELSE r.buf
           new == [r EXCEPT !.buf = buf, !.data = Append(@, packet)]
           ended == [r EXCEPT !.buf = buf]
<1> USE ErrorsAssumption
<1>1. r \in ListRecord /\ Len(r.data) <= r.buf /\ Len(r.data) \in Nat
  BY DEF HostTypes, ListRecord
<1>2. buf \in 1 .. MaxErrors /\ Len(r.data) <= buf
  BY <1>1 DEF ListRecord
<1>3. /\ ended \in ListRecord /\ ended.data = r.data /\ ended.buf = buf
      /\ new \in ListRecord /\ new.buf = buf /\ Len(new.data) = Len(r.data) + 1
  <2>1. r.data \in Seq(Packet) /\ Append(r.data, packet) \in Seq(Packet) /\ buf \in 0 .. MaxErrors
    BY <1>1, <1>2 DEF ListRecord
  <2>2. Len(Append(r.data, packet)) = Len(r.data) + 1
    BY <2>1
  <2> HIDE DEF r, buf
  <2>3. ended \in ListRecord /\ ended.data = r.data /\ ended.buf = buf
    BY <1>1, <2>1 DEF ListRecord
  <2>4. new \in ListRecord /\ new.buf = buf /\ new.data = Append(r.data, packet)
    BY <1>1, <2>1 DEF ListRecord
  <2> QED
    BY <2>2, <2>3, <2>4
<1>4. CASE UNCHANGED <<list, threadVars>>
  BY <1>4 DEF HostTypes, threadVars
<1>5. CASE Len(r.data) + 1 > buf /\ completeQuery(l, ended, "no_memory")
  <2>1. list' = [list EXCEPT ![l] = [ended EXCEPT !.state = "completed", !.val = "no_memory", !.descs = @]]
    BY <1>5 DEF completeQuery
  <2>2. Notify
    BY <1>5 DEF completeQuery
  <2> HIDE DEF ended
  <2>3. [ended EXCEPT !.state = "completed", !.val = "no_memory", !.descs = @] \in ListRecord
    BY <1>3 DEF ListRecord
  <2>4. [ended EXCEPT !.state = "completed", !.val = "no_memory", !.descs = @].data = ended.data
        /\ [ended EXCEPT !.state = "completed", !.val = "no_memory", !.descs = @].buf = ended.buf
    BY <1>3 DEF ListRecord
  <2> QED
    BY <2>1, <2>2, <2>3, <2>4, <1>2, <1>3 DEF HostTypes
<1>6. CASE Len(r.data) + 1 <= buf /\ completeQuery(l, new, "ok")
  <2> DEFINE done == [new EXCEPT !.state = "completed", !.val = "ok", !.descs = @ \o new.data]
  <2>1. list' = [list EXCEPT ![l] = done] /\ Notify
    BY <1>6 DEF completeQuery
  <2> HIDE DEF new
  <2>2. done \in ListRecord /\ done.data = new.data /\ done.buf = new.buf
    <3>1. new.descs \in Seq(Packet) /\ new.data \in Seq(Packet)
      BY <1>3 DEF ListRecord
    <3>2. new.descs \o new.data \in Seq(Packet)
      BY <3>1
    <3> QED
      BY <1>3, <3>2 DEF ListRecord
  <2> HIDE DEF done
  <2> QED
    BY <2>1, <2>2, <1>2, <1>3, <1>6 DEF HostTypes
<1>7. CASE Len(r.data) + 1 <= buf /\ list' = [list EXCEPT ![l] = new] /\ UNCHANGED threadVars
  <2> HIDE DEF new
  <2> QED
    BY <1>7, <1>2, <1>3 DEF HostTypes
<1> QED
  BY <1>1, <1>2, <1>4, <1>5, <1>6, <1>7 DEF appendErrorListPacket

\* What the response thread has in its hand.
LEMMA EventTypes ==
    ASSUME Types, c2h # <<>>
    PROVE  /\ Head(c2h) \in Reported /\ Head(c2h).l \in Lists /\ Head(c2h).val \in {"ok", "io_error"}
           /\ Head(c2h).op = "packet" => Head(c2h).total \in 1 .. MaxErrors
           /\ page[m_head] \in Packet
<1>1. c2h \in Seq(Reported) /\ \A i \in PacketAt : c2h[i].total > 0
  BY DEF Types, CardTypes
<1>2. Head(c2h) \in Reported /\ 1 \in DOMAIN c2h /\ Head(c2h) = c2h[1]
  BY <1>1, TailOf
<1>3. Head(c2h).op = "packet" => Head(c2h).total > 0
  BY <1>1, <1>2 DEF PacketAt
<1>4. Head(c2h).l \in Lists /\ Head(c2h).val \in {"ok", "io_error"} /\ Head(c2h).total \in 0 .. MaxErrors
  BY <1>2 DEF Reported
<1>5. page[m_head] \in Packet
  BY DEF Types, CardTypes, HostTypes
<1> QED
  BY <1>2, <1>3, <1>4, <1>5, ErrorsAssumption

\* A list whose query ends without a packet.
LEMMA EndedTypes ==
    ASSUME HostTypes, NEW l \in Lists, NEW val \in {"ok", "io_error"}, completeQuery(l, list[l], val)
    PROVE  list' \in [Lists -> ListRecord] /\ (\A x \in Lists : Len(list'[x].data) <= list'[x].buf) /\ Notify
<1> DEFINE r == list[l]
           done == [r EXCEPT !.state = "completed", !.val = val, !.descs = IF val = "ok" THEN @ \o r.data ELSE @]
<1>1. list' = [list EXCEPT ![l] = done] /\ Notify
  BY DEF completeQuery
<1>2. r \in ListRecord /\ \A x \in Lists : list[x] \in ListRecord /\ Len(list[x].data) <= list[x].buf
  BY DEF HostTypes
<1>3. r.descs \in Seq(Packet) /\ r.data \in Seq(Packet)
  BY <1>2 DEF ListRecord
<1>4. r.descs \o r.data \in Seq(Packet)
  BY <1>3
<1> HIDE DEF r
<1>5. done \in ListRecord /\ done.data = r.data /\ done.buf = r.buf
  BY <1>2, <1>3, <1>4 DEF ListRecord
<1> HIDE DEF done
<1> QED
  BY <1>1, <1>2, <1>5 DEF HostTypes, r

\* A step keeps the types of what the host has.
LEMMA HostNext == ASSUME Types, Next PROVE HostTypes'
<1> USE DEF Types, ringVars, cardVars, threadVars, histVars, boundVars, Others, Rest, Host
<1>1. ASSUME NEW t \in Waiter, wait_start(t) \/ wait_test(t) \/ wait_timeout(t) \/ wait_late(t) \/ wait_query(t) \/ wait_restore(t)
      PROVE  HostTypes'
  <2>1. /\ m_critical_error' \in {"none", "exec", "context", "fatal"} /\ dropped' \in BOOLEAN
        /\ UNCHANGED <<list, ringVars, objdb, critical_save, rec, usr, asked, overlap, queries>>
    BY <1>1 DEF HostTypes, wait_start, wait_test, wait_timeout, wait_late, wait_query, wait_restore
  <2>2. PICK x \in {"idle", "test", "asleep", "late", "take", "query", "qsleep", "restore"} : w' = [w EXCEPT ![t] = x]
    BY <1>1 DEF wait_start, wait_test, wait_timeout, wait_late, wait_query, wait_restore
  <2> QED
    BY <2>1, <2>2 DEF HostTypes
<1>2. ASSUME NEW t \in Waiter, wait_startQuery(t) PROVE HostTypes'
  <2>1. /\ list' \in [Lists -> ListRecord] /\ (\A x \in Lists : Len(list'[x].data) <= list'[x].buf)
        /\ overlap' \subseteq Lists
    BY <1>2, ListStarted DEF wait_startQuery, Lists
  <2> QED
    BY <1>2, <2>1 DEF HostTypes, wait_startQuery
<1>3. ASSUME NEW t \in Waiter, wait_send(t) PROVE HostTypes'
  <2>1. /\ UNCHANGED <<m_critical_error, list, ringVars, objdb, critical_save, rec, usr, overlap>>
        /\ dropped' \in BOOLEAN /\ queries' \in Nat /\ asked' \in [Lists -> Nat]
    <3>1. /\ UNCHANGED <<m_critical_error, list, ringVars, objdb, critical_save, rec, usr, overlap>> /\ dropped' \in BOOLEAN
      BY <1>3 DEF HostTypes, wait_send
    <3>2. queries' \in Nat /\ asked' \in [Lists -> Nat]
      <4>1. queries \in Nat /\ asked \in [Lists -> Nat] /\ "ctx" \in Lists
        BY DEF HostTypes, Lists
      <4>2. \/ queries' = queries + 1 /\ asked' = [asked EXCEPT !["ctx"] = queries + 1]
            \/ UNCHANGED <<asked, queries>>
        BY <1>3 DEF wait_send, sendQueryErrorList, send_fails
      <4> QED
        BY <4>1, <4>2
    <3> QED
      BY <3>1, <3>2
  <2>2. w' = [w EXCEPT ![t] = "query"] \/ w' = [w EXCEPT ![t] = "idle"]
    BY <1>3 DEF wait_send
  <2> QED
    BY <2>1, <2>2 DEF HostTypes
<1>4. ASSUME recover \/ recover_query \/ recover_failed \/ list_query PROVE HostTypes'
  BY <1>4 DEF HostTypes, recover, recover_query, recover_failed, list_query
<1>5. ASSUME recover_startQuery PROVE HostTypes'
  <2>1. /\ list' \in [Lists -> ListRecord] /\ (\A x \in Lists : Len(list'[x].data) <= list'[x].buf)
        /\ overlap' \subseteq Lists
    BY <1>5, ListStarted DEF recover_startQuery, Lists
  <2> QED
    BY <1>5, <2>1 DEF HostTypes, recover_startQuery
<1>6. ASSUME list_startQuery PROVE HostTypes'
  <2>1. /\ list' \in [Lists -> ListRecord] /\ (\A x \in Lists : Len(list'[x].data) <= list'[x].buf)
        /\ overlap' \subseteq Lists
    BY <1>6, ListStarted DEF list_startQuery, Lists
  <2> QED
    BY <1>6, <2>1 DEF HostTypes, list_startQuery
<1>7. ASSUME recover_send \/ list_send \/ list_destroy PROVE HostTypes'
  BY <1>7 DEF HostTypes, recover_send, list_send, list_destroy, sendQueryErrorList, send_fails
<1>8. ASSUME critical_event PROVE HostTypes'
  <2>1. m_critical_error' \in {"none", "exec", "context", "fatal"}
    BY <1>8 DEF critical_event, Receive, HostTypes
  <2> QED
    BY <1>8, <2>1, Woken DEF HostTypes, critical_event
<1>9. ASSUME error_packet PROVE HostTypes'
  <2>1. /\ Head(c2h).l \in Lists /\ Head(c2h).total \in 1 .. MaxErrors /\ page[m_head] \in Packet
    BY <1>9, EventTypes DEF error_packet, Receive
  <2>2. Inc(m_tail) \in 0 .. RingPages - 1 /\ Inc(m_head) \in 0 .. RingPages - 1
    <3>1. 0 \in 0 .. RingPages /\ m_tail \in 0 .. RingPages - 1 /\ m_head \in 0 .. RingPages - 1
      BY ErrorsAssumption DEF HostTypes
    <3> QED
      BY <3>1, Slots
  <2>3. m_tail' \in 0 .. RingPages - 1 /\ m_head' \in 0 .. RingPages - 1 /\ m_is_full' \in BOOLEAN
    BY <1>9, <2>2 DEF error_packet, HostTypes
  <2>4. CASE UNCHANGED <<list, threadVars>>
    BY <1>9, <2>3, <2>4 DEF error_packet, HostTypes
  <2>5. CASE appendErrorListPacket(Head(c2h).l, page[m_head], Head(c2h).total)
    <3>1. /\ list' \in [Lists -> ListRecord] /\ (\A x \in Lists : Len(list'[x].data) <= list'[x].buf)
          /\ UNCHANGED threadVars \/ Notify
      BY <2>1, <2>5, PacketTypes
    <3> QED
      BY <1>9, <2>3, <3>1, Woken DEF error_packet, HostTypes
  <2> QED
    BY <1>9, <2>4, <2>5 DEF error_packet
<1>10. ASSUME error_failed PROVE HostTypes'
  <2>1. Head(c2h).l \in Lists /\ Head(c2h).val \in {"ok", "io_error"}
    BY <1>10, EventTypes DEF error_failed, Receive
  <2>2. CASE UNCHANGED <<list, threadVars>>
    BY <1>10, <2>2 DEF error_failed, HostTypes
  <2>3. CASE completeQuery(Head(c2h).l, list[Head(c2h).l], Head(c2h).val)
    <3>1. list' \in [Lists -> ListRecord] /\ (\A x \in Lists : Len(list'[x].data) <= list'[x].buf) /\ Notify
      BY <2>1, <2>3, EndedTypes
    <3> QED
      BY <1>10, <3>1, Woken DEF error_failed, HostTypes
  <2> QED
    BY <1>10, <2>2, <2>3 DEF error_failed
<1>11. ASSUME error_cleared PROVE HostTypes'
  <2> DEFINE r == [Cleared EXCEPT !.state = "completed"]
  <2>1. r \in ListRecord /\ r.data = <<>> /\ r.buf = 0
    <3>1. r = [state |-> "completed", buf |-> 0, data |-> <<>>, descs |-> <<>>, val |-> "ok"]
      BY DEF Cleared
    <3> QED
      <4>1. <<>> \in Seq(Packet) /\ 0 \in 0 .. MaxErrors
        BY ErrorsAssumption
      <4> QED
        BY <3>1, <4>1 DEF ListRecord
  <2>2. list' = [list EXCEPT ![Head(c2h).l] = r] /\ Notify
    BY <1>11 DEF error_cleared
  <2>3. list' \in [Lists -> ListRecord] /\ (\A x \in Lists : Len(list'[x].data) <= list'[x].buf)
    <3> HIDE DEF r
    <3>1. Len(r.data) <= r.buf
      BY <2>1
    <3>2. list \in [Lists -> ListRecord] /\ \A x \in Lists : Len(list[x].data) <= list[x].buf
      BY DEF HostTypes
    <3> QED
      BY <2>1, <2>2, <3>1, <3>2
  <2> QED
    BY <1>11, <2>2, <2>3, Woken DEF error_cleared, HostTypes
<1>12. ASSUME list_destroyed PROVE HostTypes'
  BY <1>12 DEF list_destroyed, HostTypes
<1>13. ASSUME card_takes \/ card_updates \/ card_sends \/ card_dies PROVE HostTypes'
  <2>1. UNCHANGED Host
    BY <1>13 DEF card_takes, card_updates, card_sends, card_dies
  <2> QED
    BY <2>1 DEF HostTypes
<1>14. ASSUME NEW l \in Lists, card_fails(l) PROVE HostTypes'
  BY <1>14 DEF card_fails, HostTypes
<1> QED
  BY <1>1, <1>2, <1>3, <1>4, <1>5, <1>6, <1>7, <1>8, <1>9, <1>10, <1>11, <1>12, <1>13, <1>14
  DEF Next, Wait, Recover, User, Respond, Card

\* What the card can do with a message.
Failed(l, v) == [op |-> "failed", l |-> l, id |-> 0, k |-> 0, total |-> 0, val |-> v]

TakesQuery(l, id) ==
    /\ ans.id = 0 /\ UNCHANGED <<err, exists, credit>>
    /\ \/ (\E v \in {"ok", "io_error"} : c2h' = Append(c2h, Failed(l, v))) /\ UNCHANGED ans
       \/ err[l] # 0 /\ ans' = [l |-> l, id |-> id, k |-> 0, total |-> err[l]] /\ UNCHANGED c2h
TakesClear(l) ==
    /\ ans.id = 0 /\ UNCHANGED <<ans, exists, credit>>
    /\ c2h' = Append(c2h, Event("cleared", l)) /\ err' = [err EXCEPT ![l] = 0]
TakesDestroy(l) ==
    /\ ans.id = 0 /\ UNCHANGED <<ans, credit>> /\ exists' = FALSE
    /\ c2h' = Append(c2h, Event("destroyed", l)) /\ err' = [err EXCEPT !["cmd"] = 0]
TakesUpdate == credit' = credit + 1 /\ UNCHANGED <<c2h, err, exists, ans>>

LEMMA Takes ==
    ASSUME Types, card_takes
    PROVE  /\ h2c # <<>> /\ h2c' = Tail(h2c) /\ UNCHANGED <<Host, page, cardTail>>
           /\ Head(h2c) \in Sent /\ Head(h2c).l \in Lists
           /\ \/ Head(h2c).op = "query" /\ TakesQuery(Head(h2c).l, Head(h2c).id)
              \/ Head(h2c).op = "clear" /\ TakesClear(Head(h2c).l)
              \/ Head(h2c).op = "destroy" /\ TakesDestroy(Head(h2c).l)
              \/ Head(h2c).op = "update" /\ TakesUpdate
<1> DEFINE m == Head(h2c)
<1>1. h2c # <<>> /\ h2c' = Tail(h2c) /\ UNCHANGED <<Host, page, cardTail>>
  BY DEF card_takes
<1>2. m \in Sent
  BY <1>1, TailOf DEF Types, CardTypes
<1>3. m.op \in {"query", "clear", "destroy", "update"} /\ m.l \in Lists
  BY <1>2 DEF Sent
<1>4. CASE m.op = "query"
  <2>1. \A v : [Event("failed", m.l) EXCEPT !.val = v] = Failed(m.l, v)
    BY DEF Event, Failed
  <2>2. /\ ans.id = 0 /\ UNCHANGED <<err, exists, credit>>
        /\ IF err[m.l] = 0
           THEN /\ c2h' = Append(c2h, [Event("failed", m.l) EXCEPT
                                         !.val = IF m.l = "cmd" /\ ~exists THEN "io_error" ELSE "ok"])
                /\ UNCHANGED <<ans, fails>>
           ELSE \/ ans' = [l |-> m.l, id |-> m.id, k |-> 0, total |-> err[m.l]] /\ UNCHANGED <<c2h, fails>>
                \/ /\ fails < MaxFails /\ fails' = fails + 1
                   /\ c2h' = Append(c2h, [Event("failed", m.l) EXCEPT !.val = "io_error"])
                   /\ UNCHANGED ans
    BY <1>4 DEF card_takes
  <2>3. TakesQuery(m.l, m.id)
    BY <2>1, <2>2 DEF TakesQuery
  <2> QED
    BY <1>1, <1>2, <1>3, <1>4, <2>3
<1>5. CASE m.op = "clear"
  <2>1. TakesClear(m.l)
    BY <1>5 DEF card_takes, TakesClear
  <2> QED
    BY <1>1, <1>2, <1>3, <1>5, <2>1
<1>6. CASE m.op = "destroy"
  <2>1. TakesDestroy(m.l)
    BY <1>6 DEF card_takes, TakesDestroy
  <2> QED
    BY <1>1, <1>2, <1>3, <1>6, <2>1
<1>7. CASE m.op = "update"
  <2>1. TakesUpdate
    BY <1>7 DEF card_takes, TakesUpdate
  <2> QED
    BY <1>1, <1>2, <1>3, <1>7, <2>1
<1> QED
  BY <1>3, <1>4, <1>5, <1>6, <1>7

\* The packet that the card sends.
NextPacket == [op |-> "packet", l |-> ans.l, id |-> ans.id, k |-> ans.k + 1, total |-> ans.total, val |-> "ok"]

LEMMA Sends ==
    ASSUME Types, card_sends
    PROVE  /\ c2h' = Append(c2h, NextPacket) /\ NextPacket \in Reported /\ ans.total > 0
           /\ ans.id # 0 /\ credit > 0 /\ credit' = credit - 1
           /\ page' = [page EXCEPT ![cardTail] = [id |-> ans.id, k |-> ans.k + 1]]
           /\ cardTail' = Inc(cardTail)
           /\ ans' = IF ans.k + 1 = ans.total THEN NoAnswer ELSE [ans EXCEPT !.k = @ + 1]
           /\ UNCHANGED <<Host, h2c, err, exists>>
<1>1. ans \in [l : Lists, id : Nat, k : Nat, total : 0 .. MaxErrors] /\ ans.id # 0 /\ ans.k < ans.total
  BY DEF Types, CardTypes, card_sends
<1>2. NextPacket \in Reported /\ ans.total > 0
  <2>1. /\ ans.l \in Lists /\ ans.id \in Nat /\ ans.k + 1 \in Nat /\ ans.total \in 0 .. MaxErrors
        /\ ans.total > 0
    BY <1>1, ErrorsAssumption
  <2> QED
    BY <2>1 DEF NextPacket, Reported
<1> QED
  BY <1>1, <1>2 DEF card_sends, NextPacket

\* How a step changes the channel.
LEMMA Moves ==
    ASSUME Types, Next
    PROVE  /\ \/ h2c' = h2c
              \/ \E m \in Sent : h2c' = Append(h2c, m) /\ (m.op = "clear" => m.l = "ctx")
              \/ card_takes /\ h2c # <<>> /\ h2c' = Tail(h2c)
              \/ \E n \in DOMAIN h2c : h2c' = RemoveAt(h2c, n) /\ h2c[n].op = "update"
           /\ \/ c2h' = c2h
              \/ \E m \in Reported : c2h' = Append(c2h, m) /\ (m.op = "packet" => m.total > 0)
              \/ Respond /\ c2h # <<>> /\ c2h' = Tail(c2h)
<1> DEFINE H == \/ h2c' = h2c
                \/ \E m \in Sent : h2c' = Append(h2c, m) /\ (m.op = "clear" => m.l = "ctx")
                \/ card_takes /\ h2c # <<>> /\ h2c' = Tail(h2c)
                \/ \E n \in DOMAIN h2c : h2c' = RemoveAt(h2c, n) /\ h2c[n].op = "update"
           C == \/ c2h' = c2h
                \/ \E m \in Reported : c2h' = Append(c2h, m) /\ (m.op = "packet" => m.total > 0)
                \/ Respond /\ c2h # <<>> /\ c2h' = Tail(c2h)
<1> USE DEF ringVars, cardVars, threadVars, histVars, boundVars, Others, Rest, Host
<1>1. ASSUME NEW l \in Lists, NEW op \in {"query", "clear"}, sendQueryErrorList(l, op),
             op = "clear" => l = "ctx" PROVE H
  <2>1. [op |-> op, l |-> l, id |-> queries + 1] \in Sent
    BY DEF Sent, Types, HostTypes
  <2> QED
    BY <1>1, <2>1 DEF sendQueryErrorList
<1>2. ASSUME NEW l \in Lists, NEW op \in {"exec", "context", "fatal", "cleared", "destroyed"}, c2h' = Append(c2h, Event(op, l)) PROVE C
  <2>1. Event(op, l) \in Reported /\ Event(op, l).op # "packet"
    BY ErrorsAssumption DEF Event, Reported
  <2> QED
    BY <1>2, <2>1
<1>3. ASSUME NEW t \in Waiter, wait_start(t) \/ Wait(t) \/ wait_timeout(t) PROVE H /\ C
  <2>1. CASE wait_send(t)
    BY <2>1, <1>1 DEF wait_send, send_fails, Lists
  <2> QED
    BY <1>3, <2>1 DEF Wait, wait_start, wait_test, wait_late, wait_startQuery, wait_query, wait_restore, wait_timeout
<1>4. ASSUME recover \/ Recover PROVE H /\ C
  <2>1. CASE recover_send
    BY <2>1, <1>1 DEF recover_send, send_fails, Lists
  <2> QED
    BY <1>4, <2>1 DEF recover, Recover, recover_startQuery, recover_query, recover_failed
<1>5. ASSUME list_startQuery \/ User \/ list_destroy PROVE H /\ C
  <2>1. CASE list_send
    BY <2>1, <1>1 DEF list_send, send_fails, Lists
  <2>2. CASE list_destroy
    <3>1. [op |-> "destroy", l |-> "cmd", id |-> 0] \in Sent
      BY DEF Sent, Lists
    <3> QED
      BY <2>2, <3>1 DEF list_destroy
  <2> QED
    BY <1>5, <2>1, <2>2 DEF list_startQuery, User, list_query
<1>6. ASSUME Respond PROVE H /\ C
  <2>1. c2h # <<>> /\ c2h' = Tail(c2h)
    BY <1>6 DEF Respond, critical_event, error_packet, error_failed, error_cleared, list_destroyed, Receive
  <2>2. [op |-> "update", l |-> "ctx", id |-> 0] \in Sent
    BY DEF Sent, Lists
  <2>3. H
    BY <1>6, <2>2 DEF Respond, critical_event, error_packet, error_failed, error_cleared, list_destroyed
  <2> QED
    BY <1>6, <2>1, <2>3
<1>7. ASSUME card_takes PROVE H /\ C
  <2>1. ASSUME TakesQuery(Head(h2c).l, Head(h2c).id), Head(h2c).l \in Lists PROVE C
    <3>1. \A v \in {"ok", "io_error"} : Failed(Head(h2c).l, v) \in Reported /\ Failed(Head(h2c).l, v).op # "packet"
      BY <2>1, ErrorsAssumption DEF Failed, Reported
    <3> QED
      BY <2>1, <3>1 DEF TakesQuery
  <2>2. ASSUME Head(h2c).l \in Lists, TakesClear(Head(h2c).l) \/ TakesDestroy(Head(h2c).l) PROVE C
    BY <2>2, <1>2 DEF TakesClear, TakesDestroy
  <2> QED
    BY <1>7, <2>1, <2>2, Takes DEF TakesUpdate
<1>8. ASSUME card_updates PROVE H /\ C
  BY <1>8 DEF card_updates
<1>9. ASSUME card_sends PROVE H /\ C
  BY <1>9, Sends DEF NextPacket
<1>10. ASSUME card_dies \/ \E l \in Lists : card_fails(l) PROVE H /\ C
  BY <1>10, <1>2 DEF card_dies, card_fails, Lists
<1> QED
  BY <1>3, <1>4, <1>5, <1>6, <1>7, <1>8, <1>9, <1>10 DEF Next, Card

\* A step keeps what the channel carries,
LEMMA ChannelNext ==
    ASSUME Types, Next
    PROVE  h2c' \in Seq(Sent) /\ c2h' \in Seq(Reported) /\ \A i \in PacketAt' : c2h'[i].total > 0
<1>1. h2c \in Seq(Sent) /\ c2h \in Seq(Reported) /\ \A i \in PacketAt : c2h[i].total > 0
  BY DEF Types, CardTypes
<1>2. h2c' \in Seq(Sent)
  <2>1. CASE \E m \in Sent : h2c' = Append(h2c, m)
    BY <2>1, <1>1, AppendTo
  <2>2. CASE h2c # <<>> /\ h2c' = Tail(h2c)
    BY <2>2, <1>1, TailOf
  <2>3. CASE \E n \in DOMAIN h2c : h2c' = RemoveAt(h2c, n)
    BY <2>3, <1>1, RemovedFrom
  <2> QED
    BY <1>1, <2>1, <2>2, <2>3, Moves
<1>3. c2h' \in Seq(Reported) /\ \A i \in PacketAt' : c2h'[i].total > 0
  <2>1. CASE \E m \in Reported : c2h' = Append(c2h, m) /\ (m.op = "packet" => m.total > 0)
    <3>1. PICK m \in Reported : c2h' = Append(c2h, m) /\ (m.op = "packet" => m.total > 0)
      BY <2>1
    <3>2. /\ c2h' \in Seq(Reported) /\ c2h'[Len(c2h) + 1] = m
          /\ \A i \in DOMAIN c2h : c2h'[i] = c2h[i]
          /\ \A i \in DOMAIN c2h' : i \in DOMAIN c2h \/ i = Len(c2h) + 1
      BY <3>1, <1>1, AppendTo
    <3> QED
      BY <3>1, <3>2, <1>1 DEF PacketAt
  <2>2. CASE c2h # <<>> /\ c2h' = Tail(c2h)
    <3>1. c2h' \in Seq(Reported) /\ \A i \in DOMAIN c2h' : i + 1 \in DOMAIN c2h /\ c2h'[i] = c2h[i + 1]
      BY <2>2, <1>1, TailOf
    <3> QED
      BY <3>1, <1>1 DEF PacketAt
  <2>3. CASE c2h' = c2h
    BY <2>3, <1>1 DEF PacketAt
  <2> QED
    BY <2>1, <2>2, <2>3, Moves
<1> QED
  BY <1>2, <1>3

\* and what the card has.
LEMMA CardNext == ASSUME Types, Next PROVE CardTypes'
<1> USE DEF ringVars, cardVars, threadVars, histVars, boundVars, Others, Rest, Host
<1> DEFINE K == /\ page' \in [0 .. RingPages - 1 -> Packet]
                /\ err' \in [Lists -> 0 .. MaxErrors] /\ exists' \in BOOLEAN
                /\ ans' \in [l : Lists, id : Nat, k : Nat, total : 0 .. MaxErrors]
                /\ ans'.id # 0 => ans'.k < ans'.total
                /\ credit' \in Nat
<1>1. /\ page \in [0 .. RingPages - 1 -> Packet]
      /\ err \in [Lists -> 0 .. MaxErrors] /\ exists \in BOOLEAN
      /\ ans \in [l : Lists, id : Nat, k : Nat, total : 0 .. MaxErrors]
      /\ ans.id # 0 => ans.k < ans.total
      /\ credit \in Nat
  BY DEF Types, CardTypes
<1>2. ASSUME UNCHANGED <<page, err, exists, ans, credit>> PROVE K
  BY <1>1, <1>2
<1>3. ASSUME card_takes PROVE K
  <2>1. UNCHANGED page /\ Head(h2c) \in Sent /\ Head(h2c).l \in Lists /\ Head(h2c).id \in Nat
    BY <1>3, Takes DEF Sent
  <2>2. CASE TakesQuery(Head(h2c).l, Head(h2c).id)
    <3>1. CASE UNCHANGED ans
      BY <1>1, <2>1, <2>2, <3>1 DEF TakesQuery
    <3>2. CASE err[Head(h2c).l] # 0 /\ ans' = [l |-> Head(h2c).l, id |-> Head(h2c).id, k |-> 0, total |-> err[Head(h2c).l]]
      <4>1. err[Head(h2c).l] \in 0 .. MaxErrors /\ 0 < err[Head(h2c).l]
        BY <1>1, <2>1, <3>2, ErrorsAssumption
      <4>2. ans' \in [l : Lists, id : Nat, k : Nat, total : 0 .. MaxErrors] /\ ans'.k < ans'.total
        BY <2>1, <3>2, <4>1
      <4> QED
        BY <1>1, <2>1, <2>2, <4>2 DEF TakesQuery
    <3> QED
      BY <2>2, <3>1, <3>2 DEF TakesQuery
  <2>3. CASE TakesClear(Head(h2c).l) \/ TakesDestroy(Head(h2c).l)
    <3>1. 0 \in 0 .. MaxErrors
      BY ErrorsAssumption
    <3>2. \A l : [err EXCEPT ![l] = 0] \in [Lists -> 0 .. MaxErrors]
      BY <1>1, <3>1
    <3> QED
      BY <1>1, <2>1, <2>3, <3>2 DEF TakesClear, TakesDestroy
  <2>4. CASE TakesUpdate
    BY <1>1, <2>1, <2>4 DEF TakesUpdate
  <2> QED
    BY <1>3, <2>2, <2>3, <2>4, Takes
<1>4. ASSUME card_updates PROVE K
  BY <1>1, <1>4 DEF card_updates
<1>5. ASSUME card_sends PROVE K
  <2>1. [id |-> ans.id, k |-> ans.k + 1] \in Packet
    BY <1>1 DEF Packet
  <2>2. page' \in [0 .. RingPages - 1 -> Packet]
    BY <1>1, <1>5, <2>1, Sends
  <2>3. ans' \in [l : Lists, id : Nat, k : Nat, total : 0 .. MaxErrors] /\ (ans'.id # 0 => ans'.k < ans'.total)
    <3>1. CASE ans.k + 1 = ans.total
      <4>1. ans' = NoAnswer
        BY <1>5, <3>1, Sends
      <4> QED
        BY <4>1, ErrorsAssumption DEF NoAnswer, Lists
    <3>2. CASE ans.k + 1 # ans.total
      <4>1. ans' = [ans EXCEPT !.k = @ + 1] /\ ans.id # 0
        BY <1>5, <3>2, Sends
      <4>2. ans.k + 1 \in Nat /\ ans.k + 1 < ans.total
        BY <1>1, <3>2, <4>1
      <4> QED
        BY <1>1, <4>1, <4>2
    <3> QED
      BY <3>1, <3>2
  <2> QED
    BY <1>1, <1>5, <2>2, <2>3, Sends
<1>6. ASSUME NEW l \in Lists, card_fails(l) PROVE K
  <2>1. err[l] \in 0 .. MaxErrors /\ err[l] < MaxErrors /\ err' = [err EXCEPT ![l] = err[l] + 1]
    BY <1>1, <1>6 DEF card_fails
  <2>2. err[l] + 1 \in 0 .. MaxErrors
    BY <2>1, ErrorsAssumption
  <2>3. err' \in [Lists -> 0 .. MaxErrors]
    BY <1>1, <2>1, <2>2
  <2> QED
    BY <1>1, <1>6, <2>3 DEF card_fails
<1>7. K
  BY <1>2, <1>3, <1>4, <1>5, <1>6
  DEF Next, Wait, Recover, User, Respond, Card, wait_start, wait_test, wait_late, wait_startQuery, wait_send, wait_query,
      wait_restore, wait_timeout, recover, recover_startQuery, recover_send, recover_query, recover_failed,
      list_startQuery, list_send, list_query, list_destroy, critical_event, error_packet, error_failed, error_cleared,
      list_destroyed, card_dies
<1> QED
  BY <1>7, ChannelNext DEF CardTypes

-----------------------------------------------------------------------------
(***************************************************************************)
(* Host and card agree on the ring                                         *)
(***************************************************************************)

\* Packets and updates, as messages of their kind.
LEMMA PacketsAre ==
    ASSUME NEW q \in Seq(Reported)
    PROVE  {i \in DOMAIN q : q[i].op = "packet"} = At(q, {"packet"}, Lists)
<1>1. \A i \in DOMAIN q : q[i].l \in Lists
  <2>1. \A i \in DOMAIN q : q[i] \in Reported
    OBVIOUS
  <2>2. \A m \in Reported : m.l \in Lists
    BY DEF Reported
  <2> QED
    BY <2>1, <2>2
<1> QED
  BY <1>1 DEF At

LEMMA UpdatesAre ==
    ASSUME NEW q \in Seq(Sent)
    PROVE  {i \in DOMAIN q : q[i].op = "update"} = At(q, {"update"}, Lists)
<1>1. \A i \in DOMAIN q : q[i].l \in Lists
  <2>1. \A i \in DOMAIN q : q[i] \in Sent
    OBVIOUS
  <2>2. \A m \in Sent : m.l \in Lists
    BY DEF Sent
  <2> QED
    BY <2>1, <2>2
<1> QED
  BY <1>1 DEF At

\* What does not concern packets, or updates.
PacketsQuiet ==
    \/ c2h' = c2h
    \/ \E m \in Reported : m.op # "packet" /\ c2h' = Append(c2h, m)
    \/ c2h # <<>> /\ Head(c2h).op # "packet" /\ c2h' = Tail(c2h)
UpdatesQuiet ==
    \/ h2c' = h2c
    \/ \E m \in Sent : m.op # "update" /\ h2c' = Append(h2c, m)
    \/ h2c # <<>> /\ Head(h2c).op # "update" /\ h2c' = Tail(h2c)

LEMMA QuietPackets ==
    ASSUME Types, Types', PacketsQuiet
    PROVE  Carried(c2h, PacketAt, c2h', PacketAt')
<1>1. c2h \in Seq(Reported) /\ c2h' \in Seq(Reported)
  BY DEF Types, CardTypes
<1>2. PacketAt = At(c2h, {"packet"}, Lists) /\ PacketAt' = At(c2h', {"packet"}, Lists)
  BY <1>1, PacketsAre DEF PacketAt
<1>3. CASE c2h' = c2h
  BY <1>3 DEF Carried, PacketAt
<1>4. CASE \E m \in Reported : m.op # "packet" /\ c2h' = Append(c2h, m)
  <2>1. PICK m \in Reported : m.op # "packet" /\ c2h' = Append(c2h, m)
    BY <1>4
  <2>2. Carried(c2h, At(c2h, {"packet"}, Lists), c2h', At(c2h', {"packet"}, Lists))
    BY <2>1, <1>1, Appended
  <2> QED
    BY <2>2, <1>2
<1>5. CASE c2h # <<>> /\ Head(c2h).op # "packet" /\ c2h' = Tail(c2h)
  <2>1. Carried(c2h, At(c2h, {"packet"}, Lists), c2h', At(c2h', {"packet"}, Lists))
    BY <1>5, <1>1, Taken
  <2> QED
    BY <2>1, <1>2
<1> QED
  BY <1>3, <1>4, <1>5 DEF PacketsQuiet

LEMMA QuietUpdates ==
    ASSUME Types, Types', UpdatesQuiet
    PROVE  Cardinality(UpdateAt') = Cardinality(UpdateAt)
<1>1. h2c \in Seq(Sent) /\ h2c' \in Seq(Sent)
  BY DEF Types, CardTypes
<1>2. UpdateAt = At(h2c, {"update"}, Lists) /\ UpdateAt' = At(h2c', {"update"}, Lists)
  BY <1>1, UpdatesAre DEF UpdateAt
<1>3. CASE h2c' = h2c
  BY <1>3 DEF UpdateAt
<1>4. CASE \E m \in Sent : m.op # "update" /\ h2c' = Append(h2c, m)
  <2>1. PICK m \in Sent : m.op # "update" /\ h2c' = Append(h2c, m)
    BY <1>4
  <2>2. Carried(h2c, At(h2c, {"update"}, Lists), h2c', At(h2c', {"update"}, Lists))
    BY <2>1, <1>1, Appended
  <2> QED
    BY <2>2, <1>2 DEF Carried
<1>5. CASE h2c # <<>> /\ Head(h2c).op # "update" /\ h2c' = Tail(h2c)
  <2>1. Carried(h2c, At(h2c, {"update"}, Lists), h2c', At(h2c', {"update"}, Lists))
    BY <1>5, <1>1, Taken
  <2> QED
    BY <2>1, <1>2 DEF Carried
<1> QED
  BY <1>3, <1>4, <1>5 DEF UpdatesQuiet

\* The counts of packets and updates.
LEMMA RingCounts ==
    ASSUME Types, Ring
    PROVE  /\ Cardinality(PacketAt) \in 0 .. RingPages /\ Cardinality(UpdateAt) \in Nat
           /\ credit \in 0 .. RingPages
           /\ IsFiniteSet(PacketAt) /\ PacketAt \subseteq Nat \ {0}
           /\ \A i \in PacketAt : Cardinality(Below(PacketAt, i)) \in 0 .. RingPages - 1
                                  /\ Cardinality(Below(PacketAt, i)) < Cardinality(PacketAt)
           /\ m_head \in 0 .. RingPages - 1 /\ cardTail = Slot(m_head, Cardinality(PacketAt))
<1>1. /\ h2c \in Seq(Sent) /\ c2h \in Seq(Reported) /\ credit \in Nat
      /\ m_head \in 0 .. RingPages - 1
  BY DEF Types, CardTypes, HostTypes
<1>2. /\ Cardinality(PacketAt) \in Nat /\ IsFiniteSet(PacketAt) /\ PacketAt \subseteq Nat \ {0}
  <2>1. PacketAt \in SUBSET DOMAIN c2h
    BY DEF PacketAt
  <2> QED
    BY <1>1, <2>1, FinitePositions
<1>3. Cardinality(UpdateAt) \in Nat
  <2>1. UpdateAt \in SUBSET DOMAIN h2c
    BY DEF UpdateAt
  <2> QED
    BY <1>1, <2>1, FinitePositions
<1>4. credit + Cardinality(PacketAt) + Cardinality(UpdateAt) = RingPages
  BY DEF Ring, RingInStep
<1>5. Cardinality(PacketAt) \in 0 .. RingPages /\ credit \in 0 .. RingPages
  BY <1>1, <1>2, <1>3, <1>4, ErrorsAssumption
<1>6. ASSUME NEW i \in PacketAt
      PROVE  Cardinality(Below(PacketAt, i)) \in 0 .. RingPages - 1 /\ Cardinality(Below(PacketAt, i)) < Cardinality(PacketAt)
  <2>1. PacketAt \subseteq Nat
    BY <1>2
  <2>2. Cardinality(Below(PacketAt, i)) \in Nat /\ Cardinality(Below(PacketAt, i)) < Cardinality(PacketAt)
    BY <2>1, <1>2, FewerBelow
  <2> QED
    BY <2>2, <1>5, ErrorsAssumption
<1> QED
  BY <1>1, <1>2, <1>3, <1>5, <1>6 DEF Ring, Slot

\* A step that leaves pages, packets and updates alone.
LEMMA RingKept ==
    ASSUME Types, Types', Ring, PacketsQuiet, UpdatesQuiet,
           UNCHANGED <<m_head, m_tail, m_is_full, page, cardTail, credit>>
    PROVE  Ring'
<1>1. Carried(c2h, PacketAt, c2h', PacketAt') /\ Cardinality(UpdateAt') = Cardinality(UpdateAt)
  BY QuietPackets, QuietUpdates
<1>2. Cardinality(PacketAt') = Cardinality(PacketAt)
  BY <1>1 DEF Carried
<1>3. ASSUME NEW i \in PacketAt'
      PROVE  page[(m_head + Cardinality(Below(PacketAt', i))) % RingPages] = [id |-> c2h'[i].id, k |-> c2h'[i].k]
  <2>1. PICK j \in PacketAt : c2h'[i] = c2h[j] /\ Cardinality(Below(PacketAt', i)) = Cardinality(Below(PacketAt, j))
    BY <1>1, <1>3 DEF Carried
  <2> QED
    BY <2>1 DEF Ring, RingInStep
<1> QED
  BY <1>1, <1>2, <1>3 DEF Ring, RingInStep, Below

\* The host reads the first packet: its page goes back.
LEMMA RingReads == ASSUME Types, Types', Ring, Destroyed, error_packet PROVE Ring'
<1> DEFINE P == PacketAt
           Q == PacketAt'
           upd == [op |-> "update", l |-> "ctx", id |-> 0]
<1> USE DEF ringVars, cardVars
<1>1. c2h \in Seq(Reported) /\ c2h' \in Seq(Reported) /\ h2c \in Seq(Sent) /\ h2c' \in Seq(Sent)
  BY DEF Types, CardTypes
<1>2. c2h # <<>> /\ c2h' = Tail(c2h) /\ Head(c2h).op = "packet"
  BY DEF error_packet, Receive
<1>3. 1 \in P /\ Head(c2h) = c2h[1]
  BY <1>1, <1>2, TailOf DEF PacketAt
<1>4. ~(Head(c2h).l = "cmd" /\ ~objdb)
  BY <1>3 DEF Destroyed
<1>5. /\ m_head' = Inc(m_head) /\ m_tail' = Inc(m_tail) /\ m_is_full' = FALSE
      /\ h2c' = Append(h2c, upd) /\ UNCHANGED <<page, cardTail, credit>>
  BY <1>4 DEF error_packet
<1>6. P = At(c2h, {"packet"}, Lists) /\ Q = At(c2h', {"packet"}, Lists)
  BY <1>1, PacketsAre DEF PacketAt
<1>7. Head(c2h).l \in Lists
  BY <1>2, EventTypes
<1>8. /\ Cardinality(P) = Cardinality(Q) + 1
      /\ \A i \in Q : \E j \in P : c2h'[i] = c2h[j] /\ Cardinality(Below(P, j)) = Cardinality(Below(Q, i)) + 1
  <2>1. OneLess(c2h, At(c2h, {"packet"}, Lists), c2h', At(c2h', {"packet"}, Lists), Head(c2h))
    <3>1. Head(c2h).op \in {"packet"} /\ Head(c2h).l \in Lists
      BY <1>2, <1>7
    <3> QED
      BY <3>1, <1>1, <1>2, Taken
  <2> QED
    BY <2>1, <1>6 DEF OneLess
<1>9. Cardinality(UpdateAt') = Cardinality(UpdateAt) + 1
  <2>1. UpdateAt = At(h2c, {"update"}, Lists) /\ UpdateAt' = At(h2c', {"update"}, Lists)
    BY <1>1, UpdatesAre DEF UpdateAt
  <2>2. upd \in Sent /\ upd.op = "update" /\ upd.l \in Lists
    BY DEF Sent, Lists
  <2> HIDE DEF upd
  <2>3. OneMore(h2c, At(h2c, {"update"}, Lists), h2c', At(h2c', {"update"}, Lists), upd)
    <3>1. upd.op \in {"update"} /\ upd.l \in Lists
      BY <2>2
    <3> QED
      BY <3>1, <1>1, <1>5, <2>2, Appended
  <2> QED
    BY <2>1, <2>3 DEF OneMore
<1>10. /\ Cardinality(P) \in 0 .. RingPages /\ Cardinality(UpdateAt) \in Nat /\ credit \in 0 .. RingPages
       /\ \A i \in P : Cardinality(Below(P, i)) \in 0 .. RingPages - 1
       /\ m_head \in 0 .. RingPages - 1 /\ cardTail = Slot(m_head, Cardinality(P))
  BY RingCounts
<1>11. Cardinality(Q) \in Nat /\ \A i \in Q : Cardinality(Below(Q, i)) \in Nat
  <2>1. Q \in SUBSET DOMAIN c2h'
    BY DEF PacketAt
  <2> QED
    BY <1>1, <2>1, FinitePositions
<1> HIDE DEF P, Q, upd
<1>12. cardTail' = Slot(m_head', Cardinality(Q))
  <2>1. Cardinality(Q) \in 0 .. RingPages /\ Cardinality(Q) < RingPages /\ Cardinality(P) = Cardinality(Q) + 1
    BY <1>8, <1>10, <1>11, ErrorsAssumption
  <2>2. Slot(Inc(m_head), Cardinality(Q)) = Slot(m_head, Cardinality(Q) + 1)
    BY <2>1, <1>10, Slots
  <2> QED
    BY <2>1, <2>2, <1>5, <1>10
<1>13. ASSUME NEW i \in Q
       PROVE  page'[Slot(m_head', Cardinality(Below(Q, i)))] = [id |-> c2h'[i].id, k |-> c2h'[i].k]
  <2>1. PICK j \in P : c2h'[i] = c2h[j] /\ Cardinality(Below(P, j)) = Cardinality(Below(Q, i)) + 1
    BY <1>8
  <2>2. Cardinality(Below(Q, i)) \in 0 .. RingPages /\ Cardinality(Below(Q, i)) < RingPages
    BY <2>1, <1>10, <1>11, ErrorsAssumption
  <2>3. Slot(Inc(m_head), Cardinality(Below(Q, i))) = Slot(m_head, Cardinality(Below(P, j)))
    BY <2>1, <2>2, <1>10, Slots
  <2>4. page[Slot(m_head, Cardinality(Below(P, j)))] = [id |-> c2h[j].id, k |-> c2h[j].k]
    BY DEF Ring, RingInStep, Slot, P
  <2> QED
    BY <2>1, <2>3, <2>4, <1>5
<1>14. credit' + Cardinality(Q) + Cardinality(UpdateAt') = RingPages
  <2>1. credit + Cardinality(P) + Cardinality(UpdateAt) = RingPages
    BY DEF Ring, RingInStep, P
  <2> QED
    BY <2>1, <1>5, <1>8, <1>9, <1>10, <1>11
<1>15. m_head' = m_tail' /\ ~m_is_full'
  BY <1>5 DEF Ring, RingInStep
<1> QED
  BY <1>12, <1>13, <1>14, <1>15 DEF Ring, RingInStep, Slot, Q, Below

\* The card writes into a page that no announced packet is in.
LEMMA RingWrites == ASSUME Types, Types', Ring, card_sends PROVE Ring'
<1> DEFINE P == PacketAt
           Q == PacketAt'
<1>1. c2h \in Seq(Reported) /\ c2h' \in Seq(Reported)
  BY DEF Types, CardTypes
<1>2. /\ c2h' = Append(c2h, NextPacket) /\ NextPacket \in Reported
      /\ credit > 0 /\ credit' = credit - 1 /\ cardTail' = Inc(cardTail)
      /\ page' = [page EXCEPT ![cardTail] = [id |-> ans.id, k |-> ans.k + 1]]
      /\ UNCHANGED <<m_head, m_tail, m_is_full, h2c>>
  BY Sends DEF Host
<1>3. NextPacket.op = "packet" /\ NextPacket.id = ans.id /\ NextPacket.k = ans.k + 1 /\ NextPacket.l \in Lists
  BY <1>2 DEF NextPacket, Reported
<1>4. P = At(c2h, {"packet"}, Lists) /\ Q = At(c2h', {"packet"}, Lists)
  BY <1>1, PacketsAre DEF PacketAt
<1>5. /\ Cardinality(Q) = Cardinality(P) + 1
      /\ \A i \in Q : \/ c2h'[i] = NextPacket /\ Cardinality(Below(Q, i)) = Cardinality(P)
                      \/ \E j \in P : c2h'[i] = c2h[j] /\ Cardinality(Below(Q, i)) = Cardinality(Below(P, j))
  <2>1. OneMore(c2h, At(c2h, {"packet"}, Lists), c2h', At(c2h', {"packet"}, Lists), NextPacket)
    <3>1. NextPacket.op \in {"packet"} /\ NextPacket.l \in Lists
      BY <1>3
    <3> QED
      BY <3>1, <1>1, <1>2, Appended
  <2> QED
    BY <2>1, <1>4 DEF OneMore
<1>6. /\ Cardinality(P) \in 0 .. RingPages /\ Cardinality(UpdateAt) \in Nat /\ credit \in 0 .. RingPages
      /\ \A i \in P : Cardinality(Below(P, i)) \in 0 .. RingPages - 1 /\ Cardinality(Below(P, i)) < Cardinality(P)
      /\ m_head \in 0 .. RingPages - 1 /\ cardTail = Slot(m_head, Cardinality(P))
  BY RingCounts
<1>7. credit + Cardinality(P) + Cardinality(UpdateAt) = RingPages /\ UpdateAt' = UpdateAt
  BY <1>2 DEF Ring, RingInStep, UpdateAt
<1>8. Cardinality(P) \in 0 .. RingPages - 1 /\ Cardinality(P) < RingPages
  BY <1>2, <1>6, <1>7, ErrorsAssumption
<1>9. page \in [0 .. RingPages - 1 -> Packet] /\ cardTail \in 0 .. RingPages - 1
  BY <1>6, Slots DEF Types, CardTypes
<1> HIDE DEF P, Q
<1>10. cardTail' = Slot(m_head', Cardinality(Q))
  BY <1>2, <1>5, <1>6, <1>8, Slots
<1>11. ASSUME NEW i \in Q
       PROVE  page'[Slot(m_head, Cardinality(Below(Q, i)))] = [id |-> c2h'[i].id, k |-> c2h'[i].k]
  <2>1. CASE c2h'[i] = NextPacket /\ Cardinality(Below(Q, i)) = Cardinality(P)
    BY <2>1, <1>2, <1>3, <1>6, <1>9
  <2>2. CASE \E j \in P : c2h'[i] = c2h[j] /\ Cardinality(Below(Q, i)) = Cardinality(Below(P, j))
    <3>1. PICK j \in P : c2h'[i] = c2h[j] /\ Cardinality(Below(Q, i)) = Cardinality(Below(P, j))
      BY <2>2
    <3>2. page[Slot(m_head, Cardinality(Below(P, j)))] = [id |-> c2h[j].id, k |-> c2h[j].k]
      BY DEF Ring, RingInStep, Slot, P
    <3>3. Cardinality(Below(P, j)) \in 0 .. RingPages /\ Cardinality(Below(P, j)) < Cardinality(P)
      BY <1>6, ErrorsAssumption
    <3>4. Slot(m_head, Cardinality(Below(P, j))) # cardTail
      BY <3>3, <1>6, <1>8, Slots
    <3>5. Slot(m_head, Cardinality(Below(P, j))) \in 0 .. RingPages - 1
      BY <3>3, <1>6, Slots
    <3> QED
      BY <3>1, <3>2, <3>4, <3>5, <1>2, <1>9
  <2> QED
    BY <2>1, <2>2, <1>5
<1>12. credit' + Cardinality(Q) + Cardinality(UpdateAt') = RingPages
  BY <1>2, <1>5, <1>6, <1>7
<1>13. m_head' = m_tail' /\ ~m_is_full'
  BY <1>2 DEF Ring, RingInStep
<1> QED
  BY <1>2, <1>10, <1>11, <1>12, <1>13 DEF Ring, RingInStep, Slot, Q, Below

\* A page comes back.
LEMMA RingFreed ==
    ASSUME Types, Types', Ring, UNCHANGED <<m_head, m_tail, m_is_full, page, cardTail, c2h>>,
           credit' = credit + 1, Cardinality(UpdateAt) = Cardinality(UpdateAt') + 1
    PROVE  Ring'
<1>1. Cardinality(UpdateAt') \in Nat
  <2>1. UpdateAt' \in SUBSET DOMAIN h2c' /\ h2c' \in Seq(Sent)
    BY DEF UpdateAt, Types, CardTypes
  <2> QED
    BY <2>1, FinitePositions
<1>2. credit \in Nat /\ Cardinality(PacketAt) \in Nat /\ PacketAt' = PacketAt
  BY RingCounts DEF Types, CardTypes, PacketAt
<1>3. credit' + Cardinality(PacketAt') + Cardinality(UpdateAt') = RingPages
  BY <1>1, <1>2 DEF Ring, RingInStep
<1> QED
  BY <1>2, <1>3 DEF Ring, RingInStep, Below

\* A step keeps the ring.
LEMMA RingNext == ASSUME Types, Types', Ring, Destroyed, Next PROVE Ring'
<1> USE DEF ringVars, cardVars, threadVars, histVars, boundVars, Others, Rest, Host
<1>1. h2c \in Seq(Sent) /\ h2c' \in Seq(Sent) /\ queries \in Nat
  BY DEF Types, CardTypes, HostTypes
<1>2. ASSUME UNCHANGED <<ringVars, cardTail, credit>>, PacketsQuiet, UpdatesQuiet PROVE Ring'
  BY <1>2, RingKept
<1>3. ASSUME NEW l \in Lists, NEW op \in {"query", "clear"}, sendQueryErrorList(l, op) PROVE UpdatesQuiet
  <2>1. [op |-> op, l |-> l, id |-> queries + 1] \in Sent
    BY <1>1 DEF Sent
  <2> QED
    BY <1>3, <2>1 DEF sendQueryErrorList, UpdatesQuiet
<1>4. ASSUME NEW l \in Lists, NEW op \in {"exec", "context", "fatal", "cleared", "destroyed"}, c2h' = Append(c2h, Event(op, l))
      PROVE  PacketsQuiet
  <2>1. Event(op, l) \in Reported /\ Event(op, l).op # "packet"
    BY ErrorsAssumption DEF Event, Reported
  <2> QED
    BY <1>4, <2>1 DEF PacketsQuiet
<1>5. ASSUME NEW t \in Waiter, wait_start(t) \/ Wait(t) \/ wait_timeout(t) PROVE Ring'
  <2>1. CASE wait_send(t)
    <3>1. UpdatesQuiet
      BY <2>1, <1>3 DEF wait_send, send_fails, Lists, UpdatesQuiet
    <3> QED
      BY <2>1, <3>1, <1>2 DEF wait_send, PacketsQuiet
  <2> QED
    BY <1>2, <1>5, <2>1 DEF PacketsQuiet, UpdatesQuiet, Wait, wait_start, wait_test, wait_late, wait_startQuery,
                             wait_query, wait_restore, wait_timeout
<1>6. ASSUME recover \/ Recover PROVE Ring'
  <2>1. CASE recover_send
    <3>1. UpdatesQuiet
      BY <2>1, <1>3 DEF recover_send, send_fails, Lists, UpdatesQuiet
    <3> QED
      BY <2>1, <3>1, <1>2 DEF recover_send, PacketsQuiet
  <2> QED
    BY <1>2, <1>6, <2>1 DEF PacketsQuiet, UpdatesQuiet, recover, Recover, recover_startQuery, recover_query, recover_failed
<1>7. ASSUME list_startQuery \/ User \/ list_destroy PROVE Ring'
  <2>1. CASE list_send
    <3>1. UpdatesQuiet
      BY <2>1, <1>3 DEF list_send, send_fails, Lists, UpdatesQuiet
    <3> QED
      BY <2>1, <3>1, <1>2 DEF list_send, PacketsQuiet
  <2>2. CASE list_destroy
    <3>1. [op |-> "destroy", l |-> "cmd", id |-> 0] \in Sent
      BY DEF Sent, Lists
    <3>2. UpdatesQuiet
      BY <2>2, <3>1 DEF list_destroy, UpdatesQuiet
    <3> QED
      BY <2>2, <3>2, <1>2 DEF list_destroy, PacketsQuiet
  <2> QED
    BY <1>2, <1>7, <2>1, <2>2 DEF PacketsQuiet, UpdatesQuiet, list_startQuery, User, list_query
<1>8. ASSUME critical_event \/ error_failed \/ error_cleared \/ list_destroyed PROVE Ring'
  BY <1>2, <1>8 DEF PacketsQuiet, UpdatesQuiet, critical_event, error_failed, error_cleared, list_destroyed, Receive
<1>9. ASSUME error_packet PROVE Ring'
  BY <1>9, RingReads
<1>10. ASSUME card_takes PROVE Ring'
  <2>1. h2c # <<>> /\ h2c' = Tail(h2c) /\ UNCHANGED <<ringVars, cardTail>>
    BY <1>10, Takes
  <2>2. ASSUME Head(h2c).op = "query", TakesQuery(Head(h2c).l, Head(h2c).id), Head(h2c).l \in Lists PROVE Ring'
    <3>1. \A v \in {"ok", "io_error"} : Failed(Head(h2c).l, v) \in Reported /\ Failed(Head(h2c).l, v).op # "packet"
      BY <2>2, ErrorsAssumption DEF Failed, Reported
    <3>2. PacketsQuiet /\ UpdatesQuiet /\ UNCHANGED credit
      BY <2>1, <2>2, <3>1 DEF TakesQuery, PacketsQuiet, UpdatesQuiet
    <3> QED
      BY <2>1, <3>2, <1>2
  <2>3. ASSUME Head(h2c).op \in {"clear", "destroy"}, Head(h2c).l \in Lists,
               TakesClear(Head(h2c).l) \/ TakesDestroy(Head(h2c).l)
        PROVE  Ring'
    <3>1. PacketsQuiet /\ UpdatesQuiet /\ UNCHANGED credit
      BY <2>1, <2>3, <1>4 DEF TakesClear, TakesDestroy, UpdatesQuiet
    <3> QED
      BY <2>1, <3>1, <1>2
  <2>4. ASSUME Head(h2c).op = "update", Head(h2c).l \in Lists, TakesUpdate PROVE Ring'
    <3>1. UpdateAt = At(h2c, {"update"}, Lists) /\ UpdateAt' = At(h2c', {"update"}, Lists)
      BY <1>1, UpdatesAre DEF UpdateAt
    <3>2. Head(h2c).op \in {"update"} /\ Head(h2c).l \in Lists
      BY <2>4
    <3>3. OneLess(h2c, At(h2c, {"update"}, Lists), h2c', At(h2c', {"update"}, Lists), Head(h2c))
      BY <1>1, <2>1, <3>2, Taken
    <3>4. Cardinality(UpdateAt) = Cardinality(UpdateAt') + 1
      BY <3>1, <3>3 DEF OneLess
    <3> QED
      BY <2>1, <2>4, <3>4, RingFreed DEF TakesUpdate
  <2> QED
    BY <1>10, <2>2, <2>3, <2>4, Takes
<1>11. ASSUME card_updates PROVE Ring'
  <2>1. PICK n \in DOMAIN h2c : h2c[n].op = "update" /\ h2c' = RemoveAt(h2c, n)
    BY <1>11 DEF card_updates
  <2>2. n \in At(h2c, {"update"}, Lists)
    <3>1. n \in UpdateAt
      BY <2>1 DEF UpdateAt
    <3> QED
      BY <3>1, <1>1, UpdatesAre DEF UpdateAt
  <2>3. h2c[n].op \in {"update"} /\ h2c[n].l \in Lists
    BY <2>2 DEF At
  <2>4. Cardinality(At(h2c, {"update"}, Lists)) = Cardinality(At(h2c', {"update"}, Lists)) + 1
    BY <1>1, <2>1, <2>3, Removed
  <2>5. Cardinality(UpdateAt) = Cardinality(UpdateAt') + 1
    BY <2>4, <1>1, UpdatesAre DEF UpdateAt
  <2> QED
    BY <1>11, <2>5, RingFreed DEF card_updates
<1>12. ASSUME card_sends PROVE Ring'
  BY <1>12, RingWrites
<1>13. ASSUME card_dies \/ \E l \in Lists : card_fails(l) PROVE Ring'
  <2>1. PacketsQuiet
    BY <1>13, <1>4 DEF card_dies, card_fails, PacketsQuiet, Lists
  <2> QED
    BY <1>2, <1>13, <2>1 DEF card_dies, card_fails, UpdatesQuiet
<1> QED
  BY <1>5, <1>6, <1>7, <1>8, <1>9, <1>10, <1>11, <1>12, <1>13 DEF Next, Respond, Card

-----------------------------------------------------------------------------
(***************************************************************************)
(* The end of a command list                                               *)
(***************************************************************************)

\* What a list that is gone on the card has there.
NoneLeft == ~exists => err["cmd"] = 0 /\ ~(ans.id # 0 /\ ans.l = "cmd")

\* The host is told behind the packets of the list, or
TellsLast == \A j \in PacketAt : c2h[j].l = "cmd" =>
                objdb /\ \A i \in DOMAIN c2h : i < j => c2h[i].op # "destroyed"
\* will be.
NotTold == exists => objdb /\ \A i \in DOMAIN c2h : c2h[i].op # "destroyed"

LEMMA DestroyedIs == Destroyed <=> NoneLeft /\ NotTold /\ TellsLast
BY DEF Destroyed, NoneLeft, NotTold, TellsLast

\* An event is reported, or read, before it is known.
LEMMA ToldNext ==
    ASSUME Types, Destroyed, Next PROVE NotTold' /\ TellsLast'
<1> USE DEF ringVars, cardVars, threadVars, histVars, boundVars, Others, Rest, Host
<1>1. c2h \in Seq(Reported) /\ NoneLeft /\ NotTold /\ TellsLast
  BY DestroyedIs DEF Types, CardTypes
<1>2. ASSUME c2h' = c2h, exists' => exists, objdb' = objdb PROVE NotTold' /\ TellsLast'
  BY <1>1, <1>2 DEF NotTold, TellsLast, PacketAt
<1>3. ASSUME NEW m \in Reported, c2h' = Append(c2h, m), objdb' = objdb, exists' => exists,
             m.op = "destroyed" => ~exists', m.op = "packet" /\ m.l = "cmd" => exists
      PROVE  NotTold' /\ TellsLast'
  <2>1. /\ Len(c2h) + 1 \in DOMAIN c2h' /\ c2h'[Len(c2h) + 1] = m
        /\ \A i \in DOMAIN c2h : i \in DOMAIN c2h' /\ c2h'[i] = c2h[i] /\ i \in Nat /\ i < Len(c2h) + 1
        /\ \A i \in DOMAIN c2h' : i \in DOMAIN c2h \/ i = Len(c2h) + 1
        /\ Len(c2h) \in Nat
    BY <1>1, <1>3, AppendTo
  <2>2. NotTold'
    BY <1>1, <1>3, <2>1 DEF NotTold
  <2>3. ASSUME NEW j \in DOMAIN c2h', c2h'[j].op = "packet", c2h'[j].l = "cmd"
        PROVE  objdb' /\ \A i \in DOMAIN c2h' : i < j => c2h'[i].op # "destroyed"
    <3>1. CASE j \in DOMAIN c2h
      <4>1. objdb /\ \A i \in DOMAIN c2h : i < j => c2h[i].op # "destroyed"
        BY <1>1, <2>1, <2>3, <3>1 DEF TellsLast, PacketAt
      <4>2. \A i \in DOMAIN c2h' : i < j => i \in DOMAIN c2h
        BY <2>1, <3>1
      <4> QED
        BY <4>1, <4>2, <1>3, <2>1
    <3>2. CASE j = Len(c2h) + 1
      <4>1. objdb /\ \A i \in DOMAIN c2h : c2h[i].op # "destroyed"
        BY <1>1, <1>3, <2>1, <2>3, <3>2 DEF NotTold
      <4>2. \A i \in DOMAIN c2h' : i < j => i \in DOMAIN c2h
        BY <2>1, <3>2
      <4> QED
        BY <4>1, <4>2, <1>3, <2>1
    <3> QED
      BY <3>1, <3>2, <2>1
  <2> QED
    BY <2>2, <2>3 DEF TellsLast, PacketAt
<1>4. ASSUME c2h # <<>>, c2h' = Tail(c2h), exists' = exists,
             Head(c2h).op # "destroyed" /\ objdb => objdb'
      PROVE  NotTold' /\ TellsLast'
  <2>1. /\ 1 \in DOMAIN c2h /\ Head(c2h) = c2h[1]
        /\ \A i \in DOMAIN c2h' : i \in Nat \ {0} /\ i + 1 \in DOMAIN c2h /\ c2h'[i] = c2h[i + 1]
    BY <1>1, <1>4, TailOf
  <2>2. NotTold'
    <3>1. ASSUME exists PROVE objdb /\ \A i \in DOMAIN c2h : c2h[i].op # "destroyed"
      BY <1>1, <3>1 DEF NotTold
    <3>2. ASSUME exists PROVE objdb' /\ \A i \in DOMAIN c2h' : c2h'[i].op # "destroyed"
      <4>1. Head(c2h).op # "destroyed"
        BY <3>1, <3>2, <2>1
      <4>2. objdb'
        BY <3>1, <3>2, <4>1, <1>4
      <4>3. ASSUME NEW i \in DOMAIN c2h' PROVE c2h'[i].op # "destroyed"
        BY <3>1, <3>2, <2>1
      <4> QED
        BY <4>2, <4>3
    <3> QED
      BY <3>2, <1>4 DEF NotTold
  <2>3. ASSUME NEW j \in DOMAIN c2h', c2h'[j].op = "packet", c2h'[j].l = "cmd"
        PROVE  objdb' /\ \A i \in DOMAIN c2h' : i < j => c2h'[i].op # "destroyed"
    <3>1. j \in Nat \ {0} /\ j + 1 \in PacketAt /\ c2h[j + 1].l = "cmd"
      BY <2>1, <2>3 DEF PacketAt
    <3>2. objdb /\ \A i \in DOMAIN c2h : i < j + 1 => c2h[i].op # "destroyed"
      BY <3>1, <1>1 DEF TellsLast
    <3>3. Head(c2h).op # "destroyed"
      BY <3>1, <3>2, <2>1
    <3>4. ASSUME NEW i \in DOMAIN c2h', i < j PROVE c2h'[i].op # "destroyed"
      BY <3>1, <3>2, <3>4, <2>1
    <3> QED
      BY <3>2, <3>3, <3>4, <1>4
  <2> QED
    BY <2>2, <2>3 DEF TellsLast, PacketAt
<1>5. ASSUME NEW l \in Lists, NEW op \in {"exec", "context", "fatal", "cleared", "destroyed"}, c2h' = Append(c2h, Event(op, l)),
             objdb' = objdb, exists' => exists, op = "destroyed" => ~exists'
      PROVE  NotTold' /\ TellsLast'
  <2>1. Event(op, l) \in Reported /\ Event(op, l).op = op
    BY ErrorsAssumption DEF Event, Reported
  <2> QED
    BY <1>3, <1>5, <2>1
<1>6. ASSUME NEW t \in Waiter, wait_start(t) \/ Wait(t) \/ wait_timeout(t) PROVE NotTold' /\ TellsLast'
  BY <1>2, <1>6 DEF Wait, wait_start, wait_test, wait_late, wait_startQuery, wait_send, wait_query, wait_restore, wait_timeout
<1>7. ASSUME recover \/ Recover \/ list_startQuery \/ User \/ list_destroy PROVE NotTold' /\ TellsLast'
  BY <1>2, <1>7 DEF recover, Recover, recover_startQuery, recover_send, recover_query, recover_failed,
                    list_startQuery, User, list_send, list_query, list_destroy
<1>8. ASSUME Respond PROVE NotTold' /\ TellsLast'
  BY <1>4, <1>8 DEF Respond, critical_event, error_packet, error_failed, error_cleared, list_destroyed, Receive
<1>9. ASSUME card_takes PROVE NotTold' /\ TellsLast'
  <2>1. UNCHANGED objdb
    BY <1>9, Takes
  <2>2. ASSUME TakesQuery(Head(h2c).l, Head(h2c).id), Head(h2c).l \in Lists PROVE NotTold' /\ TellsLast'
    <3>1. \A v \in {"ok", "io_error"} : Failed(Head(h2c).l, v) \in Reported /\ Failed(Head(h2c).l, v).op = "failed"
      BY <2>2, ErrorsAssumption DEF Failed, Reported
    <3> QED
      BY <2>1, <2>2, <3>1, <1>2, <1>3 DEF TakesQuery
  <2>3. ASSUME Head(h2c).l \in Lists, TakesClear(Head(h2c).l) \/ TakesDestroy(Head(h2c).l) PROVE NotTold' /\ TellsLast'
    <3>1. CASE TakesClear(Head(h2c).l)
      BY <2>1, <2>3, <3>1, <1>5 DEF TakesClear
    <3>2. CASE TakesDestroy(Head(h2c).l)
      BY <2>1, <2>3, <3>2, <1>5 DEF TakesDestroy
    <3> QED
      BY <2>3, <3>1, <3>2
  <2> QED
    BY <1>9, <2>1, <2>2, <2>3, <1>2, Takes DEF TakesUpdate
<1>10. ASSUME card_updates PROVE NotTold' /\ TellsLast'
  BY <1>2, <1>10 DEF card_updates
<1>11. ASSUME card_sends PROVE NotTold' /\ TellsLast'
  <2>1. /\ c2h' = Append(c2h, NextPacket) /\ NextPacket \in Reported /\ ans.id # 0
        /\ UNCHANGED <<objdb, exists>>
    BY <1>11, Sends
  <2>2. NextPacket.op = "packet" /\ (NextPacket.l = "cmd" => exists)
    BY <1>1, <2>1 DEF NextPacket, NoneLeft
  <2> QED
    BY <2>1, <2>2, <1>3
<1>12. ASSUME card_dies \/ \E l \in Lists : card_fails(l) PROVE NotTold' /\ TellsLast'
  BY <1>2, <1>5, <1>12 DEF card_dies, card_fails, Lists
<1> QED
  BY <1>6, <1>7, <1>8, <1>9, <1>10, <1>11, <1>12 DEF Next, Card

\* A step keeps the end of a list.
LEMMA DestroyedNext == ASSUME Types, Destroyed, Next PROVE Destroyed'
<1> USE DEF ringVars, cardVars, threadVars, histVars, boundVars, Others, Rest, Host
<1>1. NoneLeft /\ err \in [Lists -> 0 .. MaxErrors] /\ "cmd" \in Lists
  BY DestroyedIs DEF Types, CardTypes, Lists
<1>2. ASSUME UNCHANGED <<err, exists, ans>> PROVE NoneLeft'
  BY <1>1, <1>2 DEF NoneLeft
<1>3. ASSUME card_takes PROVE NoneLeft'
  <2>1. ASSUME TakesQuery(Head(h2c).l, Head(h2c).id), Head(h2c).l \in Lists PROVE NoneLeft'
    BY <1>1, <2>1 DEF TakesQuery, NoneLeft
  <2>2. ASSUME TakesClear(Head(h2c).l), Head(h2c).l \in Lists PROVE NoneLeft'
    BY <1>1, <2>2 DEF TakesClear, NoneLeft
  <2>3. ASSUME TakesDestroy(Head(h2c).l) PROVE NoneLeft'
    BY <1>1, <2>3 DEF TakesDestroy, NoneLeft
  <2> QED
    BY <1>2, <1>3, <2>1, <2>2, <2>3, Takes DEF TakesUpdate
<1>4. ASSUME card_sends PROVE NoneLeft'
  <2>1. ans \in [l : Lists, id : Nat, k : Nat, total : 0 .. MaxErrors]
    BY DEF Types, CardTypes
  <2>2. ans'.id # 0 => ans.id # 0 /\ ans'.l = ans.l
    BY <1>4, <2>1, Sends DEF NoAnswer
  <2>3. UNCHANGED <<err, exists>>
    BY <1>4, Sends
  <2> QED
    BY <1>1, <2>2, <2>3 DEF NoneLeft
<1>5. ASSUME NEW l \in Lists, card_fails(l) PROVE NoneLeft'
  BY <1>1, <1>5 DEF card_fails, NoneLeft
<1>6. NoneLeft'
  BY <1>2, <1>3, <1>4, <1>5
  DEF Next, Wait, Recover, User, Respond, Card, wait_start, wait_test, wait_late, wait_startQuery, wait_send, wait_query,
      wait_restore, wait_timeout, recover, recover_startQuery, recover_send, recover_query, recover_failed,
      list_startQuery, list_send, list_query, list_destroy, critical_event, error_packet, error_failed, error_cleared,
      list_destroyed, card_updates, card_dies
<1> QED
  BY <1>6, ToldNext DEF Destroyed, NoneLeft, NotTold, TellsLast

-----------------------------------------------------------------------------
(***************************************************************************)
(* Queries                                                                 *)
(***************************************************************************)

\* How many messages there are about a list, now
LEMMA QueryCounts ==
    ASSUME Types, NEW l \in Lists
    PROVE  /\ Queries(l) \in Nat /\ Ends(l) \in Nat /\ Packets(l) \in Nat
           /\ (Queries(l) = 0 <=> QueryAt(l) = {})
           /\ (Ends(l) = 0 <=> EndAt(l) = {})
           /\ (Packets(l) = 0 <=> PacketOf(l) = {})
           /\ \A i \in PacketOf(l) : Cardinality(Below(PacketOf(l), i)) \in Nat
<1>1. h2c \in Seq(Sent) /\ c2h \in Seq(Reported)
  BY DEF Types, CardTypes
<1> QED
  BY <1>1, Counts DEF Queries, Ends, Packets, QueryAt, EndAt, PacketOf

\* and in the next state.
LEMMA QueryCountsNext ==
    ASSUME Types', NEW l \in Lists
    PROVE  /\ Queries(l)' \in Nat /\ Ends(l)' \in Nat /\ Packets(l)' \in Nat
           /\ (Queries(l)' = 0 <=> QueryAt(l)' = {})
           /\ (Ends(l)' = 0 <=> EndAt(l)' = {})
           /\ (Packets(l)' = 0 <=> PacketOf(l)' = {})
           /\ \A i \in PacketOf(l)' : Cardinality(Below(PacketOf(l)', i)) \in Nat
<1>1. h2c' \in Seq(Sent) /\ c2h' \in Seq(Reported)
  BY DEF Types, CardTypes
<1> QED
  BY <1>1, Counts DEF Queries, Ends, Packets, QueryAt, EndAt, PacketOf

\* The model's UnderWay is to be somewhere.
LEMMA UnderWayIs == ASSUME Types, NEW l \in Lists PROVE UnderWay(l) <=> Somewhere(l)
<1>1. /\ Queries(l) \in Nat /\ Ends(l) \in Nat /\ Packets(l) \in Nat
      /\ (Queries(l) = 0 <=> QueryAt(l) = {})
      /\ (Ends(l) = 0 <=> EndAt(l) = {})
      /\ (Packets(l) = 0 <=> PacketOf(l) = {})
  BY QueryCounts
<1>2. Somewhere(l) <=> QueryAt(l) # {} \/ EndAt(l) # {} \/ PacketOf(l) # {} \/ Answering(l)
  BY <1>1 DEF Somewhere
<1>3. QueryAt(l) # {} <=> \E i \in DOMAIN h2c : h2c[i].l = l /\ h2c[i].op \in {"query", "clear"}
  BY DEF QueryAt, At
<1>4. EndAt(l) # {} \/ PacketOf(l) # {} <=> \E i \in DOMAIN c2h : c2h[i].l = l /\ c2h[i].op \in {"packet", "failed", "cleared"}
  BY DEF EndAt, PacketOf, At
<1> QED
  BY <1>2, <1>3, <1>4 DEF UnderWay, Answering

\* What does not concern the query of a list.
AsksQuiet(l) ==
    \/ h2c' = h2c
    \/ \E m \in Sent : ~(m.op \in {"query", "clear"} /\ m.l \in {l}) /\ h2c' = Append(h2c, m)
    \/ h2c # <<>> /\ ~(Head(h2c).op \in {"query", "clear"} /\ Head(h2c).l \in {l}) /\ h2c' = Tail(h2c)
    \/ \E n \in DOMAIN h2c : h2c[n].op = "update" /\ h2c' = RemoveAt(h2c, n)
Replies == {"packet", "failed", "cleared"}
RepliesQuiet(l) ==
    \/ c2h' = c2h
    \/ \E m \in Reported : ~(m.op \in Replies /\ m.l \in {l}) /\ c2h' = Append(c2h, m)
    \/ c2h # <<>> /\ ~(Head(c2h).op \in Replies /\ Head(c2h).l \in {l}) /\ c2h' = Tail(c2h)

QueriesKept(l) ==
    Queries(l)' = Queries(l) /\ \A i \in QueryAt(l)' : \E j \in QueryAt(l) : h2c'[i] = h2c[j]
EndsKept(l) == Carried(c2h, EndAt(l), c2h', EndAt(l)')
PacketsKept(l) == Carried(c2h, PacketOf(l), c2h', PacketOf(l)')

LEMMA QuietAsks == ASSUME Types, NEW l \in Lists, AsksQuiet(l) PROVE QueriesKept(l)
<1> DEFINE ops == {"query", "clear"}
           S == At(h2c, ops, {l})
           T == At(h2c', ops, {l})
<1>1. h2c \in Seq(Sent)
  BY DEF Types, CardTypes
<1>2. ASSUME Carried(h2c, S, h2c', T) PROVE QueriesKept(l)
  BY <1>2 DEF Carried, QueriesKept, Queries, QueryAt
<1>3. CASE h2c' = h2c
  BY <1>3 DEF QueriesKept, Queries, QueryAt
<1>4. CASE \E m \in Sent : ~(m.op \in ops /\ m.l \in {l}) /\ h2c' = Append(h2c, m)
  BY <1>1, <1>2, <1>4, Appended
<1>5. CASE h2c # <<>> /\ ~(Head(h2c).op \in ops /\ Head(h2c).l \in {l}) /\ h2c' = Tail(h2c)
  BY <1>1, <1>2, <1>5, Taken
<1>6. CASE \E n \in DOMAIN h2c : h2c[n].op = "update" /\ h2c' = RemoveAt(h2c, n)
  <2>1. PICK n \in DOMAIN h2c : h2c[n].op = "update" /\ h2c' = RemoveAt(h2c, n)
    BY <1>6
  <2>2. ~(h2c[n].op \in ops /\ h2c[n].l \in {l})
    BY <2>1
  <2>3. AsMany(h2c, S, h2c', T)
    BY <1>1, <2>1, <2>2, Removed
  <2> QED
    BY <2>3 DEF AsMany, QueriesKept, Queries, QueryAt
<1> QED
  BY <1>3, <1>4, <1>5, <1>6 DEF AsksQuiet

LEMMA QuietReplies == ASSUME Types, NEW l \in Lists, RepliesQuiet(l) PROVE EndsKept(l) /\ PacketsKept(l)
<1>1. c2h \in Seq(Reported)
  BY DEF Types, CardTypes
<1>2. CASE c2h' = c2h
  BY <1>2 DEF EndsKept, PacketsKept, Carried, EndAt, PacketOf
<1>3. CASE \E m \in Reported : ~(m.op \in Replies /\ m.l \in {l}) /\ c2h' = Append(c2h, m)
  <2>1. PICK m \in Reported : ~(m.op \in Replies /\ m.l \in {l}) /\ c2h' = Append(c2h, m)
    BY <1>3
  <2>2. ~(m.op \in {"failed", "cleared"} /\ m.l \in {l}) /\ ~(m.op \in {"packet"} /\ m.l \in {l})
    BY <2>1 DEF Replies
  <2> QED
    BY <1>1, <2>1, <2>2, Appended DEF EndsKept, PacketsKept, EndAt, PacketOf
<1>4. CASE c2h # <<>> /\ ~(Head(c2h).op \in Replies /\ Head(c2h).l \in {l}) /\ c2h' = Tail(c2h)
  <2>1. /\ ~(Head(c2h).op \in {"failed", "cleared"} /\ Head(c2h).l \in {l})
        /\ ~(Head(c2h).op \in {"packet"} /\ Head(c2h).l \in {l})
    BY <1>4 DEF Replies
  <2> QED
    BY <1>1, <1>4, <2>1, Taken DEF EndsKept, PacketsKept, EndAt, PacketOf
<1> QED
  BY <1>2, <1>3, <1>4 DEF RepliesQuiet

\* Who sends is no other than before.
SendersKept(l) ==
    /\ l = "ctx" => \A t \in Waiter : w'[t] = "send" => w[t] = "send"
    /\ l = "cmd" => (usr' = "send" => usr = "send")
    /\ l = "ctx" => (rec' = "send" => rec = "send")

\* A step that does not concern the list.
LEMMA QueryKept ==
    ASSUME Types, Types', NEW l \in Lists, Query(l), list'[l] = list[l], asked'[l] = asked[l], SendersKept(l),
           Answering(l)' <=> Answering(l), Answering(l) => ans' = ans,
           QueriesKept(l), EndsKept(l), PacketsKept(l)
    PROVE  Query(l)'
<1>1. /\ Queries(l)' = Queries(l) /\ Ends(l)' = Ends(l) /\ Packets(l)' = Packets(l)
      /\ \A i \in QueryAt(l)' : \E j \in QueryAt(l) : h2c'[i] = h2c[j]
      /\ \A i \in EndAt(l)' : \E j \in EndAt(l) : c2h'[i] = c2h[j]
  BY DEF QueriesKept, EndsKept, PacketsKept, Carried, Queries, Ends, Packets
<1>2. \A i \in PacketOf(l)' : \E j \in PacketOf(l) :
          c2h'[i] = c2h[j] /\ Cardinality(Below(PacketOf(l)', i)) = Cardinality(Below(PacketOf(l), j))
  BY DEF PacketsKept, Carried
<1>3. (Asking(l)' => Asking(l)) /\ (Clearing(l)' => Clearing(l)) /\ (Somewhere(l)' <=> Somewhere(l))
  <2>1. l = "ctx" \/ l = "cmd"
    BY DEF Lists
  <2>2. Asking(l)' => Asking(l)
    BY <2>1 DEF SendersKept, Asking
  <2>3. Clearing(l)' => Clearing(l)
    BY DEF SendersKept, Clearing
  <2>4. Somewhere(l)' <=> Somewhere(l)
    BY <1>1 DEF Somewhere
  <2> QED
    BY <2>2, <2>3, <2>4
<1>4. InOnePlace(l)'
  <2>1. l = "ctx" => \A t, u \in Waiter : w'[t] = "send" /\ w'[u] = "send" => t = u
    BY DEF Query, InOnePlace, SendersKept
  <2> QED
    BY <1>1, <1>3, <2>1 DEF Query, InOnePlace
<1>5. EmptyBefore(l)'
  <2>1. Empty(l)' <=> Empty(l)
    BY DEF Empty
  <2> QED
    BY <1>1, <1>3, <2>1 DEF Query, EmptyBefore
<1>6. Arriving(l)'
  <2>1. Whole(l)' = Whole(l)
    BY <1>1 DEF Whole
  <2>2. ASSUME Packets(l) > 0 \/ Answering(l)
        PROVE  /\ list[l].descs = <<>>
               /\ \A k \in 1 .. Len(list[l].data) : list[l].data[k] = [id |-> asked[l], k |-> k]
               /\ list[l].buf \in {0, Whole(l)}
               /\ \A i \in PacketOf(l) :
                     /\ c2h[i].id = asked[l] /\ c2h[i].total = Whole(l)
                     /\ c2h[i].k = Len(list[l].data) + Cardinality(Below(PacketOf(l), i)) + 1
               /\ Answering(l) => ans.id = asked[l] /\ ans.k = Len(list[l].data) + Packets(l)
    BY <2>2 DEF Query, Arriving
  <2>3. ASSUME Packets(l) > 0 \/ Answering(l), NEW i \in PacketOf(l)'
        PROVE  /\ c2h'[i].id = asked'[l] /\ c2h'[i].total = Whole(l)'
               /\ c2h'[i].k = Len(list'[l].data) + Cardinality(Below(PacketOf(l)', i)) + 1
    <3>1. PICK j \in PacketOf(l) :
             c2h'[i] = c2h[j] /\ Cardinality(Below(PacketOf(l)', i)) = Cardinality(Below(PacketOf(l), j))
      BY <1>2
    <3> QED
      BY <2>1, <2>2, <2>3, <3>1
  <2>4. ASSUME Packets(l) > 0 \/ Answering(l)
        PROVE  /\ list'[l].descs = <<>>
               /\ \A k \in 1 .. Len(list'[l].data) : list'[l].data[k] = [id |-> asked'[l], k |-> k]
               /\ list'[l].buf \in {0, Whole(l)'}
               /\ Answering(l)' => ans'.id = asked'[l] /\ ans'.k = Len(list'[l].data) + Packets(l)'
    BY <1>1, <2>1, <2>2, <2>4
  <2> QED
    BY <1>1, <2>3, <2>4 DEF Arriving, Below
<1>7. Completed(l)'
  BY DEF Query, Completed
<1> QED
  BY <1>4, <1>5, <1>6, <1>7 DEF Query

OneSender(l) ==
    /\ Asking(l) => ~Clearing(l)
    /\ l = "ctx" => \A t, u \in Waiter : w[t] = "send" /\ w[u] = "send" => t = u

\* A query begins, and no other one was under way.
LEMMA QueryBegins ==
    ASSUME Types, Types', NEW l \in Lists, l \notin overlap', l \notin overlap => Query(l),
           startQuery(l) \/ clear_startQuery(l), Asking(l)' => Asking(l) \/ clear_startQuery(l),
           UNCHANGED <<h2c, c2h, ans>>,
           ~Asking(l) /\ ~Clearing(l) => OneSender(l)'
    PROVE  Query(l)'
<1>1. list[l].state # "started" /\ ~Somewhere(l) /\ l \notin overlap
  <2>1. overlap' = IF list[l].state = "started" \/ UnderWay(l) THEN overlap \cup {l} ELSE overlap
    BY DEF startQuery, clear_startQuery
  <2> QED
    BY <2>1, UnderWayIs
<1>2. ~Asking(l) /\ ~Clearing(l)
  BY <1>1 DEF Query, InOnePlace
<1>3. list \in [Lists -> ListRecord]
  BY DEF Types, HostTypes
<1>4. list'[l].state = "started"
  BY <1>3 DEF startQuery, clear_startQuery, Cleared, ListRecord
<1>5. Asking(l)' => Empty(l)'
  <2>1. ASSUME clear_startQuery(l) PROVE list'[l] = [Cleared EXCEPT !.state = "started"]
    BY <1>3, <2>1 DEF clear_startQuery
  <2>2. ASSUME clear_startQuery(l) PROVE Empty(l)'
    BY <2>1, <2>2 DEF Empty, Cleared
  <2> QED
    BY <2>2, <1>2
<1>6. /\ Queries(l)' = Queries(l) /\ Ends(l)' = Ends(l) /\ Packets(l)' = Packets(l)
      /\ QueryAt(l)' = QueryAt(l) /\ EndAt(l)' = EndAt(l)
      /\ (Answering(l)' <=> Answering(l))
  BY DEF Queries, Ends, Packets, QueryAt, EndAt, PacketOf, Answering
<1>7. Queries(l) = 0 /\ Ends(l) = 0 /\ Packets(l) = 0 /\ ~Answering(l) /\ QueryAt(l) = {} /\ EndAt(l) = {}
  BY <1>1, QueryCounts DEF Somewhere
<1>8. ~Somewhere(l)'
  BY <1>6, <1>7 DEF Somewhere
<1>9. InOnePlace(l)'
  BY <1>2, <1>4, <1>6, <1>7, <1>8 DEF InOnePlace, OneSender
<1>10. EmptyBefore(l)'
  BY <1>5, <1>6, <1>7 DEF EmptyBefore
<1>11. Arriving(l)' /\ Completed(l)'
  BY <1>4, <1>6, <1>7 DEF Arriving, Completed
<1> QED
  BY <1>9, <1>10, <1>11 DEF Query

\* It is sent.
LEMMA QuerySent ==
    ASSUME Types, Types', NEW l \in Lists, NEW op \in {"query", "clear"}, Query(l), sendQueryErrorList(l, op),
           IF op = "query" THEN Asking(l) ELSE Clearing(l), ~Asking(l)', ~Clearing(l)', OneSender(l)',
           UNCHANGED <<list, c2h, ans>>
    PROVE  Query(l)'
<1> DEFINE m == [op |-> op, l |-> l, id |-> queries + 1]
<1>1. /\ list[l].state = "started" /\ ~Somewhere(l) /\ (op = "query" => Empty(l))
  BY DEF Query, InOnePlace, EmptyBefore
<1>2. Queries(l) = 0 /\ Ends(l) = 0 /\ Packets(l) = 0 /\ ~Answering(l) /\ QueryAt(l) = {} /\ EndAt(l) = {}
  BY <1>1, QueryCounts DEF Somewhere
<1>3. /\ h2c \in Seq(Sent) /\ queries \in Nat /\ asked \in [Lists -> Nat]
  BY DEF Types, CardTypes, HostTypes
<1>4. h2c' = Append(h2c, m) /\ asked'[l] = queries + 1
  BY <1>3 DEF sendQueryErrorList
<1>5. m \in Sent /\ m.op \in {"query", "clear"} /\ m.l \in {l} /\ m.op = op /\ m.id = queries + 1
  BY <1>3 DEF Sent
<1> HIDE DEF m
<1>6. OneMore(h2c, QueryAt(l), h2c', QueryAt(l)', m)
  <2>1. OneMore(h2c, At(h2c, {"query", "clear"}, {l}), h2c', At(h2c', {"query", "clear"}, {l}), m)
    BY <1>3, <1>4, <1>5, Appended
  <2> QED
    BY <2>1 DEF QueryAt
<1>7. Queries(l)' = 1 /\ \A i \in QueryAt(l)' : h2c'[i] = m
  BY <1>2, <1>6 DEF OneMore, Queries
<1>8. /\ Ends(l)' = 0 /\ Packets(l)' = 0 /\ ~Answering(l)' /\ EndAt(l)' = {}
  BY <1>2 DEF Ends, Packets, EndAt, PacketOf, Answering
<1>9. InOnePlace(l)'
  BY <1>1, <1>7, <1>8 DEF InOnePlace, OneSender
<1>10. EmptyBefore(l)'
  <2>1. Empty(l)' <=> Empty(l)
    BY DEF Empty
  <2> QED
    BY <2>1, <1>1, <1>4, <1>5, <1>7, <1>8 DEF EmptyBefore
<1>11. Arriving(l)' /\ Completed(l)'
  BY <1>1, <1>8 DEF Arriving, Completed
<1> QED
  BY <1>9, <1>10, <1>11 DEF Query

\* The card takes it, and answers or fails, or clears the list.
LEMMA QueryTaken ==
    ASSUME Types, Types', NEW l \in Lists, Query(l), h2c # <<>>, h2c' = Tail(h2c), UNCHANGED Host,
           Head(h2c).l = l,
           \/ Head(h2c).op = "query" /\ TakesQuery(l, Head(h2c).id)
           \/ Head(h2c).op = "clear" /\ TakesClear(l)
    PROVE  Query(l)'
<1> USE DEF Host, threadVars, histVars
<1>1. /\ h2c \in Seq(Sent) /\ c2h \in Seq(Reported) /\ err \in [Lists -> 0 .. MaxErrors]
      /\ Head(h2c).op \in {"query", "clear"} /\ Head(h2c).l \in {l}
  BY DEF Types, CardTypes
<1>2. OneLess(h2c, QueryAt(l), h2c', QueryAt(l)', Head(h2c))
  <2>1. OneLess(h2c, At(h2c, {"query", "clear"}, {l}), h2c', At(h2c', {"query", "clear"}, {l}), Head(h2c))
    BY <1>1, Taken
  <2> QED
    BY <2>1 DEF QueryAt
<1>3. /\ Queries(l) \in Nat /\ Ends(l) \in Nat /\ Packets(l) \in Nat
      /\ Queries(l)' \in Nat /\ Ends(l)' \in Nat /\ Packets(l)' \in Nat
      /\ (Queries(l)' = 0 <=> QueryAt(l)' = {}) /\ (Ends(l) = 0 <=> EndAt(l) = {})
      /\ (Ends(l)' = 0 <=> EndAt(l)' = {}) /\ (Packets(l)' = 0 <=> PacketOf(l)' = {})
  BY QueryCounts, QueryCountsNext
<1>4. Queries(l) = Queries(l)' + 1 /\ (Head(h2c).op = "query" => Empty(l) /\ Head(h2c).id = asked[l])
  <2>1. Queries(l) = Queries(l)' + 1
    BY <1>2 DEF OneLess, Queries
  <2>2. PICK i \in QueryAt(l) : h2c[i] = Head(h2c)
    BY <1>2 DEF OneLess
  <2> QED
    BY <2>1, <2>2 DEF Query, EmptyBefore
<1>5. /\ Queries(l)' = 0 /\ QueryAt(l)' = {} /\ Ends(l) = 0 /\ EndAt(l) = {} /\ Packets(l) = 0 /\ ~Answering(l)
  BY <1>3, <1>4 DEF Query, InOnePlace
<1>6. list[l].state = "started" /\ ~Asking(l) /\ ~Clearing(l) /\ OneSender(l)
  BY <1>3, <1>4 DEF Query, InOnePlace, Somewhere, OneSender
<1>7. /\ list'[l].state = "started" /\ ~Asking(l)' /\ ~Clearing(l)' /\ OneSender(l)'
      /\ (Empty(l)' <=> Empty(l)) /\ asked' = asked /\ list' = list
  BY <1>6 DEF Asking, Clearing, OneSender, Empty
<1>8. ASSUME NEW m \in Reported, m.op \in {"failed", "cleared"}, m.l = l, c2h' = Append(c2h, m), ans' = ans,
             m.op = "failed" => Head(h2c).op = "query"
      PROVE  Query(l)'
  <2>1. OneMore(c2h, EndAt(l), c2h', EndAt(l)', m) /\ PacketsKept(l)
    <3>1. m.l \in {l} /\ ~(m.op \in {"packet"} /\ m.l \in {l})
      BY <1>8
    <3>2. OneMore(c2h, At(c2h, {"failed", "cleared"}, {l}), c2h', At(c2h', {"failed", "cleared"}, {l}), m)
      BY <1>1, <1>8, <3>1, Appended
    <3>3. Carried(c2h, At(c2h, {"packet"}, {l}), c2h', At(c2h', {"packet"}, {l}))
      BY <1>1, <1>8, <3>1, Appended
    <3> QED
      BY <3>2, <3>3 DEF EndAt, PacketsKept, PacketOf
  <2>2. Ends(l)' = 1 /\ Packets(l)' = 0 /\ ~Answering(l)' /\ \A i \in EndAt(l)' : c2h'[i] = m
    <3>1. Ends(l)' = Ends(l) + 1 /\ \A i \in EndAt(l)' : c2h'[i] = m
      BY <2>1, <1>5 DEF OneMore, Ends
    <3>2. Packets(l)' = Packets(l)
      BY <2>1 DEF PacketsKept, Carried, Packets
    <3>3. ~Answering(l)'
      BY <1>5, <1>8 DEF Answering
    <3> QED
      BY <3>1, <3>2, <3>3, <1>5
  <2>3. InOnePlace(l)'
    BY <2>2, <1>5, <1>7 DEF InOnePlace, OneSender
  <2>4. EmptyBefore(l)'
    BY <2>2, <1>4, <1>5, <1>7, <1>8 DEF EmptyBefore
  <2>5. Arriving(l)' /\ Completed(l)'
    BY <2>2, <1>7 DEF Arriving, Completed
  <2> QED
    BY <2>3, <2>4, <2>5 DEF Query
<1>9. ASSUME TakesQuery(l, Head(h2c).id), Head(h2c).op = "query" PROVE Query(l)'
  <2>1. \A v \in {"ok", "io_error"} : /\ Failed(l, v) \in Reported /\ Failed(l, v).op = "failed"
                                     /\ Failed(l, v).l = l
    BY ErrorsAssumption DEF Failed, Reported
  <2>2. CASE \E v \in {"ok", "io_error"} : c2h' = Append(c2h, Failed(l, v)) /\ ans' = ans
    BY <1>8, <1>9, <2>1, <2>2
  <2>3. CASE err[l] # 0 /\ ans' = [l |-> l, id |-> Head(h2c).id, k |-> 0, total |-> err[l]] /\ UNCHANGED c2h
    <3>1. ans'.l = l /\ ans'.id = asked[l] /\ ans'.k = 0 /\ ans'.total = err[l]
      BY <2>3, <1>4, <1>9
    <3>2. /\ Ends(l)' = 0 /\ Packets(l)' = 0 /\ EndAt(l)' = {} /\ PacketOf(l)' = {}
      <4>1. Ends(l)' = Ends(l) /\ Packets(l)' = Packets(l)
        BY <2>3 DEF Ends, Packets, EndAt, PacketOf
      <4> QED
        BY <4>1, <1>3, <1>5
    <3>3. InOnePlace(l)'
      BY <3>2, <1>5, <1>7 DEF InOnePlace, OneSender
    <3>4. EmptyBefore(l)'
      BY <3>2, <1>5, <1>7 DEF EmptyBefore
    <3>5. list'[l].data = <<>> /\ list'[l].descs = <<>> /\ list'[l].buf = 0 /\ Len(list'[l].data) = 0
      <4>1. list'[l].data = <<>> /\ list'[l].descs = <<>> /\ list'[l].buf = 0
        BY <1>4, <1>7, <1>9 DEF Empty
      <4>2. Len(<<>>) = 0
        OBVIOUS
      <4> QED
        BY <4>1, <4>2
    <3>6. Arriving(l)'
      BY <3>1, <3>2, <3>5, <1>7 DEF Arriving
    <3>7. Completed(l)'
      BY <1>7 DEF Completed
    <3> QED
      BY <3>3, <3>4, <3>6, <3>7 DEF Query
  <2> QED
    BY <1>9, <2>2, <2>3 DEF TakesQuery
<1>10. ASSUME TakesClear(l) PROVE Query(l)'
  <2>1. Event("cleared", l) \in Reported /\ Event("cleared", l).op = "cleared" /\ Event("cleared", l).l = l
    BY ErrorsAssumption DEF Event, Reported
  <2> QED
    BY <1>8, <1>10, <2>1 DEF TakesClear
<1> QED
  BY <1>9, <1>10

\* The card sends the next packet of its answer.
LEMMA PacketSent ==
    ASSUME Types, Types', NEW l \in Lists, Query(l), card_sends, ans.l = l
    PROVE  Query(l)'
<1> USE DEF Host, threadVars, histVars
<1> DEFINE len == Len(list[l].data)
<1>1. /\ c2h' = Append(c2h, NextPacket) /\ NextPacket \in Reported /\ ans.id # 0
      /\ ans' = IF ans.k + 1 = ans.total THEN NoAnswer ELSE [ans EXCEPT !.k = @ + 1]
      /\ UNCHANGED <<list, w, rec, usr, asked, h2c>>
  BY Sends
<1>2. /\ c2h \in Seq(Reported) /\ ans \in [l : Lists, id : Nat, k : Nat, total : 0 .. MaxErrors]
      /\ len \in Nat
  <2>1. list[l] \in ListRecord
    BY DEF Types, HostTypes
  <2>2. list[l].data \in Seq(Packet)
    BY <2>1 DEF ListRecord
  <2> QED
    BY <2>2 DEF Types, CardTypes
<1>3. /\ NextPacket.op = "packet" /\ NextPacket.l = l /\ NextPacket.id = ans.id
      /\ NextPacket.k = ans.k + 1 /\ NextPacket.total = ans.total
  BY DEF NextPacket
<1>4. OneMore(c2h, PacketOf(l), c2h', PacketOf(l)', NextPacket) /\ EndsKept(l)
  <2>1. NextPacket.op \in {"packet"} /\ NextPacket.l \in {l} /\ ~(NextPacket.op \in {"failed", "cleared"} /\ NextPacket.l \in {l})
    BY <1>3
  <2>2. OneMore(c2h, At(c2h, {"packet"}, {l}), c2h', At(c2h', {"packet"}, {l}), NextPacket)
    BY <2>1, <1>1, <1>2, Appended
  <2>3. Carried(c2h, At(c2h, {"failed", "cleared"}, {l}), c2h', At(c2h', {"failed", "cleared"}, {l}))
    BY <2>1, <1>1, <1>2, Appended
  <2> QED
    BY <2>2, <2>3 DEF PacketOf, EndsKept, EndAt
<1>5. Answering(l)
  BY <1>1 DEF Answering
<1>6. /\ Queries(l) \in Nat /\ Ends(l) \in Nat /\ Packets(l) \in Nat
      /\ (Queries(l) = 0 <=> QueryAt(l) = {}) /\ (Ends(l)' = 0 <=> EndAt(l)' = {})
  BY QueryCounts, QueryCountsNext
<1>7. /\ Queries(l) = 0 /\ Ends(l) = 0 /\ list[l].state = "started" /\ ~Asking(l) /\ ~Clearing(l) /\ OneSender(l)
  BY <1>5, <1>6 DEF Query, InOnePlace, Somewhere, OneSender
<1>8. /\ list[l].descs = <<>>
      /\ \A k \in 1 .. len : list[l].data[k] = [id |-> asked[l], k |-> k]
      /\ list[l].buf \in {0, ans.total}
      /\ \A i \in PacketOf(l) : /\ c2h[i].id = asked[l] /\ c2h[i].total = ans.total
                                /\ c2h[i].k = len + Cardinality(Below(PacketOf(l), i)) + 1
      /\ ans.id = asked[l] /\ ans.k = len + Packets(l)
  BY <1>5 DEF Query, Arriving, Whole
<1>9. /\ Packets(l)' = Packets(l) + 1 /\ Ends(l)' = 0 /\ Queries(l)' = 0
      /\ QueryAt(l)' = {} /\ EndAt(l)' = {}
  <2>1. Packets(l)' = Packets(l) + 1
    BY <1>4 DEF OneMore, Packets
  <2>2. Ends(l)' = Ends(l)
    BY <1>4 DEF EndsKept, Carried, Ends
  <2>3. Queries(l)' = Queries(l) /\ QueryAt(l)' = QueryAt(l)
    BY <1>1 DEF Queries, QueryAt
  <2> QED
    BY <2>1, <2>2, <2>3, <1>6, <1>7
<1>10. ~Asking(l)' /\ ~Clearing(l)' /\ OneSender(l)'
  BY <1>1, <1>7 DEF Asking, Clearing, OneSender
<1>11. \/ ~Answering(l)' /\ ans.k + 1 = ans.total
       \/ Answering(l)' /\ ans'.id = ans.id /\ ans'.k = ans.k + 1 /\ ans'.total = ans.total
  <2>1. CASE ans.k + 1 = ans.total
    BY <2>1, <1>1 DEF Answering, NoAnswer
  <2>2. CASE ans.k + 1 # ans.total
    <3>1. ans' = [ans EXCEPT !.k = @ + 1]
      BY <2>2, <1>1
    <3>2. ans'.id = ans.id /\ ans'.k = ans.k + 1 /\ ans'.total = ans.total /\ ans'.l = ans.l
      BY <3>1, <1>2
    <3> QED
      BY <3>2, <1>1 DEF Answering
  <2> QED
    BY <2>1, <2>2
<1>12. Whole(l)' = ans.total /\ (Answering(l)' => ans'.id = ans.id /\ ans'.k = len + Packets(l)')
  <2>1. CASE ~Answering(l)' /\ ans.k + 1 = ans.total
    <3>1. Whole(l)' = len + Packets(l)'
      BY <2>1, <1>1 DEF Whole
    <3>2. ans.k = len + Packets(l) /\ Packets(l)' = Packets(l) + 1
      BY <1>8, <1>9
    <3>3. len \in Nat /\ Packets(l) \in Nat
      BY <1>2, <1>6
    <3>4. ans.k + 1 = len + (Packets(l) + 1)
      <4> HIDE DEF len
      <4> QED
        BY <3>2, <3>3
    <3> HIDE DEF len
    <3> QED
      BY <2>1, <3>1, <3>2, <3>4
  <2>2. CASE Answering(l)' /\ ans'.id = ans.id /\ ans'.k = ans.k + 1 /\ ans'.total = ans.total
    <3>1. Whole(l)' = ans'.total
      BY <2>2 DEF Whole
    <3>2. ans'.k = len + Packets(l)'
      <4>1. ans'.k = ans.k + 1 /\ ans.k = len + Packets(l) /\ Packets(l)' = Packets(l) + 1
        BY <2>2, <1>8, <1>9
      <4>2. len \in Nat /\ Packets(l) \in Nat
        BY <1>2, <1>6
      <4> HIDE DEF len
      <4> QED
        BY <4>1, <4>2
    <3> QED
      BY <2>2, <3>1, <3>2
  <2> QED
    BY <2>1, <2>2, <1>11
<1>13. InOnePlace(l)'
  BY <1>1, <1>7, <1>9, <1>10 DEF InOnePlace, OneSender
<1>14. EmptyBefore(l)'
  BY <1>9, <1>10 DEF EmptyBefore
<1>15. ASSUME NEW i \in PacketOf(l)'
       PROVE  /\ c2h'[i].id = asked'[l] /\ c2h'[i].total = Whole(l)'
              /\ c2h'[i].k = Len(list'[l].data) + Cardinality(Below(PacketOf(l)', i)) + 1
  <2>1. CASE c2h'[i] = NextPacket /\ Cardinality(Below(PacketOf(l)', i)) = Packets(l)
    BY <2>1, <1>1, <1>3, <1>8, <1>12
  <2>2. CASE \E j \in PacketOf(l) : c2h'[i] = c2h[j] /\ Cardinality(Below(PacketOf(l)', i)) = Cardinality(Below(PacketOf(l), j))
    <3>1. PICK j \in PacketOf(l) : c2h'[i] = c2h[j] /\ Cardinality(Below(PacketOf(l)', i)) = Cardinality(Below(PacketOf(l), j))
      BY <2>2
    <3> QED
      BY <3>1, <1>1, <1>8, <1>12
  <2> QED
    BY <2>1, <2>2, <1>4 DEF OneMore, Packets
<1>16. Arriving(l)'
  <2>1. /\ list'[l].descs = <<>>
        /\ \A k \in 1 .. Len(list'[l].data) : list'[l].data[k] = [id |-> asked'[l], k |-> k]
        /\ list'[l].buf \in {0, Whole(l)'}
        /\ Answering(l)' => ans'.id = asked'[l] /\ ans'.k = Len(list'[l].data) + Packets(l)'
    BY <1>1, <1>8, <1>12
  <2> QED
    BY <2>1, <1>15 DEF Arriving, Below
<1>17. Completed(l)'
  BY <1>1, <1>7 DEF Completed
<1> QED
  BY <1>13, <1>14, <1>16, <1>17 DEF Query

\* A packet that fits is put behind those in the buffer, and the last one
\* completes the query.
LEMMA PacketStored ==
    ASSUME HostTypes, NEW l \in Lists, NEW packet \in Packet, NEW total \in 1 .. MaxErrors,
           appendErrorListPacket(l, packet, total), list[l].state = "started", list[l].buf \in {0, total},
           Len(list[l].data) < total, list[l].descs = <<>>
    PROVE  /\ list'[l].buf = total /\ list'[l].data = Append(list[l].data, packet)
           /\ \A x \in Lists \ {l} : list'[x] = list[x]
           /\ \/ /\ Len(list[l].data) + 1 = total /\ Notify
                 /\ list'[l].state = "completed" /\ list'[l].val = "ok" /\ list'[l].descs = list'[l].data
              \/ /\ Len(list[l].data) + 1 < total /\ UNCHANGED threadVars
                 /\ list'[l].state = "started" /\ list'[l].descs = <<>>
<1> DEFINE r == list[l]
           new == [r EXCEPT !.buf = total, !.data = Append(@, packet)]
<1>1. list \in [Lists -> ListRecord] /\ r \in ListRecord
  BY DEF HostTypes
<1>2. r.data \in Seq(Packet) /\ Len(r.data) \in Nat
  BY <1>1 DEF ListRecord
<1> DEFINE buf == IF r.buf = 0 THEN total ELSE r.buf
           put == [r EXCEPT !.buf = buf, !.data = Append(@, packet)]
<1>3. buf = total
  OBVIOUS
<1>4. Append(r.data, packet) \in Seq(Packet) /\ Len(Append(r.data, packet)) = Len(r.data) + 1
  BY <1>2
<1>5. IF Len(new.data) = total THEN completeQuery(l, new, "ok")
      ELSE list' = [list EXCEPT ![l] = new] /\ UNCHANGED threadVars
  <2>1. IF Len(r.data) + 1 > buf THEN completeQuery(l, [r EXCEPT !.buf = buf], "no_memory")
        ELSE IF Len(put.data) = total THEN completeQuery(l, put, "ok")
        ELSE list' = [list EXCEPT ![l] = put] /\ UNCHANGED threadVars
    BY DEF appendErrorListPacket
  <2>2. ~(Len(r.data) + 1 > total)
    BY <1>2
  <2> HIDE DEF buf
  <2>3. put = new
    BY <1>3, Zenon
  <2> HIDE DEF put, new, r
  <2> QED
    BY <2>1, <2>2, <2>3, <1>3
<1> HIDE DEF r, buf, put
<1>6. /\ new \in [state : {"cleared", "started", "completed"}, buf : Nat, data : Seq(Packet),
                  descs : Seq(Packet), val : {"ok", "io_error", "no_memory"}]
      /\ new.buf = total /\ new.data = Append(r.data, packet) /\ new.descs = r.descs /\ new.state = r.state
  <2>1. total \in Nat
    OBVIOUS
  <2> QED
    BY <1>1, <1>4, <2>1 DEF ListRecord
<1>7. Len(new.data) = Len(r.data) + 1 /\ <<>> \o new.data = new.data
  BY <1>4, <1>6
<1> HIDE DEF new
<1>8. CASE Len(r.data) + 1 = total
  <2> DEFINE done == [new EXCEPT !.state = "completed", !.val = "ok", !.descs = @ \o new.data]
  <2>1. list' = [list EXCEPT ![l] = done] /\ Notify
    BY <1>5, <1>7, <1>8 DEF completeQuery
  <2>2. /\ done.buf = new.buf /\ done.data = new.data /\ done.state = "completed" /\ done.val = "ok"
        /\ done.descs = new.descs \o new.data
    BY <1>6
  <2> HIDE DEF done
  <2>3. list'[l] = done /\ \A x \in Lists \ {l} : list'[x] = list[x]
    BY <2>1, <1>1
  <2>4. done.descs = done.data
    BY <2>2, <1>6, <1>7 DEF r
  <2> QED
    BY <2>1, <2>2, <2>3, <2>4, <1>6, <1>8 DEF r
<1>9. CASE Len(r.data) + 1 # total
  <2>1. list' = [list EXCEPT ![l] = new] /\ UNCHANGED threadVars
    BY <1>5, <1>7, <1>9
  <2>2. list'[l] = new /\ \A x \in Lists \ {l} : list'[x] = list[x]
    BY <2>1, <1>1
  <2>3. Len(r.data) + 1 < total
    BY <1>2, <1>9 DEF r
  <2> QED
    BY <2>1, <2>2, <2>3, <1>6 DEF r
<1> QED
  BY <1>8, <1>9

\* The host reads the first packet.
LEMMA PacketRead ==
    ASSUME Types, Types', Ring, Destroyed, NEW l \in Lists, Query(l), error_packet, Head(c2h).l = l
    PROVE  Query(l)'
<1> USE DEF ringVars, cardVars, histVars, threadVars
<1> DEFINE len == Len(list[l].data)
           total == Head(c2h).total
           upd == [op |-> "update", l |-> "ctx", id |-> 0]
<1>1. /\ c2h \in Seq(Reported) /\ h2c \in Seq(Sent) /\ list \in [Lists -> ListRecord]
      /\ ans \in [l : Lists, id : Nat, k : Nat, total : 0 .. MaxErrors]
      /\ ans.id # 0 => ans.k < ans.total
  BY DEF Types, CardTypes, HostTypes
<1>2. c2h # <<>> /\ c2h' = Tail(c2h) /\ Head(c2h).op = "packet"
  BY DEF error_packet, Receive
<1>3. 1 \in PacketAt /\ Head(c2h) = c2h[1]
  BY <1>1, <1>2, TailOf DEF PacketAt
<1>4. /\ appendErrorListPacket(l, page[m_head], total) /\ h2c' = Append(h2c, upd)
      /\ UNCHANGED <<asked, ans>>
  <2>1. ~(Head(c2h).l = "cmd" /\ ~objdb)
    BY <1>3 DEF Destroyed
  <2> QED
    BY <2>1 DEF error_packet
<1>5. total \in 1 .. MaxErrors /\ page[m_head] \in Packet
  BY <1>2, EventTypes
<1>6. OneLess(c2h, PacketOf(l), c2h', PacketOf(l)', Head(c2h)) /\ EndsKept(l)
  <2>1. Head(c2h).op \in {"packet"} /\ Head(c2h).l \in {l} /\ ~(Head(c2h).op \in {"failed", "cleared"} /\ Head(c2h).l \in {l})
    BY <1>2
  <2>2. OneLess(c2h, At(c2h, {"packet"}, {l}), c2h', At(c2h', {"packet"}, {l}), Head(c2h))
    BY <2>1, <1>1, <1>2, Taken
  <2>3. Carried(c2h, At(c2h, {"failed", "cleared"}, {l}), c2h', At(c2h', {"failed", "cleared"}, {l}))
    BY <2>1, <1>1, <1>2, Taken
  <2> QED
    BY <2>2, <2>3 DEF PacketOf, EndsKept, EndAt
<1>7. QueriesKept(l)
  <2>1. upd \in Sent /\ ~(upd.op \in {"query", "clear"} /\ upd.l \in {l})
    BY DEF Sent, Lists
  <2> HIDE DEF upd
  <2>2. AsksQuiet(l)
    BY <2>1, <1>4 DEF AsksQuiet
  <2> QED
    BY <2>2, QuietAsks
<1>8. /\ Queries(l) \in Nat /\ Ends(l) \in Nat /\ Packets(l) \in Nat /\ Packets(l)' \in Nat
      /\ (Queries(l)' = 0 <=> QueryAt(l)' = {}) /\ (Ends(l)' = 0 <=> EndAt(l)' = {})
      /\ \A i \in PacketOf(l)' : Cardinality(Below(PacketOf(l)', i)) \in Nat
  BY QueryCounts, QueryCountsNext
<1>9. /\ Packets(l) = Packets(l)' + 1 /\ Queries(l)' = Queries(l) /\ Ends(l)' = Ends(l)
  BY <1>6, <1>7 DEF OneLess, EndsKept, Carried, QueriesKept, Packets, Ends
<1>10. Packets(l) > 0
  BY <1>8, <1>9
<1>11. /\ Queries(l) = 0 /\ Ends(l) = 0 /\ list[l].state = "started" /\ ~Asking(l) /\ ~Clearing(l) /\ OneSender(l)
  BY <1>8, <1>10 DEF Query, InOnePlace, Somewhere, OneSender
<1>12. QueryAt(l)' = {} /\ EndAt(l)' = {} /\ Queries(l)' = 0 /\ Ends(l)' = 0
  BY <1>8, <1>9, <1>11
<1>13. /\ list[l].descs = <<>>
       /\ \A k \in 1 .. len : list[l].data[k] = [id |-> asked[l], k |-> k]
       /\ list[l].buf \in {0, Whole(l)}
       /\ \A i \in PacketOf(l) : /\ c2h[i].id = asked[l] /\ c2h[i].total = Whole(l)
                                 /\ c2h[i].k = len + Cardinality(Below(PacketOf(l), i)) + 1
       /\ Answering(l) => ans.id = asked[l] /\ ans.k = len + Packets(l)
  BY <1>10 DEF Query, Arriving
<1>14. list[l].data \in Seq(Packet) /\ len \in Nat /\ asked[l] \in Nat
  <2>1. list[l] \in ListRecord
    BY <1>1
  <2> QED
    BY <2>1 DEF ListRecord, Types, HostTypes
<1>15. Head(c2h).id = asked[l] /\ total = Whole(l) /\ Head(c2h).k = len + 1
  <2>1. PICK i \in PacketOf(l) : c2h[i] = Head(c2h) /\ Cardinality(Below(PacketOf(l), i)) = 0
    BY <1>6 DEF OneLess
  <2>2. Head(c2h).k = len + 0 + 1
    BY <2>1, <1>13
  <2> QED
    BY <2>1, <2>2, <1>13, <1>14
<1>16. page[m_head] = [id |-> asked[l], k |-> len + 1]
  <2>1. Below(PacketAt, 1) = {}
    BY <1>1 DEF Below, PacketAt
  <2>2. Cardinality(Below(PacketAt, 1)) = 0
    BY <2>1, FS_EmptySet
  <2>3. page[Slot(m_head, 0)] = [id |-> c2h[1].id, k |-> c2h[1].k]
    BY <2>2, <1>3 DEF Ring, RingInStep, Slot
  <2>4. m_head \in 0 .. RingPages - 1 /\ 0 \in 0 .. RingPages
    BY ErrorsAssumption DEF Types, HostTypes
  <2>5. Slot(m_head, 0) = m_head
    BY <2>4, Slots
  <2> QED
    BY <2>3, <2>5, <1>3, <1>15
<1>17. /\ total \in Nat /\ len < total
       /\ (~Answering(l) => total = len + Packets(l))
       /\ (Answering(l) => total = ans.total /\ len + Packets(l) < total)
  <2>1. CASE Answering(l)
    <3>1. total = ans.total /\ ans.k < ans.total /\ ans.k = len + Packets(l)
      BY <2>1, <1>1, <1>13, <1>15 DEF Whole, Answering
    <3> HIDE DEF total, len
    <3> QED
      BY <2>1, <3>1, <1>1, <1>5, <1>8, <1>10, <1>14
  <2>2. CASE ~Answering(l)
    <3>1. total = len + Packets(l)
      BY <2>2, <1>15 DEF Whole
    <3> HIDE DEF total, len
    <3> QED
      BY <2>2, <3>1, <1>8, <1>10, <1>14
  <2> QED
    BY <2>1, <2>2
<1>18. /\ list'[l].buf = total /\ list'[l].data = Append(list[l].data, page[m_head])
       /\ \/ /\ len + 1 = total /\ Notify
             /\ list'[l].state = "completed" /\ list'[l].val = "ok" /\ list'[l].descs = list'[l].data
          \/ /\ len + 1 < total /\ UNCHANGED threadVars
             /\ list'[l].state = "started" /\ list'[l].descs = <<>>
  <2>1. HostTypes /\ list[l].buf \in {0, total}
    BY <1>13, <1>15 DEF Types
  <2> HIDE DEF total
  <2> QED
    BY <2>1, <1>4, <1>5, <1>11, <1>13, <1>17, PacketStored
<1>19. /\ Len(list'[l].data) = len + 1 /\ list'[l].data \in Seq(Packet)
       /\ \A k \in 1 .. len + 1 : list'[l].data[k] = [id |-> asked[l], k |-> k]
  BY <1>5, <1>13, <1>14, <1>16, <1>18
<1>20. ~Asking(l)' /\ ~Clearing(l)' /\ OneSender(l)'
  <2>1. /\ \A t \in Waiter : w'[t] = "send" <=> w[t] = "send"
        /\ (rec' = "send" <=> rec = "send") /\ (usr' = "send" <=> usr = "send")
    BY <1>18, Woken DEF Types
  <2> QED
    BY <2>1, <1>11 DEF Asking, Clearing, OneSender
<1>21. EmptyBefore(l)' /\ (Answering(l)' <=> Answering(l))
  BY <1>4, <1>12, <1>20 DEF EmptyBefore, Answering
<1> HIDE DEF len, total
<1>22. CASE len + 1 = total
  <2>1. ~Answering(l)' /\ Packets(l)' = 0
    BY <1>8, <1>9, <1>14, <1>17, <1>21, <1>22
  <2>2. ~Somewhere(l)'
    BY <2>1, <1>12 DEF Somewhere
  <2>3. InOnePlace(l)'
    BY <2>1, <2>2, <1>12, <1>20 DEF InOnePlace, OneSender
  <2>4. Arriving(l)'
    BY <2>1 DEF Arriving
  <2>5. list'[l].state = "completed" /\ list'[l].val = "ok" /\ list'[l].descs = list'[l].data /\ list'[l].buf = len + 1
    BY <1>14, <1>17, <1>18, <1>22
  <2>6. list'[l].data = [k \in 1 .. len + 1 |-> [id |-> asked[l], k |-> k]]
    <3> DEFINE d == list'[l].data
    <3>1. d \in [1 .. len + 1 -> Packet]
      BY <1>19
    <3>2. \A k \in 1 .. len + 1 : d[k] = [id |-> asked[l], k |-> k]
      BY <1>19
    <3> HIDE DEF d
    <3>3. d = [k \in 1 .. len + 1 |-> [id |-> asked[l], k |-> k]]
      BY <3>1, <3>2
    <3> QED
      BY <3>3 DEF d
  <2>7. Completed(l)'
    BY <2>5, <2>6, <1>4 DEF Completed
  <2> QED
    BY <2>3, <2>4, <2>7, <1>21 DEF Query
<1>23. CASE len + 1 < total
  <2>1. list'[l].state = "started" /\ list'[l].descs = <<>> /\ list'[l].buf = total
    BY <1>14, <1>17, <1>18, <1>23
  <2>2. InOnePlace(l)'
    BY <2>1, <1>12, <1>20 DEF InOnePlace, OneSender
  <2>3. Whole(l)' = total
    <3>1. CASE Answering(l)
      BY <3>1, <1>4, <1>17, <1>21 DEF Whole
    <3>2. CASE ~Answering(l)
      <4>1. Whole(l)' = (len + 1) + Packets(l)'
        BY <3>2, <1>19, <1>21 DEF Whole
      <4>2. total = len + Packets(l)
        BY <3>2, <1>17
      <4> QED
        BY <4>1, <4>2, <1>8, <1>9, <1>14
    <3> QED
      BY <3>1, <3>2
  <2>4. ASSUME NEW i \in PacketOf(l)'
        PROVE  /\ c2h'[i].id = asked'[l] /\ c2h'[i].total = Whole(l)'
               /\ c2h'[i].k = Len(list'[l].data) + Cardinality(Below(PacketOf(l)', i)) + 1
    <3>1. PICK j \in PacketOf(l) :
             c2h'[i] = c2h[j] /\ Cardinality(Below(PacketOf(l), j)) = Cardinality(Below(PacketOf(l)', i)) + 1
      BY <1>6 DEF OneLess
    <3>2. c2h[j].k = len + Cardinality(Below(PacketOf(l), j)) + 1 /\ c2h[j].id = asked[l] /\ c2h[j].total = total
      BY <1>13, <1>15 DEF len
    <3>3. Cardinality(Below(PacketOf(l)', i)) \in Nat
      BY <1>8
    <3>4. c2h'[i].k = (len + 1) + Cardinality(Below(PacketOf(l)', i)) + 1
      BY <3>1, <3>2, <3>3, <1>14
    <3> QED
      BY <3>1, <3>2, <3>4, <2>3, <1>4, <1>19
  <2>5. Answering(l)' => ans'.id = asked'[l] /\ ans'.k = Len(list'[l].data) + Packets(l)'
    <3>1. Answering(l) => ans.id = asked[l] /\ ans.k = len + Packets(l)
      BY <1>13 DEF len
    <3>2. len + Packets(l) = (len + 1) + Packets(l)'
      BY <1>8, <1>9, <1>14
    <3> QED
      BY <3>1, <3>2, <1>4, <1>19, <1>21
  <2>6. /\ list'[l].descs = <<>>
        /\ \A k \in 1 .. Len(list'[l].data) : list'[l].data[k] = [id |-> asked'[l], k |-> k]
        /\ list'[l].buf \in {0, Whole(l)'}
    BY <2>1, <2>3, <1>4, <1>19
  <2>7. Arriving(l)'
    BY <2>4, <2>5, <2>6 DEF Arriving, Below
  <2>8. Completed(l)'
    BY <2>1 DEF Completed
  <2> QED
    BY <2>2, <2>7, <2>8, <1>21 DEF Query
<1> QED
  BY <1>18, <1>22, <1>23 DEF len, total

\* The host is told that there is no answer, or that the list was cleared.
LEMMA EndRead ==
    ASSUME Types, Types', NEW l \in Lists, Query(l), error_failed \/ error_cleared, Head(c2h).l = l
    PROVE  Query(l)'
<1> USE DEF ringVars, cardVars, histVars, threadVars
<1>1. /\ c2h \in Seq(Reported) /\ list \in [Lists -> ListRecord]
      /\ c2h # <<>> /\ c2h' = Tail(c2h) /\ Head(c2h).op \in {"failed", "cleared"} /\ Head(c2h).l \in {l}
      /\ UNCHANGED <<h2c, ans, asked>>
  BY DEF Types, CardTypes, HostTypes, error_failed, error_cleared, Receive
<1>2. OneLess(c2h, EndAt(l), c2h', EndAt(l)', Head(c2h)) /\ PacketsKept(l)
  <2>1. ~(Head(c2h).op \in {"packet"} /\ Head(c2h).l \in {l})
    BY <1>1
  <2>2. OneLess(c2h, At(c2h, {"failed", "cleared"}, {l}), c2h', At(c2h', {"failed", "cleared"}, {l}), Head(c2h))
    BY <1>1, Taken
  <2>3. Carried(c2h, At(c2h, {"packet"}, {l}), c2h', At(c2h', {"packet"}, {l}))
    BY <2>1, <1>1, Taken
  <2> QED
    BY <2>2, <2>3 DEF PacketOf, PacketsKept, EndAt
<1>3. /\ Queries(l) \in Nat /\ Ends(l) \in Nat /\ Ends(l)' \in Nat /\ Packets(l) \in Nat
      /\ (Queries(l) = 0 <=> QueryAt(l) = {}) /\ (Ends(l)' = 0 <=> EndAt(l)' = {})
  BY QueryCounts, QueryCountsNext
<1>4. Ends(l) = Ends(l)' + 1 /\ Packets(l)' = Packets(l) /\ Queries(l)' = Queries(l) /\ QueryAt(l)' = QueryAt(l)
  BY <1>1, <1>2 DEF OneLess, PacketsKept, Carried, Ends, Packets, Queries, QueryAt
<1>5. /\ Queries(l) = 0 /\ Ends(l)' = 0 /\ Packets(l) = 0 /\ ~Answering(l) /\ list[l].state = "started"
      /\ ~Asking(l) /\ ~Clearing(l) /\ OneSender(l)
  BY <1>3, <1>4 DEF Query, InOnePlace, Somewhere, OneSender
<1>6. /\ Queries(l)' = 0 /\ QueryAt(l)' = {} /\ EndAt(l)' = {} /\ Packets(l)' = 0 /\ ~Answering(l)'
  BY <1>1, <1>3, <1>4, <1>5 DEF Answering
<1>7. Head(c2h).op = "failed" => Empty(l)
  <2>1. PICK i \in EndAt(l) : c2h[i] = Head(c2h)
    BY <1>2 DEF OneLess
  <2> QED
    BY <2>1 DEF Query, EmptyBefore
<1>8. /\ UNCHANGED threadVars \/ Notify
      /\ \/ list'[l] = list[l]
         \/ list'[l].val # "no_memory" /\ list'[l].descs = <<>>
  <2>1. CASE error_cleared
    BY <2>1, <1>1 DEF error_cleared, Cleared
  <2>2. CASE error_failed /\ UNCHANGED <<list, threadVars>>
    BY <2>2
  <2>3. CASE error_failed /\ completeQuery(l, list[l], Head(c2h).val)
    <3> DEFINE r == list[l]
               v == Head(c2h).val
               done == [r EXCEPT !.state = "completed", !.val = v, !.descs = IF v = "ok" THEN @ \o r.data ELSE @]
    <3>1. list' = [list EXCEPT ![l] = done] /\ Notify
      BY <2>3 DEF completeQuery
    <3>2. r \in ListRecord /\ v \in {"ok", "io_error"}
      BY <1>1, EventTypes
    <3>3. r.descs = <<>> /\ r.data = <<>>
      BY <2>3, <1>7 DEF error_failed, Receive, Empty
    <3>4. <<>> \o <<>> = <<>>
      OBVIOUS
    <3>5. r.descs \o r.data = <<>>
      BY <3>3, <3>4
    <3> HIDE DEF r, v
    <3>6. done.val = v /\ done.descs = <<>>
      BY <3>2, <3>3, <3>5 DEF ListRecord
    <3> HIDE DEF done
    <3>7. list'[l] = done
      BY <3>1, <1>1
    <3> QED
      BY <3>1, <3>2, <3>6, <3>7
  <2> QED
    BY <2>1, <2>2, <2>3 DEF error_failed
<1>9. ~Asking(l)' /\ ~Clearing(l)' /\ OneSender(l)'
  <2>1. /\ \A t \in Waiter : w'[t] = "send" <=> w[t] = "send"
        /\ (rec' = "send" <=> rec = "send") /\ (usr' = "send" <=> usr = "send")
    BY <1>8, Woken DEF Types
  <2> QED
    BY <2>1, <1>5 DEF Asking, Clearing, OneSender
<1>10. ~Somewhere(l)'
  BY <1>5, <1>6 DEF Somewhere
<1>11. InOnePlace(l)'
  BY <1>5, <1>6, <1>9, <1>10 DEF InOnePlace, OneSender
<1>12. EmptyBefore(l)' /\ Arriving(l)'
  BY <1>6, <1>9 DEF EmptyBefore, Arriving
<1>13. Completed(l)'
  BY <1>5, <1>8 DEF Completed
<1> QED
  BY <1>11, <1>12, <1>13 DEF Query

\* A step that does not concern the list, in the terms of the channel.
LEMMA QueryQuiet ==
    ASSUME Types, Types', NEW l \in Lists, Query(l), list'[l] = list[l], asked'[l] = asked[l],
           SendersKept(l), AsksQuiet(l), RepliesQuiet(l),
           ans' = ans \/ (~Answering(l) /\ ~Answering(l)')
    PROVE  Query(l)'
<1>1. QueriesKept(l) /\ EndsKept(l) /\ PacketsKept(l)
  BY QuietAsks, QuietReplies
<1>2. (Answering(l)' <=> Answering(l)) /\ (Answering(l) => ans' = ans)
  BY DEF Answering
<1> QED
  BY <1>1, <1>2, QueryKept

\* A packet concerns one list.
LEMMA OtherList ==
    ASSUME HostTypes, NEW l \in Lists, NEW packet, NEW total, appendErrorListPacket(l, packet, total), NEW x \in Lists \ {l}
    PROVE  list'[x] = list[x]
<1>1. list \in [Lists -> ListRecord]
  BY DEF HostTypes
<1>2. \A r : x \in Lists /\ [list EXCEPT ![l] = r][x] = list[x]
  BY <1>1
<1> QED
  BY <1>2 DEF appendErrorListPacket, completeQuery

\* Nothing but threads and the error of the context change.
LEMMA QueryStill ==
    ASSUME Types, Types', NEW l \in Lists, Query(l), UNCHANGED <<list, asked, h2c, c2h, ans>>, SendersKept(l)
    PROVE  Query(l)'
BY QueryQuiet DEF AsksQuiet, RepliesQuiet

\* A thread of waitCriticalError steps.
LEMMA WaitQuery ==
    ASSUME Types, Types', NEW l \in Lists, l \notin overlap', l \notin overlap => Query(l),
           NEW t \in Waiter, wait_start(t) \/ Wait(t) \/ wait_timeout(t)
    PROVE  Query(l)'
<1> USE DEF ringVars, cardVars, threadVars, histVars, Others, Rest
<1>1. /\ w \in [Waiter -> {"idle", "test", "asleep", "late", "take", "send", "query", "qsleep", "restore"}]
      /\ (l = "ctx" \/ l = "cmd") /\ list \in [Lists -> ListRecord] /\ h2c \in Seq(Sent) /\ asked \in [Lists -> Nat]
      /\ queries \in Nat /\ "ctx" \in Lists /\ "cmd" \in Lists
  BY DEF Types, HostTypes, CardTypes, Lists
<1>2. ASSUME NEW pc, pc # "send", w' = [w EXCEPT ![t] = pc], UNCHANGED <<rec, usr>> PROVE SendersKept(l)
  BY <1>1, <1>2 DEF SendersKept
<1>3. ASSUME wait_start(t) \/ wait_timeout(t) \/ wait_query(t) \/ wait_restore(t) \/ wait_late(t) PROVE Query(l)'
  <2>1. UNCHANGED <<list, asked, h2c, c2h, ans, overlap, rec, usr>>
    BY <1>3 DEF wait_start, wait_timeout, wait_query, wait_restore, wait_late
  <2>2. \E pc \in {"test", "late", "restore", "qsleep", "idle"} : w' = [w EXCEPT ![t] = pc]
    BY <1>3 DEF wait_start, wait_timeout, wait_query, wait_restore, wait_late
  <2>3. SendersKept(l)
    BY <2>1, <2>2, <1>2
  <2> QED
    BY <2>1, <2>3, QueryStill
<1>4. ASSUME wait_test(t) PROVE Query(l)'
  <2>1. UNCHANGED <<list, asked, h2c, c2h, ans, overlap, rec, usr>>
    BY <1>4 DEF wait_test
  <2>2. \E pc \in {"asleep", "take", "idle"} : w' = [w EXCEPT ![t] = pc]
    <3>1. (CASE m_critical_error = "none" -> "asleep" [] m_critical_error = "exec" -> "take" [] OTHER -> "idle")
             \in {"asleep", "take", "idle"}
      OBVIOUS
    <3> QED
      BY <1>4, <3>1 DEF wait_test
  <2>3. SendersKept(l)
    BY <2>1, <2>2, <1>2
  <2> QED
    BY <2>1, <2>3, QueryStill
<1>5. ASSUME wait_startQuery(t) PROVE Query(l)'
  <2>1. clear_startQuery("ctx") /\ w' = [w EXCEPT ![t] = "send"] /\ UNCHANGED <<asked, h2c, c2h, ans, rec, usr>>
    BY <1>5 DEF wait_startQuery
  <2>2. CASE l = "ctx"
    <3>1. ~Asking(l) /\ ~Clearing(l) => OneSender(l)'
      BY <2>1, <2>2, <1>1 DEF Asking, Clearing, OneSender
    <3> QED
      BY <2>1, <2>2, <3>1, QueryBegins
  <2>3. CASE l = "cmd"
    <3>1. list'[l] = list[l] /\ overlap \subseteq overlap'
      BY <2>1, <2>3, <1>1 DEF clear_startQuery
    <3>2. SendersKept(l) /\ AsksQuiet(l) /\ RepliesQuiet(l)
      BY <2>1, <2>3 DEF SendersKept, AsksQuiet, RepliesQuiet
    <3> QED
      BY <2>1, <3>1, <3>2, QueryQuiet
  <2> QED
    BY <2>2, <2>3, <1>1
<1>6. ASSUME wait_send(t) PROVE Query(l)'
  <2>1. UNCHANGED <<list, c2h, ans, rec, usr, overlap>> /\ w[t] = "send"
    BY <1>6 DEF wait_send
  <2>2. CASE sendQueryErrorList("ctx", "query") /\ w' = [w EXCEPT ![t] = "query"]
    <3>1. CASE l = "ctx"
      <4>1. \A u \in Waiter : w'[u] # "send"
        BY <2>1, <2>2, <3>1, <1>1 DEF Query, InOnePlace
      <4>2. Asking(l) /\ ~Clearing(l)
        BY <2>1, <3>1 DEF Query, InOnePlace, Asking
      <4>3. ~Asking(l)' /\ ~Clearing(l)' /\ OneSender(l)'
        BY <2>1, <4>1, <4>2, <3>1 DEF Asking, Clearing, OneSender
      <4> QED
        BY <2>1, <2>2, <3>1, <4>2, <4>3, QuerySent
    <3>2. CASE l = "cmd"
      <4>1. [op |-> "query", l |-> "ctx", id |-> queries + 1] \in Sent
        BY <1>1 DEF Sent
      <4>2. AsksQuiet(l) /\ RepliesQuiet(l) /\ SendersKept(l)
        BY <2>1, <2>2, <3>2, <4>1 DEF AsksQuiet, RepliesQuiet, SendersKept, sendQueryErrorList
      <4>3. asked'[l] = asked[l]
        BY <2>2, <3>2, <1>1 DEF sendQueryErrorList
      <4> QED
        BY <2>1, <4>2, <4>3, QueryQuiet
    <3> QED
      BY <3>1, <3>2, <1>1
  <2>3. CASE send_fails /\ w' = [w EXCEPT ![t] = "idle"]
    <3>1. SendersKept(l)
      BY <2>1, <2>3, <1>2
    <3> QED
      BY <2>1, <2>3, <3>1, QueryStill DEF send_fails
  <2> QED
    BY <1>6, <2>2, <2>3 DEF wait_send
<1> QED
  BY <1>3, <1>4, <1>5, <1>6 DEF Wait

\* recover steps.
LEMMA RecoverQuery ==
    ASSUME Types, Types', NEW l \in Lists, l \notin overlap', l \notin overlap => Query(l), recover \/ Recover
    PROVE  Query(l)'
<1> USE DEF ringVars, cardVars, threadVars, histVars, Others, Rest
<1>1. /\ (l = "ctx" \/ l = "cmd") /\ list \in [Lists -> ListRecord] /\ h2c \in Seq(Sent) /\ asked \in [Lists -> Nat]
      /\ queries \in Nat /\ "ctx" \in Lists /\ "cmd" \in Lists
  BY DEF Types, HostTypes, CardTypes, Lists
<1>2. ASSUME recover \/ recover_query \/ recover_failed PROVE Query(l)'
  <2>1. UNCHANGED <<list, asked, h2c, c2h, ans, overlap, w, usr>>
    BY <1>2 DEF recover, recover_query, recover_failed
  <2>2. rec' # "send"
    <3>1. (CASE ~Answered("ctx") -> "qsleep" [] broken \/ list["ctx"].val # "ok" -> "failed" [] OTHER -> "idle") # "send"
      OBVIOUS
    <3> QED
      BY <1>2, <3>1 DEF recover, recover_query, recover_failed
  <2>3. SendersKept(l)
    BY <2>1, <2>2 DEF SendersKept
  <2> QED
    BY <2>1, <2>3, QueryStill
<1>3. ASSUME recover_startQuery PROVE Query(l)'
  <2>1. startQuery("ctx") /\ rec' = "send" /\ UNCHANGED <<asked, h2c, c2h, ans, w, usr>>
    BY <1>3 DEF recover_startQuery
  <2>2. CASE l = "ctx"
    <3>1. (Asking(l)' => Asking(l)) /\ (~Asking(l) /\ ~Clearing(l) => OneSender(l)')
      BY <2>1, <2>2 DEF Asking, Clearing, OneSender
    <3> QED
      BY <2>1, <2>2, <3>1, QueryBegins
  <2>3. CASE l = "cmd"
    <3>1. list'[l] = list[l] /\ overlap \subseteq overlap'
      BY <2>1, <2>3, <1>1 DEF startQuery
    <3>2. SendersKept(l) /\ AsksQuiet(l) /\ RepliesQuiet(l)
      BY <2>1, <2>3 DEF SendersKept, AsksQuiet, RepliesQuiet
    <3> QED
      BY <2>1, <3>1, <3>2, QueryQuiet
  <2> QED
    BY <2>2, <2>3, <1>1
<1>4. ASSUME recover_send PROVE Query(l)'
  <2>1. UNCHANGED <<list, c2h, ans, w, usr, overlap>> /\ rec = "send" /\ rec' # "send"
    BY <1>4 DEF recover_send
  <2>2. CASE sendQueryErrorList("ctx", "clear")
    <3>1. CASE l = "ctx"
      <4>1. Clearing(l) /\ ~Asking(l)
        BY <2>1, <3>1 DEF Query, InOnePlace, Clearing
      <4>2. ~Asking(l)' /\ ~Clearing(l)' /\ OneSender(l)'
        BY <2>1, <4>1, <3>1 DEF Asking, Clearing, OneSender
      <4> QED
        BY <2>1, <2>2, <3>1, <4>1, <4>2, QuerySent
    <3>2. CASE l = "cmd"
      <4>1. [op |-> "clear", l |-> "ctx", id |-> queries + 1] \in Sent
        BY <1>1 DEF Sent
      <4>2. AsksQuiet(l) /\ RepliesQuiet(l) /\ SendersKept(l)
        BY <2>1, <2>2, <3>2, <4>1 DEF AsksQuiet, RepliesQuiet, SendersKept, sendQueryErrorList
      <4>3. asked'[l] = asked[l]
        BY <2>2, <3>2, <1>1 DEF sendQueryErrorList
      <4> QED
        BY <2>1, <4>2, <4>3, QueryQuiet
    <3> QED
      BY <3>1, <3>2, <1>1
  <2>3. CASE send_fails
    <3>1. SendersKept(l)
      BY <2>1 DEF SendersKept
    <3> QED
      BY <2>1, <2>3, <3>1, QueryStill DEF send_fails
  <2> QED
    BY <1>4, <2>2, <2>3 DEF recover_send
<1> QED
  BY <1>2, <1>3, <1>4 DEF Recover

\* The thread of the command list steps, or the list is destroyed.
LEMMA UserQuery ==
    ASSUME Types, Types', NEW l \in Lists, l \notin overlap', l \notin overlap => Query(l),
           list_startQuery \/ User \/ list_destroy
    PROVE  Query(l)'
<1> USE DEF ringVars, cardVars, threadVars, histVars, Others, Rest
<1>1. /\ (l = "ctx" \/ l = "cmd") /\ list \in [Lists -> ListRecord] /\ h2c \in Seq(Sent) /\ asked \in [Lists -> Nat]
      /\ queries \in Nat /\ "ctx" \in Lists /\ "cmd" \in Lists
  BY DEF Types, HostTypes, CardTypes, Lists
<1>2. ASSUME list_startQuery PROVE Query(l)'
  <2>1. clear_startQuery("cmd") /\ UNCHANGED <<asked, h2c, c2h, ans, w, rec>>
    BY <1>2 DEF list_startQuery
  <2>2. CASE l = "cmd"
    <3>1. ~Asking(l) /\ ~Clearing(l) => OneSender(l)'
      BY <2>2 DEF Clearing, OneSender
    <3> QED
      BY <2>1, <2>2, <3>1, QueryBegins
  <2>3. CASE l = "ctx"
    <3>1. list'[l] = list[l] /\ overlap \subseteq overlap'
      BY <2>1, <2>3, <1>1 DEF clear_startQuery
    <3>2. SendersKept(l) /\ AsksQuiet(l) /\ RepliesQuiet(l)
      BY <2>1, <2>3 DEF SendersKept, AsksQuiet, RepliesQuiet
    <3> QED
      BY <2>1, <3>1, <3>2, QueryQuiet
  <2> QED
    BY <2>2, <2>3, <1>1
<1>3. ASSUME list_send PROVE Query(l)'
  <2>1. UNCHANGED <<list, c2h, ans, w, rec, overlap>> /\ usr = "send" /\ usr' # "send"
    BY <1>3 DEF list_send
  <2>2. CASE sendQueryErrorList("cmd", "query")
    <3>1. CASE l = "cmd"
      <4>1. Asking(l) /\ ~Asking(l)' /\ ~Clearing(l)' /\ OneSender(l)'
        BY <2>1, <3>1 DEF Asking, Clearing, OneSender
      <4> QED
        BY <2>1, <2>2, <3>1, <4>1, QuerySent
    <3>2. CASE l = "ctx"
      <4>1. [op |-> "query", l |-> "cmd", id |-> queries + 1] \in Sent
        BY <1>1 DEF Sent
      <4>2. AsksQuiet(l) /\ RepliesQuiet(l) /\ SendersKept(l)
        BY <2>1, <2>2, <3>2, <4>1 DEF AsksQuiet, RepliesQuiet, SendersKept, sendQueryErrorList
      <4>3. asked'[l] = asked[l]
        BY <2>2, <3>2, <1>1 DEF sendQueryErrorList
      <4> QED
        BY <2>1, <4>2, <4>3, QueryQuiet
    <3> QED
      BY <3>1, <3>2, <1>1
  <2>3. CASE send_fails
    <3>1. SendersKept(l)
      BY <2>1 DEF SendersKept
    <3> QED
      BY <2>1, <2>3, <3>1, QueryStill DEF send_fails
  <2> QED
    BY <1>3, <2>2, <2>3 DEF list_send
<1>4. ASSUME list_query PROVE Query(l)'
  <2>1. UNCHANGED <<list, asked, h2c, c2h, ans, overlap, w, rec>> /\ usr' # "send"
    BY <1>4 DEF list_query
  <2>2. SendersKept(l)
    BY <2>1 DEF SendersKept
  <2> QED
    BY <2>1, <2>2, QueryStill
<1>5. ASSUME list_destroy PROVE Query(l)'
  <2>1. /\ UNCHANGED <<list, asked, c2h, ans, overlap, threadVars>>
        /\ h2c' = Append(h2c, [op |-> "destroy", l |-> "cmd", id |-> 0])
    BY <1>5 DEF list_destroy
  <2>2. [op |-> "destroy", l |-> "cmd", id |-> 0] \in Sent
    BY <1>1 DEF Sent
  <2>3. AsksQuiet(l) /\ RepliesQuiet(l) /\ SendersKept(l)
    BY <2>1, <2>2 DEF AsksQuiet, RepliesQuiet, SendersKept
  <2> QED
    BY <2>1, <2>3, QueryQuiet
<1> QED
  BY <1>2, <1>3, <1>4, <1>5 DEF User

\* The response thread steps.
LEMMA RespondQuery ==
    ASSUME Types, Types', Ring, Destroyed, NEW l \in Lists, Query(l), Respond
    PROVE  Query(l)'
<1> USE DEF ringVars, cardVars, threadVars, histVars, boundVars
<1>1. UNCHANGED threadVars \/ Notify => SendersKept(l)
  BY Woken DEF Types, SendersKept
<1>2. ASSUME critical_event \/ list_destroyed PROVE Query(l)'
  <2>1. /\ UNCHANGED <<list, asked, h2c, ans>> /\ c2h # <<>> /\ c2h' = Tail(c2h)
        /\ Head(c2h).op \in {"exec", "context", "fatal", "destroyed"} /\ (UNCHANGED threadVars \/ Notify)
    BY <1>2 DEF critical_event, list_destroyed, Receive
  <2>2. AsksQuiet(l) /\ RepliesQuiet(l)
    BY <2>1 DEF AsksQuiet, RepliesQuiet, Replies
  <2> QED
    BY <2>1, <2>2, <1>1, QueryQuiet
<1>3. ASSUME error_packet PROVE Query(l)'
  <2> DEFINE x == Head(c2h).l
             upd == [op |-> "update", l |-> "ctx", id |-> 0]
  <2>1. c2h # <<>> /\ c2h' = Tail(c2h) /\ UNCHANGED <<asked, ans>>
    BY <1>3 DEF error_packet, Receive
  <2>2. x \in Lists /\ Head(c2h).total \in 1 .. MaxErrors /\ page[m_head] \in Packet
    BY <2>1, <1>3, EventTypes DEF error_packet, Receive
  <2>3. CASE x = l
    BY <1>3, <2>3, PacketRead
  <2>4. CASE x # l
    <3>1. upd \in Sent /\ ~(upd.op \in {"query", "clear"} /\ upd.l \in {l})
      BY DEF Sent, Lists
    <3>2. h2c' = h2c \/ h2c' = Append(h2c, upd)
      BY <1>3 DEF error_packet
    <3> HIDE DEF upd
    <3>3. AsksQuiet(l) /\ RepliesQuiet(l)
      BY <2>1, <2>4, <3>1, <3>2 DEF AsksQuiet, RepliesQuiet
    <3>4. \/ list' = list /\ UNCHANGED threadVars
          \/ appendErrorListPacket(x, page[m_head], Head(c2h).total)
      BY <1>3 DEF error_packet
    <3> HIDE DEF x
    <3>5. list'[l] = list[l] /\ (UNCHANGED threadVars \/ Notify)
      BY <2>2, <2>4, <3>4, OtherList, PacketTypes DEF Types
    <3> QED
      BY <2>1, <3>3, <3>5, <1>1, QueryQuiet
  <2> QED
    BY <2>3, <2>4
<1>4. ASSUME error_failed \/ error_cleared PROVE Query(l)'
  <2> DEFINE x == Head(c2h).l
  <2>1. c2h # <<>> /\ c2h' = Tail(c2h) /\ UNCHANGED <<asked, ans, h2c>>
    BY <1>4 DEF error_failed, error_cleared, Receive
  <2>2. CASE x = l
    BY <1>4, <2>2, EndRead
  <2>3. CASE x # l
    <3>1. list \in [Lists -> ListRecord]
      BY DEF Types, HostTypes
    <3>2. /\ list' = list \/ (\E r : list' = [list EXCEPT ![x] = r])
          /\ UNCHANGED threadVars \/ Notify
      BY <1>4 DEF error_failed, error_cleared, completeQuery
    <3>3. list'[l] = list[l]
      BY <2>3, <3>1, <3>2
    <3>4. AsksQuiet(l) /\ RepliesQuiet(l)
      BY <2>1, <2>3 DEF AsksQuiet, RepliesQuiet
    <3> QED
      BY <2>1, <3>2, <3>3, <3>4, <1>1, QueryQuiet
  <2> QED
    BY <2>2, <2>3
<1> QED
  BY <1>2, <1>3, <1>4 DEF Respond

\* The card steps.
LEMMA CardQuery ==
    ASSUME Types, Types', NEW l \in Lists, Query(l), Card \/ (\E x \in Lists : card_fails(x)) \/ card_dies
    PROVE  Query(l)'
<1> USE DEF Host, cardVars, threadVars, histVars
<1>1. UNCHANGED Host => SendersKept(l) /\ UNCHANGED <<list, asked>>
  BY DEF SendersKept
<1>2. ASSUME NEW op \in {"exec", "context", "fatal", "destroyed", "cleared"}, NEW x \in Lists, c2h' = Append(c2h, Event(op, x)),
             op = "cleared" => x # l
      PROVE  RepliesQuiet(l)
  <2>1. Event(op, x) \in Reported /\ ~(Event(op, x).op \in Replies /\ Event(op, x).l \in {l})
    BY <1>2, ErrorsAssumption DEF Event, Reported, Replies
  <2> QED
    BY <1>2, <2>1 DEF RepliesQuiet
<1>3. ASSUME card_dies \/ \E x \in Lists : card_fails(x) PROVE Query(l)'
  <2>1. UNCHANGED <<Host, h2c, ans>> /\ (c2h' = c2h \/ \E x \in Lists, op \in {"exec", "context", "fatal"} : c2h' = Append(c2h, Event(op, x)))
    BY <1>3 DEF card_dies, card_fails, Lists
  <2>2. RepliesQuiet(l)
    BY <2>1, <1>2 DEF RepliesQuiet
  <2> QED
    BY <2>1, <2>2, <1>1, QueryQuiet DEF AsksQuiet
<1>4. ASSUME card_updates PROVE Query(l)'
  BY <1>1, <1>4, QueryQuiet DEF card_updates, AsksQuiet, RepliesQuiet
<1>5. ASSUME card_sends PROVE Query(l)'
  <2>1. CASE ans.l = l
    BY <1>5, <2>1, PacketSent
  <2>2. CASE ans.l # l
    <3>1. /\ c2h' = Append(c2h, NextPacket) /\ NextPacket \in Reported
          /\ ans' = IF ans.k + 1 = ans.total THEN NoAnswer ELSE [ans EXCEPT !.k = @ + 1]
          /\ UNCHANGED <<Host, h2c>>
      BY <1>5, Sends
    <3>2. RepliesQuiet(l)
      <4>1. NextPacket.l # l
        BY <2>2 DEF NextPacket
      <4> QED
        BY <3>1, <4>1 DEF RepliesQuiet
    <3>3. ~Answering(l) /\ ~Answering(l)'
      <4>1. ans \in [l : Lists, id : Nat, k : Nat, total : 0 .. MaxErrors]
        BY DEF Types, CardTypes
      <4>2. ans'.id = 0 \/ ans'.l = ans.l
        BY <3>1, <4>1 DEF NoAnswer
      <4> QED
        BY <4>2, <2>2 DEF Answering
    <3> QED
      BY <3>1, <3>2, <3>3, <1>1, QueryQuiet DEF AsksQuiet
  <2> QED
    BY <2>1, <2>2
<1>6. ASSUME card_takes PROVE Query(l)'
  <2> DEFINE m == Head(h2c)
  <2>1. /\ h2c # <<>> /\ h2c' = Tail(h2c) /\ UNCHANGED Host /\ m.l \in Lists
        /\ \/ m.op = "query" /\ TakesQuery(m.l, m.id)
           \/ m.op = "clear" /\ TakesClear(m.l)
           \/ m.op = "destroy" /\ TakesDestroy(m.l)
           \/ m.op = "update" /\ TakesUpdate
    BY <1>6, Takes
  <2>2. CASE m.op \in {"query", "clear"} /\ m.l = l
    BY <2>1, <2>2, QueryTaken
  <2>3. CASE ~(m.op \in {"query", "clear"} /\ m.l \in {l})
    <3>1. AsksQuiet(l)
      BY <2>1, <2>3 DEF AsksQuiet
    <3> HIDE DEF m
    <3>2. CASE m.op = "query" /\ TakesQuery(m.l, m.id)
      <4>1. m.l # l
        BY <2>3, <3>2
      <4>2. \A v \in {"ok", "io_error"} : Failed(m.l, v) \in Reported /\ Failed(m.l, v).l # l
        BY <2>1, <4>1, ErrorsAssumption DEF Failed, Reported
      <4>3. RepliesQuiet(l)
        BY <3>2, <4>2 DEF TakesQuery, RepliesQuiet
      <4>4. ~Answering(l) /\ ~Answering(l)'
        BY <3>2, <4>1 DEF TakesQuery, Answering
      <4> QED
        BY <2>1, <3>1, <4>3, <4>4, <1>1, QueryQuiet
    <3>3. CASE m.op = "clear" /\ TakesClear(m.l)
      <4>1. RepliesQuiet(l) /\ ans' = ans
        BY <2>1, <2>3, <3>3, <1>2 DEF TakesClear
      <4> QED
        BY <2>1, <3>1, <4>1, <1>1, QueryQuiet
    <3>4. CASE m.op = "destroy" /\ TakesDestroy(m.l)
      <4>1. RepliesQuiet(l) /\ ans' = ans
        BY <2>1, <3>4, <1>2 DEF TakesDestroy
      <4> QED
        BY <2>1, <3>1, <4>1, <1>1, QueryQuiet
    <3>5. CASE m.op = "update" /\ TakesUpdate
      BY <2>1, <3>1, <3>5, <1>1, QueryQuiet DEF TakesUpdate, RepliesQuiet
    <3> QED
      BY <2>1, <3>2, <3>3, <3>4, <3>5
  <2> QED
    BY <2>2, <2>3
<1> QED
  BY <1>3, <1>4, <1>5, <1>6 DEF Card

\* A step keeps the query of every list of which no two overlapped.
LEMMA QueryNext ==
    ASSUME Types, Types', Ring, Destroyed, \A l \in Lists \ overlap : Query(l), Next, NEW l \in Lists \ overlap'
    PROVE  Query(l)'
<1> USE DEF threadVars, histVars
<1>1. l \notin overlap => Query(l)
  OBVIOUS
<1>2. CASE \E t \in Waiter : wait_start(t) \/ Wait(t) \/ wait_timeout(t)
  BY <1>1, <1>2, WaitQuery
<1>3. CASE recover \/ Recover
  BY <1>1, <1>3, RecoverQuery
<1>4. CASE list_startQuery \/ User \/ list_destroy
  BY <1>1, <1>4, UserQuery
<1>5. CASE Respond
  <2>1. overlap' = overlap
    BY <1>5 DEF Respond, critical_event, error_packet, error_failed, error_cleared, list_destroyed
  <2> QED
    BY <1>1, <1>5, <2>1, RespondQuery
<1>6. CASE Card \/ (\E x \in Lists : card_fails(x)) \/ card_dies
  <2>1. overlap' = overlap
    BY <1>6 DEF Card, card_takes, card_updates, card_sends, card_fails, card_dies, Host
  <2> QED
    BY <1>1, <1>6, <2>1, CardQuery
<1> QED
  BY <1>2, <1>3, <1>4, <1>5, <1>6 DEF Next

-----------------------------------------------------------------------------
(***************************************************************************)
(* No error is forgotten                                                   *)
(***************************************************************************)

\* A message stays in its queue until it is taken.
LEMMA StaysIn ==
    ASSUME NEW M, NEW q \in Seq(M), NEW r, NEW ops, Has(q, ops),
           \/ \E m \in M : r = Append(q, m)
           \/ q # <<>> /\ r = Tail(q) /\ Head(q).op \notin ops
           \/ \E n \in DOMAIN q : r = RemoveAt(q, n) /\ q[n].op \notin ops
    PROVE  Has(r, ops)
<1>1. PICK i \in DOMAIN q : q[i].op \in ops
  BY DEF Has
<1>2. CASE \E m \in M : r = Append(q, m)
  <2>1. PICK m \in M : r = Append(q, m)
    BY <1>2
  <2>2. i \in DOMAIN r /\ r[i] = q[i]
    BY <2>1, AppendTo
  <2> QED
    BY <1>1, <2>2 DEF Has
<1>3. CASE q # <<>> /\ r = Tail(q) /\ Head(q).op \notin ops
  <2>1. /\ Head(q) = q[1] /\ (i # 1 => i - 1 \in DOMAIN r /\ r[i - 1] = q[i])
    BY <1>3, TailOf
  <2> QED
    BY <1>1, <1>3, <2>1 DEF Has
<1>4. CASE \E n \in DOMAIN q : r = RemoveAt(q, n) /\ q[n].op \notin ops
  <2>1. PICK n \in DOMAIN q : r = RemoveAt(q, n) /\ q[n].op \notin ops
    BY <1>4
  <2>2. /\ n \in Nat /\ i \in Nat /\ (i < n => i \in DOMAIN r /\ r[i] = q[i])
        /\ (i > n => i - 1 \in DOMAIN r /\ r[i - 1] = q[i])
    BY <2>1, RemovedFrom
  <2>3. i < n \/ i > n
    BY <1>1, <2>1, <2>2
  <2> QED
    BY <1>1, <2>2, <2>3 DEF Has
<1> QED
  BY <1>2, <1>3, <1>4

\* Who holds the error and is woken holds it still.
LEMMA HoldsWoken == ASSUME HostTypes, Holds, UNCHANGED threadVars \/ Notify PROVE Holds'
<1>1. CASE UNCHANGED threadVars
  BY <1>1 DEF Holds, threadVars
<1>2. CASE Notify
  <2>1. \A t \in Waiter : w'[t] = Wake(w[t])
    BY <1>2 DEF Notify
  <2>2. rec' = Wake(rec)
    BY <1>2 DEF Notify
  <2>3. \A t \in Waiter : w[t] \in {"take", "send", "query", "qsleep", "restore"}
                             => w'[t] \in {"take", "send", "query", "qsleep", "restore"}
    BY <2>1 DEF Wake
  <2>4. rec \in {"take", "send", "failed"} => rec' \in {"take", "send", "failed"}
    BY <2>2 DEF Wake
  <2> QED
    BY <2>3, <2>4 DEF Holds
<1> QED
  BY <1>1, <1>2

\* What the host and the card tell each other of the error stays in the channel.
LEMMA Said ==
    ASSUME Types, Next
    PROVE  /\ Has(c2h, {"exec", "context", "fatal"}) /\ ~critical_event => Has(c2h', {"exec", "context", "fatal"})
           /\ Has(h2c, {"clear"}) /\ ~(card_takes /\ Head(h2c).op = "clear") => Has(h2c', {"clear"})
<1>1. c2h \in Seq(Reported) /\ h2c \in Seq(Sent)
  BY DEF Types, CardTypes
<1>2. ASSUME Has(c2h, {"exec", "context", "fatal"}), ~critical_event PROVE Has(c2h', {"exec", "context", "fatal"})
  <2>1. CASE c2h' = c2h
    BY <1>2, <2>1
  <2>2. CASE \E m \in Reported : c2h' = Append(c2h, m)
    BY <1>1, <1>2, <2>2, StaysIn
  <2>3. CASE Respond /\ c2h # <<>> /\ c2h' = Tail(c2h)
    <3>1. Head(c2h).op \notin {"exec", "context", "fatal"}
      BY <1>2, <2>3 DEF Respond, error_packet, error_failed, error_cleared, list_destroyed, Receive
    <3> QED
      BY <1>1, <1>2, <2>3, <3>1, StaysIn
  <2> QED
    BY <2>1, <2>2, <2>3, Moves
<1>3. ASSUME Has(h2c, {"clear"}), ~(card_takes /\ Head(h2c).op = "clear") PROVE Has(h2c', {"clear"})
  <2>1. CASE h2c' = h2c
    BY <1>3, <2>1
  <2>2. CASE \E m \in Sent : h2c' = Append(h2c, m)
    BY <1>1, <1>3, <2>2, StaysIn
  <2>3. CASE card_takes /\ h2c # <<>> /\ h2c' = Tail(h2c)
    <3>1. Head(h2c).op \notin {"clear"}
      BY <1>3, <2>3
    <3> QED
      BY <1>1, <1>3, <2>3, <3>1, StaysIn
  <2>4. CASE \E n \in DOMAIN h2c : h2c' = RemoveAt(h2c, n) /\ h2c[n].op = "update"
    <3>1. \E n \in DOMAIN h2c : h2c' = RemoveAt(h2c, n) /\ h2c[n].op \notin {"clear"}
      BY <2>4
    <3> QED
      BY <1>1, <1>3, <3>1, StaysIn
  <2> QED
    BY <2>1, <2>2, <2>3, <2>4, Moves
<1> QED
  BY <1>2, <1>3

\* Messages that clear are the context's.
LEMMA ClearsNext == ASSUME Types, ClearsContext, Next PROVE ClearsContext'
<1>1. h2c \in Seq(Sent)
  BY DEF Types, CardTypes
<1>2. CASE h2c' = h2c
  BY <1>2 DEF ClearsContext
<1>3. CASE \E m \in Sent : h2c' = Append(h2c, m) /\ (m.op = "clear" => m.l = "ctx")
  <2>1. PICK m \in Sent : h2c' = Append(h2c, m) /\ (m.op = "clear" => m.l = "ctx")
    BY <1>3
  <2>2. /\ h2c'[Len(h2c) + 1] = m /\ (\A i \in DOMAIN h2c : h2c'[i] = h2c[i])
        /\ \A i \in DOMAIN h2c' : i \in DOMAIN h2c \/ i = Len(h2c) + 1
    BY <2>1, <1>1, AppendTo
  <2> QED
    BY <2>1, <2>2 DEF ClearsContext
<1>4. CASE h2c # <<>> /\ h2c' = Tail(h2c)
  <2>1. \A i \in DOMAIN h2c' : i + 1 \in DOMAIN h2c /\ h2c'[i] = h2c[i + 1]
    BY <1>1, <1>4, TailOf
  <2> QED
    BY <2>1 DEF ClearsContext
<1>5. CASE \E n \in DOMAIN h2c : h2c' = RemoveAt(h2c, n)
  <2>1. PICK n \in DOMAIN h2c : h2c' = RemoveAt(h2c, n)
    BY <1>5
  <2>2. /\ n \in Nat
        /\ \A i \in DOMAIN h2c' : /\ i \in Nat /\ (i < n => i \in DOMAIN h2c /\ h2c'[i] = h2c[i])
                                  /\ i >= n => i + 1 \in DOMAIN h2c /\ h2c'[i] = h2c[i + 1]
    BY <2>1, <1>1, RemovedFrom
  <2> QED
    BY <2>2 DEF ClearsContext
<1> QED
  BY <1>2, <1>3, <1>4, <1>5, Moves

\* The card has a new error only when it reports one, and none when it was cleared.
LEMMA ErrorsNext ==
    ASSUME Types, ClearsContext, Next
    PROVE  /\ err'["ctx"] = err["ctx"] \/ err'["ctx"] = 0 \/ Has(c2h', {"exec", "context", "fatal"})
           /\ card_takes /\ Head(h2c).op = "clear" => err'["ctx"] = 0
<1> USE DEF ringVars, cardVars, threadVars, histVars, boundVars, Others, Rest, Host
<1>1. c2h \in Seq(Reported) /\ h2c \in Seq(Sent) /\ err \in [Lists -> 0 .. MaxErrors] /\ "ctx" \in Lists
  BY DEF Types, CardTypes, Lists
<1>2. ASSUME card_takes
      PROVE  /\ err'["ctx"] = err["ctx"] \/ err'["ctx"] = 0
             /\ Head(h2c).op = "clear" => err'["ctx"] = 0
  <2>1. Head(h2c).op = "clear" => Head(h2c).l = "ctx"
    BY <1>1, <1>2, TailOf DEF ClearsContext, card_takes
  <2>2. ASSUME TakesClear(Head(h2c).l) PROVE err' = [err EXCEPT ![Head(h2c).l] = 0]
    BY <2>2 DEF TakesClear
  <2> QED
    BY <1>1, <1>2, <2>1, <2>2, Takes DEF TakesQuery, TakesDestroy, TakesUpdate
<1>3. ASSUME NEW l \in Lists, card_fails(l) PROVE err'["ctx"] = err["ctx"] \/ Has(c2h', {"exec", "context", "fatal"})
  <2>1. CASE l = "ctx"
    <3>1. Event("exec", l) \in Reported /\ Event("exec", l).op = "exec"
      BY ErrorsAssumption DEF Event, Reported
    <3>2. c2h' = Append(c2h, Event("exec", l))
      BY <1>3, <2>1 DEF card_fails
    <3>3. Len(c2h) + 1 \in DOMAIN c2h' /\ c2h'[Len(c2h) + 1] = Event("exec", l)
      BY <1>1, <3>1, <3>2, AppendTo
    <3> QED
      BY <3>1, <3>3 DEF Has
  <2>2. CASE l # "ctx"
    BY <1>1, <1>3, <2>2 DEF card_fails
  <2> QED
    BY <2>1, <2>2
<1>4. CASE ~card_takes /\ ~\E l \in Lists : card_fails(l)
  <2>1. err' = err
    BY <1>4
    DEF Next, Wait, Recover, User, Respond, Card, wait_start, wait_test, wait_late, wait_startQuery, wait_send, wait_query,
        wait_restore, wait_timeout, recover, recover_startQuery, recover_send, recover_query, recover_failed,
        list_startQuery, list_send, list_query, list_destroy, critical_event, error_packet, error_failed, error_cleared,
        list_destroyed, card_updates, card_dies, card_sends
  <2> QED
    BY <1>4, <2>1
<1> QED
  BY <1>2, <1>3, <1>4

\* Who takes the error holds it, and who holds it does so until it is put back, or
\* the message that clears it is sent.
LEMMA HoldsNext ==
    ASSUME Types, Next
    PROVE  /\ broken \/ critical_event => broken' \/ Holds' \/ dropped'
           /\ Holds => Holds' \/ broken' \/ dropped' \/ Has(h2c', {"clear"})
           /\ dropped => dropped'
<1> USE DEF ringVars, cardVars, threadVars, histVars, boundVars, Others, Rest, Host
<1> DEFINE K == /\ broken \/ critical_event => broken' \/ Holds' \/ dropped'
                /\ Holds => Holds' \/ broken' \/ dropped' \/ Has(h2c', {"clear"})
                /\ dropped => dropped'
<1>1. /\ w \in [Waiter -> {"idle", "test", "asleep", "late", "take", "send", "query", "qsleep", "restore"}]
      /\ h2c \in Seq(Sent) /\ HostTypes /\ queries \in Nat /\ "ctx" \in Lists
  BY DEF Types, HostTypes, CardTypes, Lists
<1>2. critical_event => broken'
  BY DEF critical_event, Receive, broken
<1>3. ASSUME NEW t \in Waiter, wait_start(t) \/ Wait(t) \/ wait_timeout(t) PROVE K
  <2>1. ASSUME wait_start(t) \/ wait_timeout(t) PROVE K
    BY <1>1, <1>2, <2>1 DEF wait_start, wait_timeout, Holds, broken
  <2>2. ASSUME wait_test(t) PROVE K
    <3>1. CASE m_critical_error = "exec"
      BY <1>1, <2>2, <3>1 DEF wait_test, Holds
    <3>2. CASE m_critical_error # "exec"
      <4>1. /\ m_critical_error' = m_critical_error /\ w[t] = "test" /\ rec' = rec /\ dropped' = dropped
            /\ \A u \in Waiter \ {t} : w'[u] = w[u]
        BY <1>1, <2>2, <3>2 DEF wait_test
      <4> QED
        BY <1>2, <4>1 DEF Holds, broken
    <3> QED
      BY <3>1, <3>2
  <2>3. ASSUME wait_late(t) PROVE K
    <3>1. /\ w[t] = "late" /\ rec' = rec /\ \A u \in Waiter \ {t} : w'[u] = w[u]
      BY <1>1, <2>3 DEF wait_late
    <3>2. Holds => Holds'
      BY <3>1 DEF Holds
    <3>3. (dropped => dropped') /\ (broken => broken' \/ dropped')
      BY <2>3 DEF wait_late, broken
    <3> QED
      BY <1>2, <3>2, <3>3
  <2>4. ASSUME wait_startQuery(t) \/ wait_query(t) PROVE K
    <3>1. w'[t] \in {"send", "restore", "qsleep"} /\ dropped' = dropped
      BY <1>1, <2>4 DEF wait_startQuery, wait_query
    <3> QED
      BY <3>1 DEF Holds
  <2>5. ASSUME wait_send(t) PROVE K
    <3>1. CASE dropped' = TRUE
      BY <3>1
    <3>2. CASE w' = [w EXCEPT ![t] = "query"] /\ UNCHANGED dropped
      BY <1>1, <3>2 DEF Holds
    <3> QED
      BY <2>5, <3>1, <3>2 DEF wait_send
  <2>6. ASSUME wait_restore(t) PROVE K
    BY <2>6 DEF wait_restore, broken
  <2> QED
    BY <1>3, <2>1, <2>2, <2>3, <2>4, <2>5, <2>6 DEF Wait
<1>4. ASSUME recover \/ Recover PROVE K
  <2>1. ASSUME recover \/ recover_startQuery PROVE K
    BY <2>1 DEF recover, recover_startQuery, Holds
  <2>2. ASSUME recover_send PROVE K
    <3>1. CASE sendQueryErrorList("ctx", "clear")
      <4> DEFINE m == [op |-> "clear", l |-> "ctx", id |-> queries + 1]
      <4>1. m \in Sent /\ m.op = "clear" /\ h2c' = Append(h2c, m)
        BY <1>1, <3>1 DEF Sent, sendQueryErrorList
      <4> HIDE DEF m
      <4>2. Len(h2c) + 1 \in DOMAIN h2c' /\ h2c'[Len(h2c) + 1] = m
        BY <1>1, <4>1, AppendTo
      <4>3. Has(h2c', {"clear"})
        BY <4>1, <4>2 DEF Has
      <4> QED
        BY <2>2, <4>3, <1>2 DEF recover_send, broken
    <3>2. CASE rec' = "failed"
      BY <2>2, <3>2 DEF recover_send, Holds
    <3> QED
      BY <2>2, <3>1, <3>2 DEF recover_send
  <2>3. ASSUME recover_query PROVE K
    <3>1. w' = w /\ rec = "query" /\ dropped' = dropped /\ m_critical_error' = m_critical_error
      BY <2>3 DEF recover_query
    <3> QED
      BY <1>2, <3>1 DEF Holds, broken
  <2>4. ASSUME recover_failed PROVE K
    <3>1. critical_save # "none"
      BY DEF Types, HostTypes
    <3> QED
      BY <2>4, <3>1 DEF recover_failed, broken
  <2> QED
    BY <1>4, <2>1, <2>2, <2>3, <2>4 DEF Recover
<1>5. ASSUME UNCHANGED <<m_critical_error, w, rec, dropped>> PROVE K
  BY <1>2, <1>5 DEF Holds, broken
<1>6. ASSUME Respond PROVE K
  <2>1. UNCHANGED dropped /\ (UNCHANGED m_critical_error \/ broken')
    BY <1>2, <1>6 DEF Respond, critical_event, error_packet, error_failed, error_cleared, list_destroyed
  <2>2. UNCHANGED threadVars \/ Notify
    <3>1. ASSUME error_packet PROVE UNCHANGED threadVars \/ Notify
      BY <3>1 DEF error_packet, appendErrorListPacket, completeQuery
    <3> QED
      BY <1>6, <3>1 DEF Respond, critical_event, error_failed, error_cleared, list_destroyed, completeQuery
  <2>3. Holds => Holds'
    BY <2>2, <1>1, HoldsWoken
  <2>4. broken => broken'
    BY <2>1 DEF broken
  <2> QED
    BY <1>2, <2>1, <2>3, <2>4
<1>7. ASSUME list_startQuery \/ User \/ list_destroy \/ Card \/ (\E l \in Lists : card_fails(l)) \/ card_dies PROVE K
  BY <1>5, <1>7 DEF list_startQuery, User, list_send, list_query, list_destroy, Card, card_takes, card_updates, card_sends,
                    card_fails, card_dies
<1> QED
  BY <1>3, <1>4, <1>6, <1>7 DEF Next

\* A step keeps the error in mind.
LEMMA RememberedNext == ASSUME Types, ClearsContext, Remembered, Next PROVE Remembered'
<1>1. /\ Has(c2h, {"exec", "context", "fatal"}) /\ ~critical_event => Has(c2h', {"exec", "context", "fatal"})
      /\ Has(h2c, {"clear"}) /\ ~(card_takes /\ Head(h2c).op = "clear") => Has(h2c', {"clear"})
  BY Said
<1>2. /\ err'["ctx"] = err["ctx"] \/ err'["ctx"] = 0 \/ Has(c2h', {"exec", "context", "fatal"})
      /\ card_takes /\ Head(h2c).op = "clear" => err'["ctx"] = 0
  BY ErrorsNext
<1>3. /\ broken \/ critical_event => broken' \/ Holds' \/ dropped'
      /\ Holds => Holds' \/ broken' \/ dropped' \/ Has(h2c', {"clear"})
      /\ dropped => dropped'
  BY HoldsNext
<1>4. CASE err'["ctx"] = 0
  BY <1>4 DEF Remembered
<1>5. CASE err'["ctx"] # 0
  BY <1>1, <1>2, <1>3, <1>5 DEF Remembered
<1> QED
  BY <1>4, <1>5

-----------------------------------------------------------------------------
(***************************************************************************)
(* The theorems                                                            *)
(***************************************************************************)

LEMMA InitInv == Init => IInv
<1> SUFFICES ASSUME Init PROVE IInv
  OBVIOUS
<1>1. h2c = <<>> /\ c2h = <<>> /\ h2c \in Seq(Sent) /\ c2h \in Seq(Reported) /\ DOMAIN h2c = {} /\ DOMAIN c2h = {}
  BY DEF Init
<1>2. PacketAt = {} /\ UpdateAt = {} /\ Cardinality({}) = 0
  BY <1>1, FS_EmptySet DEF PacketAt, UpdateAt
<1>3. Cleared \in ListRecord /\ Cleared.data = <<>> /\ Cleared.buf = 0 /\ Cleared.state = "cleared" /\ Len(Cleared.data) = 0
  BY ErrorsAssumption DEF Cleared, ListRecord
<1>4. HostTypes
  <2>1. \A l \in Lists : list[l] = Cleared
    BY DEF Init
  <2>2. list \in [Lists -> ListRecord] /\ \A l \in Lists : Len(list[l].data) <= list[l].buf
    BY <1>3, <2>1 DEF Init
  <2>3. /\ m_head \in 0 .. RingPages - 1 /\ m_tail \in 0 .. RingPages - 1 /\ queries \in Nat
        /\ asked \in [Lists -> Nat]
    BY ErrorsAssumption DEF Init
  <2>4. /\ w \in [Waiter -> {"idle", "test", "asleep", "late", "take", "send", "query", "qsleep", "restore"}]
        /\ rec \in {"idle", "take", "send", "query", "qsleep", "failed"}
        /\ usr \in {"idle", "send", "query", "qsleep"}
        /\ m_critical_error \in {"none", "exec", "context", "fatal"} /\ critical_save \in {"exec", "context"}
    BY DEF Init
  <2>5. m_is_full \in BOOLEAN /\ objdb \in BOOLEAN /\ dropped \in BOOLEAN /\ overlap \subseteq Lists
    BY DEF Init
  <2> QED
    BY <2>2, <2>3, <2>4, <2>5 DEF HostTypes
<1>5. CardTypes
  BY <1>1, <1>2, ErrorsAssumption DEF Init, CardTypes, NoPacket, NoAnswer, Packet, Lists
<1>6. Ring
  <2>1. m_head = 0 /\ m_tail = 0 /\ ~m_is_full /\ credit = RingPages /\ cardTail = 0 /\ RingPages \in Nat \ {0}
    BY ErrorsAssumption DEF Init
  <2>2. Slot(0, 0) = 0
    BY <2>1, Slots
  <2> QED
    BY <2>1, <2>2, <1>2 DEF Ring, RingInStep, Slot
<1>7. Destroyed /\ ClearsContext
  BY <1>1, <1>2 DEF Init, Destroyed, ClearsContext, NoAnswer
<1>8. ASSUME NEW l \in Lists PROVE Query(l)
  <2>1. QueryAt(l) = {} /\ EndAt(l) = {} /\ PacketOf(l) = {}
    BY <1>1 DEF QueryAt, EndAt, PacketOf, At
  <2>2. Queries(l) = 0 /\ Ends(l) = 0 /\ Packets(l) = 0
    BY <2>1, <1>2 DEF Queries, Ends, Packets
  <2>3. ~Answering(l) /\ ~Asking(l) /\ ~Clearing(l) /\ ~Somewhere(l) /\ \A t \in Waiter : w[t] # "send"
    BY <2>2 DEF Init, Answering, Asking, Clearing, Somewhere, NoAnswer
  <2>4. list[l].state = "cleared"
    BY <1>3 DEF Init
  <2> QED
    BY <2>1, <2>2, <2>3, <2>4 DEF Query, InOnePlace, EmptyBefore, Arriving, Completed
<1>9. Remembered
  BY DEF Init, Remembered, Lists
<1> QED
  BY <1>4, <1>5, <1>6, <1>7, <1>8, <1>9 DEF IInv, Types

LEMMA NextInv == IInv /\ [Next]_vars => IInv'
<1>1. ASSUME IInv, Next PROVE IInv'
  <2>1. Types /\ Ring /\ Destroyed /\ (\A l \in Lists \ overlap : Query(l)) /\ Remembered /\ ClearsContext
    BY <1>1 DEF IInv
  <2>2. Types'
    BY <1>1, <2>1, HostNext, CardNext DEF Types
  <2>3. Ring' /\ Destroyed' /\ Remembered' /\ ClearsContext'
    BY <1>1, <2>1, <2>2, RingNext, DestroyedNext, RememberedNext, ClearsNext
  <2>4. \A l \in Lists \ overlap' : Query(l)'
    BY <1>1, <2>1, <2>2, QueryNext
  <2> QED
    BY <2>2, <2>3, <2>4 DEF IInv
<1>2. ASSUME IInv, UNCHANGED vars PROVE IInv'
  <2> USE DEF vars, ringVars, cardVars, threadVars, histVars, boundVars
  <2>1. Types'
    BY <1>2 DEF IInv, Types, HostTypes, CardTypes, PacketAt
  <2>2. Ring' /\ Destroyed' /\ Remembered' /\ ClearsContext'
    BY <1>2 DEF IInv, Ring, RingInStep, PacketAt, UpdateAt, Below, Destroyed, Remembered, ClearsContext, broken, Holds, Has
  <2>3. ASSUME NEW l \in Lists \ overlap' PROVE Query(l)'
    BY <1>2, <2>1, <2>3, QueryStill DEF IInv, SendersKept
  <2> QED
    BY <2>1, <2>2, <2>3 DEF IInv
<1> QED
  BY <1>1, <1>2

\* The inductive invariant holds in every state of the error lists.
THEOREM ErrorListInv == Spec => []IInv
<1>1. Init => IInv
  BY InitInv
<1>2. IInv /\ [Next]_vars => IInv'
  BY NextInv
<1> QED
  BY <1>1, <1>2, PTL DEF Spec

\* processExecErrorList reads every packet from the page that the card put it in, the
\* pages of the response ring are neither lost nor used twice, and an answer that
\* completes a query is the whole one of the query asked last, in order and within
\* the buffer, unless two queries of the list overlapped.
THEOREM PacketsAreRight == Spec => []PacketsRight
<1>1. IInv => PacketsRight
  <2> SUFFICES ASSUME IInv PROVE PacketsRight
    OBVIOUS
  <2>1. Types /\ Ring
    BY DEF IInv
  <2>2. TypeOK
    <3>1. credit \in 0 .. RingPages /\ cardTail = Slot(m_head, Cardinality(PacketAt)) /\ Cardinality(PacketAt) \in 0 .. RingPages
      BY <2>1, RingCounts
    <3>2. m_head \in 0 .. RingPages - 1
      BY <2>1 DEF Types, HostTypes
    <3>3. cardTail \in 0 .. RingPages - 1
      BY <3>1, <3>2, Slots
    <3>4. \A l \in Lists : /\ list[l].state \in {"cleared", "started", "completed"}
                           /\ list[l].buf \in 0 .. MaxErrors /\ list[l].val \in {"ok", "io_error", "no_memory"}
      <4> TAKE l \in Lists
      <4>1. list[l] \in ListRecord
        BY <2>1 DEF Types, HostTypes
      <4> QED
        BY <4>1 DEF ListRecord
    <3> QED
      BY <2>1, <3>1, <3>3, <3>4 DEF Types, HostTypes, TypeOK
  <2>3. AssembledRight
    BY DEF IInv, Query, Completed, AssembledRight
  <2> QED
    BY <2>1, <2>2, <2>3 DEF Ring, PacketsRight
<1> QED
  BY <1>1, ErrorListInv, PTL

\* An execution error that the card still has is not forgotten by waitCriticalError
\* and recover: the context is broken, the event or the message that clears it is on
\* its way, or somebody is asking; but for a query that cannot be sent and a wait
\* whose time is up when the error arrives.
THEOREM ErrorIsNotForgotten == Spec => []ErrorNotForgotten
<1>1. IInv => ErrorNotForgotten
  <2> SUFFICES ASSUME IInv PROVE ErrorNotForgotten
    OBVIOUS
  <2>1. Holds => Holding
    BY DEF Holds, Holding
  <2> QED
    BY <2>1 DEF IInv, Remembered, Has, ErrorNotForgotten
<1> QED
  BY <1>1, ErrorListInv, PTL
==============================================================================
