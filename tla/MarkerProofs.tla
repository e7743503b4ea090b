----------------------------- MODULE MarkerProofs -----------------------------
(***************************************************************************)
(* Markers work for every width of the counter and any number of waiters,  *)
(* as long as the counter stays within a cycle of what is compared with it *)
(* (Window).                                                               *)
(***************************************************************************)
EXTENDS Marker, TLAPS

(***************************************************************************)
(* Positions and sync points                                               *)
(***************************************************************************)

\* The counter of 16 bits: one more, or zero at the end.
LEMMA NextValue ==
    ASSUME NEW v \in 0 .. Mod - 1
    PROVE  /\ v + 1 = Mod => (v + 1) % Mod = 0
           /\ v + 1 # Mod => (v + 1) % Mod = v + 1
BY MarkerAssumption, Z3

\* One cycle more flips the bit.
LEMMA Parity == ASSUME NEW n \in Nat PROVE ((n + 1) % 2 = 1) = ~(n % 2 = 1)
BY Z3

LEMMA AtType == ASSUME NEW p \in Pos PROVE At(p) \in SyncPoints
BY DEF At, Pos, SyncPoints

LEMMA SuccType == ASSUME NEW p \in Pos PROVE Succ(p) \in Pos
BY MarkerAssumption DEF Succ, Pos

\* inc takes the sync point of a position to that of the next one.
LEMMA IncAt == ASSUME NEW p \in Pos PROVE inc(At(p)) = At(Succ(p))
<1>1. CASE p.val + 1 = Mod
  <2>1. (p.val + 1) % Mod = 0
    BY <1>1, NextValue DEF Pos
  <2>2. Succ(p) = [cycle |-> p.cycle + 1, val |-> 0]
    BY <1>1 DEF Succ
  <2>3. ((p.cycle + 1) % 2 = 1) = ~(p.cycle % 2 = 1)
    BY Parity DEF Pos
  <2>4. inc(At(p)) = [val |-> 0, wrap |-> ~(p.cycle % 2 = 1)]
    BY <2>1, Zenon DEF inc, At
  <2>5. At(Succ(p)) = [val |-> 0, wrap |-> (p.cycle + 1) % 2 = 1]
    BY <2>2 DEF At
  <2> QED
    BY <2>3, <2>4, <2>5, Zenon
<1>2. CASE p.val + 1 # Mod
  <2>1. (p.val + 1) % Mod = p.val + 1 /\ p.val + 1 # 0
    BY <1>2, NextValue DEF Pos
  <2>2. Succ(p) = [cycle |-> p.cycle, val |-> p.val + 1]
    BY <1>2 DEF Succ, Pos
  <2> QED
    BY <2>1, <2>2 DEF inc, At
<1> QED
  BY <1>1, <1>2

\* set to the value of a position less than a cycle ahead takes the sync point there.
LEMMA SetAt == ASSUME NEW p \in Pos, NEW q \in Pos, Near(p, q) PROVE set(At(p), q.val) = At(q)
<1>1. ((p.cycle + 1) % 2 = 1) = ~(p.cycle % 2 = 1)
  BY Parity DEF Pos
<1>2. CASE q.cycle = p.cycle /\ p.val <= q.val
  <2>1. ~(q.val < p.val)
    BY <1>2 DEF Pos
  <2> QED
    BY <1>2, <2>1 DEF set, At
<1>3. CASE q.cycle = p.cycle + 1 /\ q.val < p.val
  BY <1>1, <1>3 DEF set, At
<1> QED
  BY <1>2, <1>3 DEF Near

\* Of two positions less than a cycle behind a third one, operator< tells which
\* one is earlier.
LEMMA LessAt ==
    ASSUME NEW p \in Pos, NEW q \in Pos, NEW m \in Pos, Near(p, m), Near(q, m)
    PROVE  LessThan(At(p), At(q)) <=> Before(p, q)
<1>1. ((p.cycle + 1) % 2 = 1) = ~(p.cycle % 2 = 1) /\ ((q.cycle + 1) % 2 = 1) = ~(q.cycle % 2 = 1)
  BY Parity DEF Pos
<1>2. CASE p.cycle = q.cycle
  BY <1>2 DEF LessThan, At, Before, Pos
<1>3. CASE p.cycle + 1 = q.cycle /\ p.val > q.val
  BY <1>1, <1>3 DEF LessThan, At, Before, Pos
<1>4. CASE q.cycle + 1 = p.cycle /\ q.val > p.val
  BY <1>1, <1>4 DEF LessThan, At, Before, Pos
<1>5. \/ p.cycle = q.cycle
      \/ p.cycle + 1 = q.cycle /\ p.val > q.val
      \/ q.cycle + 1 = p.cycle /\ q.val > p.val
  BY DEF Near, Pos
<1> QED
  BY <1>2, <1>3, <1>4, <1>5

\* The next position is later, and the order is total and transitive.
LEMMA SuccAfter == ASSUME NEW p \in Pos PROVE Before(p, Succ(p)) /\ Near(p, p)
BY MarkerAssumption DEF Succ, Before, Near, Pos

LEMMA Total == ASSUME NEW p \in Pos, NEW q \in Pos, p # q, ~Before(q, p) PROVE Before(p, q)
<1>1. p = [cycle |-> p.cycle, val |-> p.val] /\ q = [cycle |-> q.cycle, val |-> q.val]
  BY DEF Pos
<1>2. p.cycle # q.cycle \/ p.val # q.val
  BY <1>1
<1> QED
  BY <1>2 DEF Before, Pos

LEMMA Transitive ==
    ASSUME NEW p \in Pos, NEW q \in Pos, NEW r \in Pos
    PROVE  /\ Before(p, q) /\ Before(q, r) => Before(p, r)
           /\ Before(p, q) /\ ~Before(r, q) => Before(p, r)
           /\ ~Before(q, p) /\ Before(q, r) => Before(p, r)
BY DEF Before, Pos

LEMMA NearFacts ==
    ASSUME NEW p \in Pos, NEW q \in Pos, NEW m \in Pos, Near(p, m), Before(p, q), ~Before(m, q)
    PROVE  Near(p, q) /\ Near(q, m)
BY DEF Near, Before, Pos

\* Who is near the next position was near, unless it is that.
LEMMA NearBack ==
    ASSUME NEW q \in Pos, NEW m \in Pos, ~Before(m, q), Near(q, Succ(m))
    PROVE  Near(q, m)
BY MarkerAssumption DEF Near, Succ, Before, Pos

\* Within a cycle a value stands for one position.
LEMMA NearValue ==
    ASSUME NEW p \in Pos, NEW q \in Pos, NEW m \in Pos, Near(p, m), Near(q, m), p.val = q.val
    PROVE  p = q
<1>1. p = [cycle |-> p.cycle, val |-> p.val] /\ q = [cycle |-> q.cycle, val |-> q.val]
  BY DEF Pos
<1>2. p.cycle = q.cycle
  BY DEF Near, Pos
<1> QED
  BY <1>1, <1>2

LEMMA NearNotAfter == ASSUME NEW p \in Pos, NEW m \in Pos, Near(p, m) PROVE ~Before(m, p)
BY DEF Near, Before, Pos

-----------------------------------------------------------------------------
(***************************************************************************)
(* Type correctness                                                        *)
(***************************************************************************)

\* Every variable keeps its type: the counters stay below 2^16.
THEOREM TypeCorrect == Spec => []TypeOK
<1>1. Init => TypeOK
  BY MarkerAssumption DEF Init, TypeOK, Start, Idle, At, SyncPoints, Pos
<1>2. TypeOK /\ [Next]_vars => TypeOK'
  <2> SUFFICES ASSUME TypeOK, [Next]_vars PROVE TypeOK'
    OBVIOUS
  <2> USE DEF TypeOK
  <2>1. ASSUME NEW ok \in BOOLEAN, createMarker(ok) PROVE TypeOK'
    <3>1. Succ(made) \in Pos
      BY SuccType
    <3>2. inc(m_sync_point) \in SyncPoints
      <4>1. (m_sync_point.val + 1) % Mod \in 0 .. Mod - 1
        <5>1. m_sync_point.val \in 0 .. Mod - 1
          BY DEF SyncPoints
        <5> QED
          BY <5>1, NextValue, MarkerAssumption
      <4>2. m_sync_point.wrap \in BOOLEAN
        BY DEF SyncPoints
      <4> QED
        BY <4>1, <4>2, Zenon DEF inc, SyncPoints
    <3> QED
      BY <2>1, <3>1, <3>2 DEF createMarker, Recent
  <2>2. ASSUME NEW w \in Waiter, NEW p \in markers, waitMarker(w, p) PROVE TypeOK'
    BY <2>2 DEF waitMarker, syncVars, cardVars
  <2>3. ASSUME NEW w \in Waiter, Wait(w) PROVE TypeOK'
    BY <2>3 DEF Wait, waitMarker_sleep, waitMarker_return, syncVars, cardVars
  <2>4. ASSUME NEW w \in Waiter, waitMarker_timeout(w) \/ returned(w) PROVE TypeOK'
    <3>1. Idle \in [pc : {"idle"}, n : Pos]
      BY MarkerAssumption DEF Idle, Start, Pos
    <3> QED
      BY <2>4, <3>1 DEF waitMarker_timeout, returned, syncVars, cardVars
  <2>5. CASE recover
    BY <2>5 DEF recover, syncVars, cardVars
  <2>6. CASE Respond
    <3>1. Notify(wait) \in [Waiter -> [pc : {"idle", "test", "asleep", "NNP_NO_ERROR", "NNP_BROKEN_MARKER",
                                             "NNP_CONTEXT_BROKEN"}, n : Pos]]
      BY DEF Notify
    <3>2. ASSUME NEW p \in events, sync_done(p) PROVE TypeOK'
      <4>1. set(m_last_completed_sync_point, p.val) \in SyncPoints
        <5>1. p.val \in 0 .. Mod - 1 /\ m_last_completed_sync_point.wrap \in BOOLEAN
          BY DEF SyncPoints, Pos
        <5> QED
          BY <5>1, Zenon DEF set, SyncPoints
      <4> QED
        BY <3>1, <3>2, <4>1 DEF sync_done, IsLeast
    <3>3. ASSUME NEW p \in events, sync_failed(p) PROVE TypeOK'
      <4>1. p.val \in 0 .. Mod - 1
        BY DEF Pos
      <4> QED
        BY <3>1, <3>3, <4>1 DEF sync_failed, IsLeast
    <3>4. CASE critical_event
      BY <3>1, <3>4 DEF critical_event, syncVars
    <3> QED
      BY <2>6, <3>2, <3>3, <3>4 DEF Respond
  <2>7. CASE Card
    BY <2>7 DEF Card, card_syncs, IsLeast, syncVars
  <2>8. ASSUME NEW e \in {"context", "abort", "fatal"}, card_breaks(e) PROVE TypeOK'
    BY <2>8 DEF card_breaks, syncVars
  <2>9. CASE UNCHANGED vars
    BY <2>9 DEF vars, syncVars, cardVars
  <2> QED
    BY <2>1, <2>2, <2>3, <2>4, <2>5, <2>6, <2>7, <2>8, <2>9 DEF Next
<1> QED
  BY <1>1, <1>2, PTL DEF Spec

-----------------------------------------------------------------------------
(***************************************************************************)
(* The inductive invariant.  The bit is right as long as the last completed*)
(* sync, the syncs on their way and the markers that are waited for all lie*)
(* within one cycle, in the order in which they were made.                 *)
(***************************************************************************)

OnTheirWay == \A p \in sent \cup events : Before(done, p) /\ ~Before(made, p)
InOrder == \A p \in events, q \in sent : Before(p, q)
Recently ==
    /\ Near(done, made)
    /\ \A p \in markers : Near(p, made)
    /\ \A w \in Waiter : Waiting(w) => Near(wait[w].n, made)

\* Every value recorded as failed is that of a sync nobody was told of, which
\* failed less than a cycle ago or is old.
FailedKnown ==
    /\ \A v \in m_failed_sync_points : \E p \in untold :
           p.val = v /\ (p \in failedAt \/ ~Near(p, made))
    /\ \A p \in untold : ~Before(made, p)

IInv == TypeOK /\ SyncPointsRight /\ OnTheirWay /\ InOrder /\ Recently /\ DoneIsDone /\ FailedKnown

LEMMA InitIInv == Init => IInv
<1> SUFFICES ASSUME Init PROVE IInv
  OBVIOUS
<1>1. TypeOK
  BY MarkerAssumption DEF Init, TypeOK, Start, Idle, At, SyncPoints, Pos
<1>2. \A w \in Waiter : wait[w].pc = "idle"
  BY DEF Init, Idle
<1>3. Near(done, made)
  BY MarkerAssumption DEF Init, Near, Start
<1> QED
  BY <1>1, <1>2, <1>3
  DEF Init, IInv, SyncPointsRight, OnTheirWay, InOrder, Recently, DoneIsDone, Waiting, FailedKnown

\* A marker is made.
LEMMA CreateKeeps == ASSUME IInv, TypeOK', NEW ok \in BOOLEAN, createMarker(ok) PROVE IInv'
<1> USE DEF IInv, TypeOK
<1> DEFINE p == Succ(made)
<1>1. p \in Pos /\ Before(made, p) /\ Near(p, p)
  BY SuccType, SuccAfter
<1>2. made' = p /\ done' = done /\ events' = events /\ wait' = wait /\ sent' \subseteq sent \cup {p}
  BY DEF createMarker
<1>3. SyncPointsRight'
  BY <1>2, IncAt DEF createMarker, SyncPointsRight
<1>4. \A q \in Pos : ~Before(made, q) => Before(q, p) /\ ~Before(p, q)
  BY <1>1 DEF Before, Pos
<1>5. ~Before(made, done)
  BY NearNotAfter DEF Recently
<1>6. OnTheirWay'
  <2>1. Before(done, p) /\ ~Before(p, p)
    BY <1>1, <1>4, <1>5 DEF Before, Pos
  <2> QED
    BY <1>2, <1>4, <2>1 DEF OnTheirWay
<1>7. InOrder'
  BY <1>2, <1>4 DEF InOrder, OnTheirWay
<1>8. Recently'
  <2>1. Near(done, p) /\ \A w \in Waiter : Waiting(w) => Near(wait[w].n, p)
    BY DEF createMarker, Window
  <2>2. \A q \in markers' : Near(q, p)
    BY <1>1 DEF createMarker, Recent
  <2> QED
    BY <1>2, <2>1, <2>2 DEF Recently, Waiting
<1>9. DoneIsDone'
  BY <1>2 DEF DoneIsDone
<1>10. FailedKnown'
  <2>1. /\ m_failed_sync_points' = m_failed_sync_points /\ untold' = untold
        /\ failedAt' = {q \in failedAt : Near(q, p)}
    BY DEF createMarker, Recent
  <2>2. \A q \in untold : ~Before(p, q) /\ (Near(q, p) => Near(q, made))
    <3> SUFFICES ASSUME NEW q \in untold PROVE ~Before(p, q) /\ (Near(q, p) => Near(q, made))
      OBVIOUS
    <3>1. q \in Pos /\ ~Before(made, q)
      BY DEF FailedKnown
    <3> QED
      BY <1>4, <3>1, NearBack
  <2> QED
    BY <1>2, <2>1, <2>2 DEF FailedKnown
<1> QED
  BY <1>3, <1>6, <1>7, <1>8, <1>9, <1>10

\* A step of a waiter.
LEMMA WaitKeeps ==
    ASSUME IInv, TypeOK', NEW w \in Waiter,
           \/ \E p \in markers : waitMarker(w, p)
           \/ Wait(w) \/ waitMarker_timeout(w) \/ returned(w)
    PROVE  IInv'
<1> USE DEF IInv, TypeOK
<1>1. /\ made' = made /\ done' = done /\ sent' = sent /\ events' = events /\ markers' = markers
      /\ m_sync_point' = m_sync_point /\ m_last_completed_sync_point' = m_last_completed_sync_point
  BY DEF waitMarker, Wait, waitMarker_sleep, waitMarker_return, waitMarker_timeout, returned, syncVars, cardVars
<1>2. SyncPointsRight' /\ OnTheirWay' /\ InOrder'
  BY <1>1 DEF SyncPointsRight, OnTheirWay, InOrder
<1>3. \A v \in Waiter : v # w => wait'[v] = wait[v]
  BY DEF waitMarker, Wait, waitMarker_sleep, waitMarker_return, waitMarker_timeout, returned
<1>4. /\ wait'[w].pc \in {"test", "asleep"} => Near(wait'[w].n, made)
      /\ wait'[w].pc = "NNP_NO_ERROR" => ~Before(done, wait'[w].n)
  <2>1. ASSUME NEW p \in markers, waitMarker(w, p) PROVE <1>4!1 /\ <1>4!2
    <3>1. wait'[w] = [pc |-> "test", n |-> p]
      BY <2>1 DEF waitMarker
    <3> QED
      BY <3>1 DEF Recently
  <2>2. CASE waitMarker_sleep(w)
    BY <2>2 DEF waitMarker_sleep, Recently, Waiting
  <2>3. CASE waitMarker_return(w)
    <3>1. wait'[w].n = wait[w].n /\ wait'[w].pc \notin {"test", "asleep"}
      BY <2>3 DEF waitMarker_return
    <3>2. ASSUME wait'[w].pc = "NNP_NO_ERROR" PROVE ~Before(done, wait[w].n)
      <4>1. ~broken /\ wait[w].n.val \notin m_failed_sync_points
        BY <2>3, <3>2 DEF waitMarker_return
      <4>2. ~LessThan(At(done), At(wait[w].n))
        BY <2>3, <4>1 DEF waitMarker_return, cond, SyncPointsRight, At
      <4>3. Near(wait[w].n, made) /\ Near(done, made) /\ wait[w].n \in Pos
        BY <2>3 DEF waitMarker_return, Recently, Waiting
      <4> QED
        BY <4>2, <4>3, LessAt
    <3> QED
      BY <3>1, <3>2
  <2>4. CASE waitMarker_timeout(w) \/ returned(w)
    BY <2>4 DEF waitMarker_timeout, returned, Idle
  <2> QED
    BY <2>1, <2>2, <2>3, <2>4 DEF Wait
<1>5. Recently' /\ DoneIsDone'
  BY <1>1, <1>3, <1>4 DEF Recently, Waiting, DoneIsDone
<1>6. FailedKnown'
  <2>1. failedAt' = failedAt
    BY DEF waitMarker, Wait, waitMarker_sleep, waitMarker_return, waitMarker_timeout, returned
  <2>2. CASE UNCHANGED <<m_failed_sync_points, untold>>
    BY <1>1, <2>1, <2>2 DEF FailedKnown
  <2>3. ASSUME NEW n, m_failed_sync_points' = m_failed_sync_points \ {n},
               untold' = {q \in untold : q.val # n}
        PROVE  FailedKnown'
    BY <1>1, <2>1, <2>3 DEF FailedKnown
  <2>4. CASE waitMarker_return(w)
    BY <2>2, <2>3, <2>4 DEF waitMarker_return
  <2>5. CASE ~waitMarker_return(w)
    BY <2>2, <2>5 DEF waitMarker, Wait, waitMarker_sleep, waitMarker_timeout, returned, syncVars
  <2> QED
    BY <2>4, <2>5
<1> QED
  BY <1>2, <1>5, <1>6

\* notify_all changes neither who waits nor for what.
LEMMA NotifyKeeps ==
    ASSUME TypeOK, wait' = Notify(wait), NEW w \in Waiter
    PROVE  /\ wait'[w].n = wait[w].n /\ Waiting(w)' = Waiting(w)
           /\ wait'[w].pc = "NNP_NO_ERROR" => wait[w].pc = "NNP_NO_ERROR"
BY DEF TypeOK, Notify, Waiting

\* A sync is done.
LEMMA DoneKeeps == ASSUME IInv, TypeOK', NEW p \in events, sync_done(p) PROVE IInv'
<1> USE DEF IInv, TypeOK
<1>1. /\ made' = made /\ done' = p /\ sent' = sent /\ events' = events \ {p} /\ markers' = markers
      /\ wait' = Notify(wait) /\ m_sync_point' = m_sync_point
      /\ m_last_completed_sync_point' = set(m_last_completed_sync_point, p.val)
  BY DEF sync_done
<1>2. p \in Pos /\ Before(done, p) /\ ~Before(made, p) /\ Near(done, p) /\ Near(p, made)
  BY NearFacts DEF OnTheirWay, Recently
<1>3. SyncPointsRight'
  BY <1>1, <1>2, SetAt DEF SyncPointsRight
<1>4. OnTheirWay'
  <2>1. \A q \in events \ {p} : Before(p, q)
    BY Total DEF sync_done, IsLeast
  <2> QED
    BY <1>1, <2>1 DEF OnTheirWay, InOrder
<1>5. InOrder'
  BY <1>1 DEF InOrder
<1>6. Recently'
  BY <1>1, <1>2, NotifyKeeps DEF Recently
<1>7. DoneIsDone'
  <2> SUFFICES ASSUME NEW w \in Waiter, wait'[w].pc = "NNP_NO_ERROR" PROVE ~Before(p, wait'[w].n)
    BY <1>1 DEF DoneIsDone
  <2>1. wait'[w].n = wait[w].n /\ ~Before(done, wait[w].n) /\ wait[w].n \in Pos
    BY <1>1, NotifyKeeps DEF DoneIsDone
  <2> QED
    BY <1>2, <2>1, Transitive
<1>8. FailedKnown'
  BY DEF sync_done, FailedKnown
<1> QED
  BY <1>3, <1>4, <1>5, <1>6, <1>7, <1>8

\* What else the response thread and the card do.
LEMMA OthersKeep ==
    ASSUME IInv, TypeOK',
           \/ recover \/ critical_event \/ Card
           \/ \E p \in events : sync_failed(p)
           \/ \E e \in {"context", "abort", "fatal"} : card_breaks(e)
    PROVE  IInv'
<1> USE DEF IInv, TypeOK
<1>1. /\ made' = made /\ done' = done /\ markers' = markers
      /\ m_sync_point' = m_sync_point /\ m_last_completed_sync_point' = m_last_completed_sync_point
      /\ wait' \in {wait, Notify(wait)}
  BY DEF recover, critical_event, Card, card_syncs, sync_failed, card_breaks, syncVars, cardVars
<1>2. /\ sent' \cup events' \subseteq sent \cup events
      /\ InOrder'
  <2>1. ASSUME NEW p \in sent, NEW ok \in BOOLEAN, card_syncs(p, ok) PROVE <1>2!1 /\ <1>2!2
    <3>1. \A q \in sent \ {p} : Before(p, q)
      BY <2>1, Total DEF card_syncs, IsLeast
    <3> QED
      BY <2>1, <3>1 DEF card_syncs, InOrder
  <2>2. CASE recover \/ critical_event
    BY <2>2 DEF recover, critical_event, cardVars, InOrder
  <2>3. ASSUME NEW p \in events, sync_failed(p) PROVE <1>2!1 /\ <1>2!2
    BY <2>3 DEF sync_failed, InOrder
  <2>4. ASSUME NEW e \in {"context", "abort", "fatal"}, card_breaks(e) PROVE <1>2!1 /\ <1>2!2
    BY <2>4 DEF card_breaks, InOrder
  <2> QED
    BY <2>1, <2>2, <2>3, <2>4 DEF Card
<1>3. SyncPointsRight' /\ OnTheirWay'
  BY <1>1, <1>2 DEF SyncPointsRight, OnTheirWay
<1>4. Recently' /\ DoneIsDone'
  <2>1. CASE wait' = wait
    BY <1>1, <2>1 DEF Recently, Waiting, DoneIsDone
  <2>2. CASE wait' = Notify(wait)
    BY <1>1, <2>2, NotifyKeeps DEF Recently, DoneIsDone
  <2> QED
    BY <1>1, <2>1, <2>2
<1>5. FailedKnown'
  <2>1. ASSUME NEW p \in events, sync_failed(p) PROVE FailedKnown'
    <3>1. p \in failedAt /\ ~Before(made, p)
      BY <2>1 DEF sync_failed, OnTheirWay
    <3> QED
      BY <2>1, <3>1 DEF sync_failed, FailedKnown
  <2>2. ASSUME NEW p \in sent, NEW ok \in BOOLEAN, card_syncs(p, ok) PROVE FailedKnown'
    BY <2>2 DEF card_syncs, syncVars, FailedKnown
  <2>3. CASE recover \/ critical_event \/ \E e \in {"context", "abort", "fatal"} : card_breaks(e)
    BY <2>3 DEF recover, critical_event, card_breaks, syncVars, FailedKnown
  <2> QED
    BY <2>1, <2>2, <2>3 DEF Card
<1> QED
  BY <1>2, <1>3, <1>4, <1>5

LEMMA Inductive == Spec => []IInv
<1>1. Init => IInv
  BY InitIInv
<1>2. IInv /\ TypeOK' /\ [Next]_vars => IInv'
  <2> SUFFICES ASSUME IInv, TypeOK', [Next]_vars PROVE IInv'
    OBVIOUS
  <2>1. ASSUME NEW ok \in BOOLEAN, createMarker(ok) PROVE IInv'
    BY <2>1, CreateKeeps
  <2>2. ASSUME NEW w \in Waiter, \/ \E p \in markers : waitMarker(w, p)
                                 \/ Wait(w) \/ waitMarker_timeout(w) \/ returned(w)
        PROVE IInv'
    BY <2>2, WaitKeeps
  <2>3. ASSUME NEW p \in events, sync_done(p) PROVE IInv'
    BY <2>3, DoneKeeps
  <2>4. CASE \/ recover \/ critical_event \/ Card
             \/ \E p \in events : sync_failed(p)
             \/ \E e \in {"context", "abort", "fatal"} : card_breaks(e)
    BY <2>4, OthersKeep
  <2>5. CASE UNCHANGED vars
    <3>1. Recently' /\ DoneIsDone'
      BY <2>5 DEF vars, syncVars, cardVars, IInv, Recently, Waiting, DoneIsDone
    <3>2. FailedKnown'
      BY <2>5 DEF vars, syncVars, IInv, FailedKnown
    <3> QED
      BY <2>5, <3>1, <3>2 DEF vars, syncVars, cardVars, IInv, SyncPointsRight, OnTheirWay, InOrder
  <2> QED
    BY <2>1, <2>2, <2>3, <2>4, <2>5 DEF Next, Respond
<1> QED
  BY <1>1, <1>2, TypeCorrect, PTL DEF Spec

\* The one bit that the driver keeps tells the cycles apart: the two sync points
\* of a context are always those of the last marker and of the last completed
\* sync, for every width of the counter.
THEOREM SyncPointsAreRight == Spec => []SyncPointsRight
<1>1. IInv => SyncPointsRight
  BY DEF IInv
<1> QED
  BY <1>1, Inductive, PTL

\* waitMarker returns NNP_NO_ERROR only when the commands before the marker are
\* done, for every width of the counter and any number of waiters.
THEOREM SuccessIsDone == Spec => []DoneIsDone
<1>1. IInv => DoneIsDone
  BY DEF IInv
<1> QED
  BY <1>1, Inductive, PTL

\* waitMarker reports a marker broken only if its own sync failed, or if a sync
\* of an earlier cycle did of which nobody was told.
THEOREM BrokenIsItsOwn == Spec => BrokenIsFailed
<1>1. IInv /\ TypeOK' /\ [Next]_vars =>
        [\A w \in Waiter : Waiting(w) /\ wait'[w].pc = "NNP_BROKEN_MARKER" =>
            wait[w].n \in failedAt \/ \E p \in Stale : p.val = wait[w].n.val]_vars
  <2> SUFFICES ASSUME IInv, Next, NEW w \in Waiter, Waiting(w), wait'[w].pc = "NNP_BROKEN_MARKER"
               PROVE  wait[w].n \in failedAt \/ \E p \in Stale : p.val = wait[w].n.val
    OBVIOUS
  <2> USE DEF IInv, TypeOK
  <2>1. ~broken /\ wait[w].n.val \in m_failed_sync_points
    <3>1. wait'[w] # wait[w] /\ wait' # Notify(wait)
      BY DEF Waiting, Notify
    <3>2. waitMarker_return(w)
      BY <3>1 DEF Next, createMarker, waitMarker, Wait, waitMarker_sleep, waitMarker_return,
         waitMarker_timeout, returned, recover, Respond, sync_done, sync_failed, critical_event,
         Card, card_syncs, card_breaks, Idle
    <3> QED
      BY <3>2 DEF waitMarker_return
  <2>2. PICK p \in untold : p.val = wait[w].n.val /\ (p \in failedAt \/ ~Near(p, made))
    BY <2>1 DEF FailedKnown
  <2>3. CASE Near(p, made)
    <3>1. Near(wait[w].n, made) /\ wait[w].n \in Pos /\ p \in Pos
      BY DEF Recently
    <3>2. p = wait[w].n
      BY <2>2, <2>3, <3>1, NearValue
    <3> QED
      BY <2>2, <2>3, <3>2
  <2>4. CASE ~Near(p, made)
    BY <2>2, <2>4 DEF Stale
  <2> QED
    BY <2>3, <2>4
<1> QED
  BY <1>1, Inductive, TypeCorrect, PTL DEF Spec, BrokenIsFailed
===============================================================================
