---------------------------- MODULE CommandProofs ----------------------------
(***************************************************************************)
(* The commands: a copy command on its own (CopyCommand), and the ones of  *)
(* a command list with what the card knows of them (CmdListEdits).  What   *)
(* becomes of a list's runs and its errors is in CommandListProofs.        *)
(***************************************************************************)
EXTENDS CopyCommand, CmdListEdits, FiniteSetTheorems, SequenceTheorems, TLAPS

-----------------------------------------------------------------------------
(***************************************************************************)
(* A copy command, for any resources, threads and copies, under the        *)
(* discipline that its module states.                                      *)
(*                                                                         *)
(* ReadersExact is not inductive: a step of the response thread or of      *)
(* schedule() that unlocks must know that the copy it unlocks for is still *)
(* accounted for, and only once.  That is what CopyStages says: at most    *)
(* one of m_scheduled, the scheduling thread and the response thread       *)
(* stands for the copy's lock at any time.                                 *)
(***************************************************************************)


\* What is known of one copy whose resource is not lockless.
Stage(c) ==
    /\ schedPc[c] \in {"locked", "cleared"} => ~m_scheduled[c]
    /\ schedPc[c] \in {"marked", "failed", "tested"} => m_scheduled[c]
    /\ respStage[c] = "tested" => m_scheduled[c]
    /\ respStage[c] = "cleared" => ~m_scheduled[c]
    /\ respStage[c] # "none" => schedPc[c] \in {"idle", "checked"}
    /\ schedPc[c] = "checked" /\ c \notin C2H => ~Owns(c)
    /\ cardAlive => inFlight[c] <= 1
    /\ cardAlive /\ inFlight[c] > 0 =>
           /\ m_scheduled[c]
           /\ schedPc[c] \in {"idle", "checked"}
           /\ respStage[c] = "none"
    /\ m_scheduled[c] =>
           \/ inFlight[c] > 0
           \/ schedPc[c] \in {"marked", "failed", "tested"}
           \/ respStage[c] = "tested"
           \/ c \in remaining

CopyStages == \A c \in Copy : ~Lockless(CopyRes[c]) => Stage(c)

\* The card fails only between schedule() calls.
CardQuiet ==
    failing # "no" => CardFails /\ ~cardAlive /\ \A c \in Copy : schedPc[c] = "idle"

\* The response thread handles one copy at a time.
RespOne == \A c, d \in Copy : respStage[c] # "none" /\ respStage[d] # "none" => c = d

\* A failed run is recorded in its resource, or about to be.
FailRecorded ==
    \A c \in failedData : ~Lockless(CopyRes[c]) =>
        \/ m_failed_copy_ops[CopyRes[c]] > 0
        \/ respStage[c] = "tested" /\ respFailed

\* Nobody ever locks a lockless resource.
LocklessFree ==
    /\ \A t \in CpuThread : cpuPc[t] # "idle" => ~Lockless(CpuRes[t])
    /\ \A r \in Res : Lockless(r) => m_readers[r] = 0

IInv ==
    /\ Disciplined
    /\ TypeOK
    /\ ReadersExact
    /\ CpuMode
    /\ CopyStages
    /\ CardQuiet
    /\ RespOne
    /\ FailRecorded
    /\ LocklessFree

-----------------------------------------------------------------------------
(***************************************************************************)
(* Counting: n is the value of m_readers that stands for the owners S, of  *)
(* which those in WS are writers.                                          *)
(***************************************************************************)
Exact(n, S, WS) ==
    IF S \cap WS # {} THEN n = -1 /\ Cardinality(S) = 1 ELSE n = Cardinality(S)

\* Another reader: lock_cpu_access and lock_device_access for read.
LEMMA AddReader ==
    ASSUME NEW n \in Int, NEW S, NEW WS, NEW x,
           IsFiniteSet(S), Exact(n, S, WS), n >= 0, x \notin S, x \notin WS
    PROVE  Exact(n + 1, S \cup {x}, WS)
<1>1. S \cap WS = {} /\ n = Cardinality(S)
  BY DEF Exact
<1>2. (S \cup {x}) \cap WS = {}
  BY <1>1
<1>3. Cardinality(S \cup {x}) = Cardinality(S) + 1
  BY FS_AddElement
<1> QED
  BY <1>1, <1>2, <1>3 DEF Exact

\* A writer of a resource nobody has.
LEMMA AddWriter ==
    ASSUME NEW S, NEW WS, NEW x \in WS, IsFiniteSet(S), Exact(0, S, WS)
    PROVE  Exact(-1, S \cup {x}, WS)
<1>1. Cardinality(S) = 0
  BY DEF Exact
<1>2. S = {}
  BY <1>1, FS_EmptySet
<1>3. Cardinality({x}) = 1
  BY FS_Singleton
<1> QED
  BY <1>2, <1>3 DEF Exact

\* A set of one element.
LEMMA OneElement ==
    ASSUME NEW S, IsFiniteSet(S), Cardinality(S) = 1, NEW x \in S
    PROVE  S = {x}
BY FS_Singleton

\* A reader leaves: unlock_cpu_access and unlock_device_access.
LEMMA RemoveReader ==
    ASSUME NEW n \in Int, NEW S, NEW WS, NEW x \in S,
           IsFiniteSet(S), Exact(n, S, WS), x \notin WS
    PROVE  Exact(n - 1, S \ {x}, WS) /\ n > 0
<1>1. S \cap WS = {}
  <2> SUFFICES ASSUME S \cap WS # {} PROVE FALSE
    OBVIOUS
  <2>1. S = {x}
    BY OneElement DEF Exact
  <2> QED
    BY <2>1
<1>2. n = Cardinality(S)
  BY <1>1 DEF Exact
<1>3. Cardinality(S \ {x}) = Cardinality(S) - 1 /\ Cardinality(S) \in Nat
  BY FS_RemoveElement, FS_CardinalityType
<1>4. Cardinality(S \ {x}) \in Nat
  BY FS_RemoveElement, FS_CardinalityType
<1> QED
  BY <1>1, <1>2, <1>3, <1>4 DEF Exact

\* The writer leaves.
LEMMA RemoveWriter ==
    ASSUME NEW n, NEW S, NEW WS, NEW x \in S,
           IsFiniteSet(S), Exact(n, S, WS), x \in WS
    PROVE  S = {x} /\ n = -1 /\ Exact(0, S \ {x}, WS)
<1>1. n = -1 /\ Cardinality(S) = 1
  BY DEF Exact
<1>2. S = {x}
  BY <1>1, OneElement
<1>3. S \ {x} = {} /\ Cardinality({}) = 0
  BY <1>2, FS_EmptySet
<1> QED
  BY <1>1, <1>2, <1>3 DEF Exact

-----------------------------------------------------------------------------
(***************************************************************************)
(* Type correctness                                                        *)
(***************************************************************************)

\* Every step of a CPU thread keeps the types of the lock's state.
LEMMA CpuType ==
    ASSUME TypeOK, NEW t \in CpuThread, CpuNext(t), UNCHANGED copyVars
    PROVE  TypeOK'
<1> USE HostResAssumption DEF TypeOK, HostResTypeOK, copyVars
<1>1. CpuRes[t] \in Res
  OBVIOUS
<1>2. CASE lock_cpu_access_test(t)
  BY <1>2 DEF lock_cpu_access_test
<1>3. CASE lock_cpu_access_sleep(t)
  BY <1>3 DEF lock_cpu_access_sleep
<1>4. CASE lock_cpu_access_fail(t)
  BY <1>4 DEF lock_cpu_access_fail
<1>5. CASE lock_cpu_access_take(t)
  <2>1. m_readers' \in [Res -> Int]
    BY <1>1, <1>5 DEF lock_cpu_access_take
  <2>2. m_cpu_locked' \in [Res -> {-1, 0, 1}]
    BY <1>1, <1>5 DEF lock_cpu_access_take
  <2> QED
    BY <1>5, <2>1, <2>2 DEF lock_cpu_access_take
<1>6. CASE lock_cpu_access_timeout(t)
  BY <1>6 DEF lock_cpu_access_timeout
<1>7. CASE spurious_wakeup(t)
  BY <1>7 DEF spurious_wakeup
<1>8. CASE unlock_cpu_access(t)
  <2>1. m_readers' \in [Res -> Int]
    BY <1>1, <1>8 DEF unlock_cpu_access
  <2>2. m_cpu_locked' \in [Res -> {-1, 0, 1}]
    BY <1>1, <1>8 DEF unlock_cpu_access
  <2> QED
    BY <1>8, <2>1, <2>2 DEF unlock_cpu_access
<1> QED
  BY <1>2, <1>3, <1>4, <1>5, <1>6, <1>7, <1>8 DEF CpuNext, CpuLock

\* unlock_device_access keeps the types of what it changes.
LEMMA UnlockType ==
    ASSUME HostResTypeOK, NEW r \in Res, NEW w \in BOOLEAN,
           unlock_device_access(r, w)
    PROVE  /\ m_readers' \in [Res -> Int]
           /\ cpuPc' \in [CpuThread -> {"idle", "entered", "asleep", "holds"}]
BY DEF HostResTypeOK, unlock_device_access

\* The steps of schedule() keep the types.
LEMMA SchedType ==
    ASSUME TypeOK, NEW c \in Copy, schedule_check(c) \/ SchedStep(c)
    PROVE  TypeOK'
<1> USE CopyAssumption DEF TypeOK, hostResVars, respVars, ctxVars
<1>1. CopyRes[c] \in Res /\ (c \in C2H) \in BOOLEAN
  OBVIOUS
<1>2. CASE schedule_check(c)
  BY <1>2 DEF schedule_check, HostResTypeOK
<1>3. CASE schedule_lock(c)
  <2>1. m_readers' \in [Res -> Int]
    BY <1>1, <1>3 DEF schedule_lock, lock_device_access, HostResTypeOK
  <2> QED
    BY <1>3, <2>1 DEF schedule_lock, HostResTypeOK
<1>4. CASE schedule_mark(c)
  BY <1>4 DEF schedule_mark, HostResTypeOK
<1>5. CASE schedule_send(c)
  BY <1>5 DEF schedule_send, HostResTypeOK
<1>6. CASE schedule_fail(c)
  BY <1>6 DEF schedule_fail, HostResTypeOK
<1>7. CASE undo_test(c)
  BY <1>7 DEF undo_test, HostResTypeOK
<1>8. CASE undo_clear(c)
  BY <1>8 DEF undo_clear, HostResTypeOK
<1>9. CASE undo_unlock(c)
  <2>1. /\ m_readers' \in [Res -> Int]
        /\ cpuPc' \in [CpuThread -> {"idle", "entered", "asleep", "holds"}]
    BY <1>1, <1>9, UnlockType DEF undo_unlock
  <2> QED
    BY <1>9, <2>1 DEF undo_unlock, HostResTypeOK
<1> QED
  BY <1>2, <1>3, <1>4, <1>5, <1>6, <1>7, <1>8, <1>9 DEF SchedStep

\* The steps of the response thread and of recover() keep the types.
LEMMA RespType ==
    ASSUME TypeOK,
           \/ RespStep \/ Card \/ context_fatal
           \/ \E kind \in {"card", "drv", "killed"} : card_fatal(kind)
           \/ recover \/ clearRequestSucceeded \/ recover_fail
    PROVE  TypeOK'
<1> USE CopyAssumption DEF TypeOK, hostResVars, respVars, ctxVars
<1>1. ASSUME NEW c \in Copy, resp_clear(c) PROVE TypeOK'
  <2>1. m_failed_copy_ops' \in [Res -> Nat]
    BY <1>1 DEF resp_clear, HostResTypeOK
  <2> QED
    BY <1>1, <2>1 DEF resp_clear, HostResTypeOK
<1>2. ASSUME NEW c \in Copy, resp_unlock(c) PROVE TypeOK'
  <2>1. /\ m_readers' \in [Res -> Int]
        /\ cpuPc' \in [CpuThread -> {"idle", "entered", "asleep", "holds"}]
    <3>1. CopyRes[c] \in Res /\ (c \in C2H) \in BOOLEAN
      OBVIOUS
    <3> QED
      BY <1>2, <3>1, UnlockType DEF resp_unlock
  <2> QED
    BY <1>2, <2>1 DEF resp_unlock, HostResTypeOK
<1>3. ASSUME NEW c \in Copy, fail_copy(c) PROVE TypeOK'
  BY <1>3 DEF fail_copy, HostResTypeOK
<1>4. CASE fail_done
  BY <1>4 DEF fail_done, ctxBroken, HostResTypeOK
<1>5. ASSUME NEW c \in Copy, NEW hasFailed \in BOOLEAN, copy_event(c, hasFailed) PROVE TypeOK'
  BY <1>5 DEF copy_event, HostResTypeOK
<1>6. CASE context_fatal
  BY <1>6 DEF context_fatal, HostResTypeOK
<1>7. ASSUME NEW kind \in {"card", "drv", "killed"}, card_fatal(kind) PROVE TypeOK'
  BY <1>7 DEF card_fatal, HostResTypeOK
<1>8. CASE recover
  BY <1>8 DEF recover, HostResTypeOK
<1>9. CASE clearRequestSucceeded
  BY <1>9 DEF clearRequestSucceeded, HostResTypeOK
<1>10. CASE recover_fail
  BY <1>10 DEF recover_fail, ctxBroken, HostResTypeOK
<1> QED
  BY <1>1, <1>2, <1>3, <1>4, <1>5, <1>6, <1>7, <1>8, <1>9, <1>10
  DEF RespStep, Card

\* Type correctness needs no discipline of the application.
THEOREM TypeCorrect == Spec => []TypeOK
<1>1. CopyInit => TypeOK
  <2> SUFFICES ASSUME CopyInit PROVE TypeOK
    OBVIOUS
  <2>1. HostResTypeOK
    BY DEF CopyInit, HostResInit, HostResTypeOK
  <2> QED
    BY <2>1 DEF CopyInit, TypeOK
<1>2. TypeOK /\ [Next]_vars => TypeOK'
  <2> SUFFICES ASSUME TypeOK, [Next]_vars PROVE TypeOK'
    OBVIOUS
  <2>1. CASE UNCHANGED vars
    BY <2>1 DEF TypeOK, HostResTypeOK, vars, hostResVars, copyVars
  <2>2. ASSUME NEW t \in CpuThread, CpuNext(t), UNCHANGED copyVars PROVE TypeOK'
    BY <2>2, CpuType
  <2>3. CASE CopyNext
    BY <2>3, SchedType, RespType DEF CopyNext
  <2> QED
    BY <2>1, <2>2, <2>3 DEF Next
<1> QED
  BY <1>1, <1>2, PTL DEF Spec

-----------------------------------------------------------------------------
(***************************************************************************)
(* The owners of a resource and its counter                                *)
(***************************************************************************)

Writers(r) == {o \in CpuThread \cup Copy : Writes(o, r)}

LEMMA OwnersFinite == \A r \in Res : IsFiniteSet(Owners(r))
<1> SUFFICES ASSUME NEW r \in Res PROVE IsFiniteSet(Owners(r))
  OBVIOUS
<1>1. IsFiniteSet(CpuOwners(r))
  BY HostResAssumption, FS_Subset DEF CpuOwners
<1>2. IsFiniteSet(DevOwners(r))
  BY CopyAssumption, FS_Subset DEF DevOwners
<1> QED
  BY <1>1, <1>2, FS_Union DEF Owners

\* The condition of ReadersExact for one resource, whose owners are S.
LEMMA ExactIff ==
    ASSUME NEW n, NEW r \in Res, NEW S, S \subseteq CpuThread \cup Copy
    PROVE  Exact(n, S, Writers(r)) <=>
               IF \E o \in S : Writes(o, r) THEN n = -1 /\ Cardinality(S) = 1
                                            ELSE n = Cardinality(S)
<1>1. (\E o \in S : Writes(o, r)) <=> S \cap Writers(r) # {}
  BY DEF Writers
<1> QED
  BY <1>1 DEF Exact

\* The owners are threads and copies.
LEMMA OwnersSubset ==
    \A r \in Res : /\ Owners(r) \subseteq CpuThread \cup Copy
                   /\ Owners(r)' \subseteq CpuThread \cup Copy
BY DEF Owners, CpuOwners, DevOwners

\* A step that changes one resource: its counter still stands for its owners.
LEMMA Change ==
    ASSUME ReadersExact, m_readers \in [Res -> Int], NEW r \in Res, NEW n,
           m_readers' = [m_readers EXCEPT ![r] = n],
           \A q \in Res \ {r} : Owners(q)' = Owners(q),
           Exact(n, Owners(r)', Writers(r))
    PROVE  ReadersExact'
<1> SUFFICES ASSUME NEW q \in Res, ~Lockless(q)
             PROVE  IF \E o \in Owners(q)' : Writes(o, q)
                    THEN m_readers'[q] = -1 /\ Cardinality(Owners(q)') = 1
                    ELSE m_readers'[q] = Cardinality(Owners(q)')
  BY DEF ReadersExact, Writes, for_write, Lockless
<1>1. CASE q = r
  <2>1. m_readers'[q] = n
    BY <1>1
  <2> QED
    BY <1>1, <2>1, ExactIff, OwnersSubset
<1>2. CASE q # r
  <2>1. m_readers'[q] = m_readers[q] /\ Owners(q)' = Owners(q)
    BY <1>2
  <2> QED
    BY <2>1 DEF ReadersExact
<1> QED
  BY <1>1, <1>2

\* What ReadersExact says of one resource.
LEMMA ExactAt ==
    ASSUME ReadersExact, NEW r \in Res, ~Lockless(r)
    PROVE  Exact(m_readers[r], Owners(r), Writers(r))
<1>1. Owners(r) \subseteq CpuThread \cup Copy
  BY OwnersSubset
<1> QED
  BY <1>1, ExactIff DEF ReadersExact

\* No owner changes.
LEMMA Frame ==
    ASSUME ReadersExact, UNCHANGED m_readers,
           \A r \in Res : ~Lockless(r) => Owners(r)' = Owners(r)
    PROVE  ReadersExact'
BY DEF ReadersExact, Writes, for_write, Lockless

\* One more owner.
LEMMA Grow ==
    ASSUME ReadersExact, m_readers \in [Res -> Int],
           NEW r \in Res, ~Lockless(r),
           NEW x \in CpuThread \cup Copy, x \notin Owners(r),
           IF Writes(x, r) THEN m_readers[r] = 0 ELSE m_readers[r] >= 0,
           m_readers' = [m_readers EXCEPT ![r] =
                             IF Writes(x, r) THEN -1 ELSE @ + 1],
           \A q \in Res : Owners(q)' = IF q = r THEN Owners(r) \cup {x} ELSE Owners(q)
    PROVE  ReadersExact'
<1>1. Exact(m_readers[r], Owners(r), Writers(r)) /\ m_readers[r] \in Int
  BY ExactAt
<1>2. IsFiniteSet(Owners(r))
  BY OwnersFinite
<1>3. CASE Writes(x, r)
  <2>1. x \in Writers(r)
    BY <1>3 DEF Writers
  <2>2. Exact(-1, Owners(r)', Writers(r))
    BY <1>1, <1>2, <1>3, <2>1, AddWriter
  <2>3. m_readers' = [m_readers EXCEPT ![r] = -1]
    BY <1>3
  <2> QED
    BY <2>2, <2>3, Change
<1>4. CASE ~Writes(x, r)
  <2>1. x \notin Writers(r)
    BY <1>4 DEF Writers
  <2>2. Exact(m_readers[r] + 1, Owners(r)', Writers(r))
    BY <1>1, <1>2, <1>4, <2>1, AddReader
  <2>3. m_readers' = [m_readers EXCEPT ![r] = m_readers[r] + 1]
    BY <1>4
  <2> QED
    BY <2>2, <2>3, Change
<1> QED
  BY <1>3, <1>4

\* One owner less.
LEMMA Shrink ==
    ASSUME ReadersExact, m_readers \in [Res -> Int],
           NEW r \in Res, ~Lockless(r), NEW x \in Owners(r),
           m_readers' = [m_readers EXCEPT ![r] =
                             IF Writes(x, r) THEN 0 ELSE @ - 1],
           \A q \in Res : Owners(q)' = IF q = r THEN Owners(r) \ {x} ELSE Owners(q)
    PROVE  ReadersExact'
<1>1. Exact(m_readers[r], Owners(r), Writers(r)) /\ m_readers[r] \in Int
  BY ExactAt
<1>2. IsFiniteSet(Owners(r)) /\ x \in CpuThread \cup Copy
  BY OwnersFinite, OwnersSubset
<1>3. CASE Writes(x, r)
  <2>1. x \in Writers(r)
    BY <1>2, <1>3 DEF Writers
  <2>2. Exact(0, Owners(r)', Writers(r))
    BY <1>1, <1>2, <2>1, RemoveWriter
  <2>3. m_readers' = [m_readers EXCEPT ![r] = 0]
    BY <1>3
  <2> QED
    BY <2>2, <2>3, Change
<1>4. CASE ~Writes(x, r)
  <2>1. x \notin Writers(r)
    BY <1>4 DEF Writers
  <2>2. Exact(m_readers[r] - 1, Owners(r)', Writers(r))
    BY <1>1, <1>2, <2>1, RemoveReader
  <2>3. m_readers' = [m_readers EXCEPT ![r] = m_readers[r] - 1]
    BY <1>4
  <2> QED
    BY <2>2, <2>3, Change
<1> QED
  BY <1>3, <1>4

-----------------------------------------------------------------------------
(***************************************************************************)
(* IInv is inductive: the steps of the CPU threads                         *)
(***************************************************************************)

\* Disciplined is about the constants only.
LEMMA DisciplinedConstant == Disciplined <=> Disciplined'
BY DEF Disciplined, for_write

\* What a step of a CPU thread leaves alone.
LEMMA CpuRest ==
    ASSUME IInv, UNCHANGED copyVars, UNCHANGED m_failed_copy_ops
    PROVE  Disciplined' /\ CopyStages' /\ CardQuiet' /\ RespOne' /\ FailRecorded'
<1> USE DEF copyVars
<1>1. Disciplined'
  BY DisciplinedConstant DEF IInv
<1>2. CopyStages'
  BY DEF IInv, CopyStages, Stage, Owns, Lockless
<1>3. CardQuiet' /\ RespOne'
  BY DEF IInv, CardQuiet, RespOne
<1>4. FailRecorded'
  BY DEF IInv, FailRecorded, Lockless
<1> QED
  BY <1>1, <1>2, <1>3, <1>4

\* A step of a CPU thread that neither gets nor gives back its resource.
LEMMA CpuQuiet ==
    ASSUME IInv, TypeOK', UNCHANGED copyVars,
           UNCHANGED <<m_readers, m_cpu_locked, m_failed_copy_ops>>,
           NEW t \in CpuThread, NEW v,
           cpuPc' = [cpuPc EXCEPT ![t] = v], v # "holds", cpuPc[t] # "holds",
           v # "idle" => ~Lockless(CpuRes[t])
    PROVE  IInv'
<1>1. \A r \in Res : CpuOwners(r)' = CpuOwners(r)
  BY DEF IInv, TypeOK, HostResTypeOK, CpuOwners
<1>2. \A r \in Res : Owners(r)' = Owners(r)
  BY <1>1 DEF Owners, DevOwners, Owns, copyVars
<1>3. ReadersExact'
  BY <1>2, Frame DEF IInv
<1>4. CpuMode'
  BY <1>1 DEF IInv, CpuMode, for_write
<1>5. LocklessFree'
  BY DEF IInv, LocklessFree, Lockless, TypeOK, HostResTypeOK
<1> QED
  BY <1>3, <1>4, <1>5, CpuRest DEF IInv

\* lock_cpu_access gets the resource.
LEMMA CpuTake ==
    ASSUME IInv, TypeOK', UNCHANGED copyVars, NEW t \in CpuThread,
           lock_cpu_access_take(t)
    PROVE  IInv'
<1> DEFINE r == CpuRes[t]
<1>1. /\ r \in Res /\ ~Lockless(r) /\ t \notin Copy
      /\ m_readers \in [Res -> Int] /\ m_cpu_locked \in [Res -> {-1, 0, 1}]
      /\ cpuPc \in [CpuThread -> {"idle", "entered", "asleep", "holds"}]
  BY HostResAssumption, CopyAssumption
  DEF IInv, TypeOK, HostResTypeOK, LocklessFree, lock_cpu_access_take
<1>2. \A q \in Res : CpuOwners(q)' = IF q = r THEN CpuOwners(r) \cup {t} ELSE CpuOwners(q)
  BY <1>1 DEF CpuOwners, lock_cpu_access_take
<1>3. \A q \in Res : Owners(q)' = IF q = r THEN Owners(r) \cup {t} ELSE Owners(q)
  BY <1>2 DEF Owners, DevOwners, Owns, copyVars
<1>4. Writes(t, r) <=> for_write(r)
  BY <1>1 DEF Writes
<1>5. ReadersExact'
  <2>1. t \notin Owners(r)
    BY <1>1 DEF Owners, CpuOwners, DevOwners, lock_cpu_access_take
  <2>2. IF Writes(t, r) THEN m_readers[r] = 0 ELSE m_readers[r] >= 0
    BY <1>4 DEF lock_cpu_access_take, CpuCond
  <2>3. m_readers' = [m_readers EXCEPT ![r] = IF Writes(t, r) THEN -1 ELSE @ + 1]
    BY <1>4 DEF lock_cpu_access_take
  <2> QED
    BY <1>1, <1>3, <2>1, <2>2, <2>3, Grow DEF IInv
<1>6. CpuMode'
  <2> SUFFICES ASSUME NEW q \in Res
               PROVE  m_cpu_locked'[q] = IF CpuOwners(q)' = {} THEN 0
                                         ELSE IF for_write(q) THEN -1 ELSE 1
    BY DEF CpuMode, for_write
  <2>1. CASE q = r
    <3>1. CpuOwners(q)' # {}
      BY <1>2, <2>1
    <3>2. m_cpu_locked'[q] = IF for_write(q) THEN -1 ELSE 1
      BY <1>1, <2>1 DEF lock_cpu_access_take
    <3> QED
      BY <3>1, <3>2
  <2>2. CASE q # r
    <3>1. CpuOwners(q)' = CpuOwners(q) /\ m_cpu_locked'[q] = m_cpu_locked[q]
      BY <1>1, <1>2, <2>2 DEF lock_cpu_access_take
    <3> QED
      BY <3>1 DEF IInv, CpuMode
  <2> QED
    BY <2>1, <2>2
<1>7. LocklessFree'
  BY <1>1 DEF IInv, LocklessFree, Lockless, lock_cpu_access_take
<1> QED
  BY <1>5, <1>6, <1>7, CpuRest DEF IInv, lock_cpu_access_take

\* unlock_cpu_access undoes what the lock did: m_cpu_locked tells it what.
LEMMA CpuUnlock ==
    ASSUME IInv, TypeOK', UNCHANGED copyVars, NEW t \in CpuThread,
           unlock_cpu_access(t)
    PROVE  IInv'
<1> DEFINE r == CpuRes[t]
<1>1. /\ r \in Res /\ ~Lockless(r) /\ t \notin Copy
      /\ m_readers \in [Res -> Int] /\ m_cpu_locked \in [Res -> {-1, 0, 1}]
      /\ cpuPc \in [CpuThread -> {"idle", "entered", "asleep", "holds"}]
  BY HostResAssumption, CopyAssumption
  DEF IInv, TypeOK, HostResTypeOK, LocklessFree, unlock_cpu_access
<1>2. t \in CpuOwners(r) /\ t \in Owners(r)
  BY DEF CpuOwners, Owners, unlock_cpu_access
<1>3. \A q \in Res : CpuOwners(q)' = IF q = r THEN CpuOwners(r) \ {t} ELSE CpuOwners(q)
  BY <1>1 DEF CpuOwners, unlock_cpu_access
<1>4. \A q \in Res : Owners(q)' = IF q = r THEN Owners(r) \ {t} ELSE Owners(q)
  BY <1>1, <1>3 DEF Owners, DevOwners, Owns, copyVars
<1>5. Writes(t, r) <=> for_write(r)
  BY <1>1 DEF Writes
<1>6. m_cpu_locked[r] = IF for_write(r) THEN -1 ELSE 1
  BY <1>1, <1>2 DEF IInv, CpuMode
<1>7. ReadersExact'
  <2>1. m_readers' = [m_readers EXCEPT ![r] = IF Writes(t, r) THEN 0 ELSE @ - 1]
    <3>1. CASE for_write(r)
      <4>1. m_cpu_locked[r] < 0
        BY <1>6, <3>1
      <4> QED
        BY <1>5, <3>1, <4>1 DEF unlock_cpu_access
    <3>2. CASE ~for_write(r)
      <4>1. ~(m_cpu_locked[r] < 0) /\ m_cpu_locked[r] > 0
        BY <1>6, <3>2
      <4> QED
        BY <1>5, <3>2, <4>1 DEF unlock_cpu_access
    <3> QED
      BY <3>1, <3>2
  <2> QED
    BY <1>1, <1>2, <1>4, <2>1, Shrink DEF IInv
<1>8. CpuOwners(r) = {t}
  <2>1. CASE for_write(r)
    <3>1. t \in Writers(r)
      BY <1>5, <2>1 DEF Writers
    <3>2. Exact(m_readers[r], Owners(r), Writers(r)) /\ IsFiniteSet(Owners(r))
      BY <1>1, ExactAt, OwnersFinite DEF IInv
    <3>3. Owners(r) = {t}
      BY <1>2, <3>1, <3>2, RemoveWriter
    <3> QED
      BY <1>2, <3>3 DEF Owners
  <2>2. CASE ~for_write(r)
    BY <1>2, <2>2 DEF IInv, Disciplined, CpuOwners
  <2> QED
    BY <2>1, <2>2
<1>9. CpuMode'
  <2> SUFFICES ASSUME NEW q \in Res
               PROVE  m_cpu_locked'[q] = IF CpuOwners(q)' = {} THEN 0
                                         ELSE IF for_write(q) THEN -1 ELSE 1
    BY DEF CpuMode, for_write
  <2>1. CASE q = r
    <3>1. CpuOwners(q)' = {}
      BY <1>3, <1>8, <2>1
    <3>2. m_cpu_locked'[q] = 0
      BY <1>1, <2>1 DEF unlock_cpu_access
    <3> QED
      BY <3>1, <3>2
  <2>2. CASE q # r
    <3>1. CpuOwners(q)' = CpuOwners(q) /\ m_cpu_locked'[q] = m_cpu_locked[q]
      BY <1>1, <1>3, <2>2 DEF unlock_cpu_access
    <3> QED
      BY <3>1 DEF IInv, CpuMode
  <2> QED
    BY <2>1, <2>2
<1>10. LocklessFree'
  BY <1>1 DEF IInv, LocklessFree, Lockless, unlock_cpu_access
<1> QED
  BY <1>7, <1>9, <1>10, CpuRest DEF IInv, unlock_cpu_access

\* Every step of a CPU thread.
LEMMA CpuInv ==
    ASSUME IInv, UNCHANGED copyVars, NEW t \in CpuThread, CpuNext(t)
    PROVE  IInv'
<1>1. TypeOK'
  BY CpuType DEF IInv
<1>2. cpuPc[t] # "idle" => ~Lockless(CpuRes[t])
  BY DEF IInv, LocklessFree
<1>3. CASE lock_cpu_access_test(t)
  BY <1>1, <1>3, CpuQuiet DEF lock_cpu_access_test
<1>4. CASE lock_cpu_access_sleep(t)
  BY <1>1, <1>2, <1>4, CpuQuiet DEF lock_cpu_access_sleep
<1>5. CASE lock_cpu_access_fail(t)
  BY <1>1, <1>5, CpuQuiet DEF lock_cpu_access_fail
<1>6. CASE lock_cpu_access_take(t)
  BY <1>1, <1>6, CpuTake
<1>7. CASE lock_cpu_access_timeout(t)
  BY <1>1, <1>7, CpuQuiet DEF lock_cpu_access_timeout
<1>8. CASE spurious_wakeup(t)
  BY <1>1, <1>2, <1>8, CpuQuiet DEF spurious_wakeup
<1>9. CASE unlock_cpu_access(t)
  BY <1>1, <1>9, CpuUnlock
<1> QED
  BY <1>3, <1>4, <1>5, <1>6, <1>7, <1>8, <1>9 DEF CpuNext, CpuLock

-----------------------------------------------------------------------------
(***************************************************************************)
(* The lock under the device side                                          *)
(***************************************************************************)
LockInv == ReadersExact /\ CpuMode /\ LocklessFree

\* The device side gives the CPU nothing and takes nothing from it.
LEMMA CpuFrame ==
    ASSUME IInv, UNCHANGED m_cpu_locked,
           \A t \in CpuThread : cpuPc'[t] = "holds" <=> cpuPc[t] = "holds"
    PROVE  CpuMode' /\ \A r \in Res : CpuOwners(r)' = CpuOwners(r)
<1>1. \A r \in Res : CpuOwners(r)' = CpuOwners(r)
  BY DEF CpuOwners
<1> QED
  BY <1>1 DEF IInv, CpuMode, for_write

\* A step that changes neither the lock nor who owns it.
LEMMA DevQuiet ==
    ASSUME IInv, UNCHANGED <<m_readers, m_cpu_locked, cpuPc>>,
           \A d \in Copy : Lockless(CopyRes[d]) \/ (Owns(d)' <=> Owns(d))
    PROVE  LockInv'
<1>1. CpuMode' /\ \A r \in Res : CpuOwners(r)' = CpuOwners(r)
  BY CpuFrame
<1>2. \A r \in Res : ~Lockless(r) => Owners(r)' = Owners(r)
  BY <1>1 DEF Owners, DevOwners
<1>3. ReadersExact'
  BY <1>2, Frame DEF IInv
<1>4. LocklessFree'
  BY DEF IInv, LocklessFree, Lockless
<1> QED
  BY <1>1, <1>3, <1>4 DEF LockInv

\* The owners after a step of one copy.
LEMMA OwnersStep ==
    ASSUME NEW c \in Copy, \A q \in Res : CpuOwners(q)' = CpuOwners(q),
           \A d \in Copy \ {c} : Owns(d)' <=> Owns(d)
    PROVE  \A q \in Res :
               Owners(q)' = IF q # CopyRes[c] THEN Owners(q)
                            ELSE IF Owns(c)' THEN Owners(q) \cup {c}
                            ELSE Owners(q) \ {c}
<1> SUFFICES ASSUME NEW q \in Res
             PROVE  Owners(q)' = IF q # CopyRes[c] THEN Owners(q)
                                 ELSE IF Owns(c)' THEN Owners(q) \cup {c}
                                 ELSE Owners(q) \ {c}
  OBVIOUS
<1>1. c \notin CpuOwners(q)
  BY CopyAssumption DEF CpuOwners
<1>2. CASE q # CopyRes[c]
  BY <1>2 DEF Owners, DevOwners
<1>3. CASE q = CopyRes[c] /\ Owns(c)'
  <2>1. DevOwners(q)' = DevOwners(q) \cup {c}
    BY <1>3 DEF DevOwners
  <2> QED
    BY <1>3, <2>1 DEF Owners
<1>4. CASE q = CopyRes[c] /\ ~Owns(c)'
  <2>1. DevOwners(q)' = DevOwners(q) \ {c}
    BY <1>4 DEF DevOwners
  <2> QED
    BY <1>1, <1>4, <2>1 DEF Owners
<1> QED
  BY <1>2, <1>3, <1>4

\* lock_device_access for a copy that does not have the resource yet.
LEMMA DevLock ==
    ASSUME IInv, UNCHANGED <<m_cpu_locked, cpuPc>>, NEW c \in Copy,
           DeviceLockable(CopyRes[c], c \in C2H),
           lock_device_access(CopyRes[c], c \in C2H),
           ~Lockless(CopyRes[c]) => ~Owns(c) /\ Owns(c)',
           \A d \in Copy \ {c} : Owns(d)' <=> Owns(d)
    PROVE  LockInv'
<1> DEFINE r == CopyRes[c]
<1>1. r \in Res /\ m_readers \in [Res -> Int]
  BY CopyAssumption DEF IInv, TypeOK, HostResTypeOK
<1>2. CASE Lockless(r)
  BY <1>2, DevQuiet DEF lock_device_access
<1>3. CASE ~Lockless(r)
  <2>1. CpuMode' /\ \A q \in Res : CpuOwners(q)' = CpuOwners(q)
    BY CpuFrame
  <2>2. \A q \in Res : Owners(q)' = IF q = r THEN Owners(r) \cup {c} ELSE Owners(q)
    BY <1>3, <2>1, OwnersStep
  <2>3. c \notin Owners(r)
    BY <1>3, CopyAssumption DEF Owners, CpuOwners, DevOwners
  <2>4. Writes(c, r) <=> c \in C2H
    BY DEF Writes
  <2>5. IF Writes(c, r) THEN m_readers[r] = 0 ELSE m_readers[r] >= 0
    BY <1>3, <2>4 DEF DeviceLockable
  <2>6. m_readers' = [m_readers EXCEPT ![r] = IF Writes(c, r) THEN -1 ELSE @ + 1]
    BY <1>3, <2>4 DEF lock_device_access
  <2>7. ReadersExact'
    BY <1>1, <1>3, <2>2, <2>3, <2>5, <2>6, Grow DEF IInv
  <2>8. LocklessFree'
    BY <1>1, <1>3, <2>6 DEF IInv, LocklessFree, Lockless
  <2> QED
    BY <2>1, <2>7, <2>8 DEF LockInv
<1> QED
  BY <1>2, <1>3

\* unlock_device_access for a copy that has the resource.
LEMMA DevUnlock ==
    ASSUME IInv, UNCHANGED m_cpu_locked, NEW c \in Copy,
           unlock_device_access(CopyRes[c], c \in C2H),
           ~Lockless(CopyRes[c]) => Owns(c) /\ ~Owns(c)',
           \A d \in Copy \ {c} : Owns(d)' <=> Owns(d)
    PROVE  LockInv'
<1> DEFINE r == CopyRes[c]
<1>1. /\ r \in Res /\ m_readers \in [Res -> Int]
      /\ cpuPc \in [CpuThread -> {"idle", "entered", "asleep", "holds"}]
  BY CopyAssumption DEF IInv, TypeOK, HostResTypeOK
<1>2. CASE Lockless(r)
  BY <1>2, DevQuiet DEF unlock_device_access
<1>3. CASE ~Lockless(r)
  <2>1. \A t \in CpuThread :
            /\ cpuPc'[t] = "holds" <=> cpuPc[t] = "holds"
            /\ cpuPc'[t] # "idle" => cpuPc[t] # "idle"
    BY <1>1, <1>3 DEF unlock_device_access
  <2>2. CpuMode' /\ \A q \in Res : CpuOwners(q)' = CpuOwners(q)
    BY <2>1, CpuFrame
  <2>3. \A q \in Res : Owners(q)' = IF q = r THEN Owners(r) \ {c} ELSE Owners(q)
    BY <1>3, <2>2, OwnersStep
  <2>4. c \in Owners(r)
    BY <1>3 DEF Owners, DevOwners
  <2>5. Writes(c, r) <=> c \in C2H
    BY DEF Writes
  <2>6. m_readers' = [m_readers EXCEPT ![r] = IF Writes(c, r) THEN 0 ELSE @ - 1]
    BY <1>3, <2>5 DEF unlock_device_access
  <2>7. ReadersExact'
    BY <1>1, <1>3, <2>3, <2>4, <2>6, Shrink DEF IInv
  <2>8. LocklessFree'
    BY <1>1, <1>3, <2>1, <2>6 DEF IInv, LocklessFree, Lockless
  <2> QED
    BY <2>2, <2>7, <2>8 DEF LockInv
<1> QED
  BY <1>2, <1>3

-----------------------------------------------------------------------------
(***************************************************************************)
(* IInv is inductive: the steps of schedule()                              *)
(***************************************************************************)

\* What the steps of schedule() leave alone, and that the card does not fail
\* meanwhile.
LEMMA SchedRest ==
    ASSUME IInv, NEW c \in Copy, schedule_check(c) \/ SchedStep(c)
    PROVE  Disciplined' /\ TypeOK' /\ CardQuiet' /\ RespOne' /\ FailRecorded'
<1>1. /\ UNCHANGED <<respStage, respFailed, failing, m_failed_copy_ops, failedData>>
      /\ failing = "no"
  BY CopyAssumption DEF IInv, CardQuiet, Disciplined, SchedStep, schedule_check,
     schedule_lock, schedule_mark, schedule_send, schedule_fail, undo_test,
     undo_clear, undo_unlock, hostResVars, respVars
<1>2. Disciplined' /\ TypeOK'
  BY DisciplinedConstant, SchedType DEF IInv
<1>3. CardQuiet' /\ RespOne'
  BY <1>1 DEF IInv, CardQuiet, RespOne
<1>4. FailRecorded'
  BY <1>1 DEF IInv, FailRecorded, Lockless
<1> QED
  BY <1>2, <1>3, <1>4

\* A step of schedule() concerns the stage of its own copy only.
LEMMA StagesStep ==
    ASSUME IInv, NEW c \in Copy, UNCHANGED <<respStage, remaining, cardAlive>>,
           \A d \in Copy \ {c} : /\ m_scheduled'[d] = m_scheduled[d]
                                 /\ schedPc'[d] = schedPc[d]
                                 /\ inFlight'[d] = inFlight[d],
           ~Lockless(CopyRes[c]) => Stage(c)'
    PROVE  CopyStages'
<1> SUFFICES ASSUME NEW d \in Copy, ~Lockless(CopyRes[d]) PROVE Stage(d)'
  BY DEF CopyStages, Lockless
<1>1. CASE d = c
  BY <1>1
<1>2. CASE d # c
  <2>1. Stage(d)
    BY DEF IInv, CopyStages
  <2> QED
    BY <1>2, <2>1 DEF Stage, Owns
<1> QED
  BY <1>1, <1>2

\* A copy for which lock_device_access succeeds does not have its resource:
\* a copy to the card was not scheduled, and a copy to the host found no owner.
LEMMA LockedOnce ==
    ASSUME IInv, NEW c \in Copy, schedPc[c] = "checked",
           ~Lockless(CopyRes[c]), DeviceLockable(CopyRes[c], c \in C2H)
    PROVE  ~Owns(c)
<1>1. CASE c \notin C2H
  BY <1>1 DEF IInv, CopyStages, Stage
<1>2. CASE c \in C2H
  <2> SUFFICES ASSUME Owns(c) PROVE FALSE
    OBVIOUS
  <2> DEFINE r == CopyRes[c]
  <2>1. r \in Res /\ c \in Owners(r) /\ m_readers[r] = 0
    BY <1>2, CopyAssumption DEF DeviceLockable, Owners, DevOwners
  <2>2. Writes(c, r)
    BY <1>2 DEF Writes
  <2> QED
    BY <2>1, <2>2 DEF IInv, ReadersExact
<1> QED
  BY <1>1, <1>2

\* Every step of schedule().
LEMMA SchedInv ==
    ASSUME IInv, NEW c \in Copy, schedule_check(c) \/ SchedStep(c)
    PROVE  IInv'
<1> USE DEF hostResVars, respVars, ctxVars
<1>1. Disciplined' /\ TypeOK' /\ CardQuiet' /\ RespOne' /\ FailRecorded'
  BY SchedRest
<1>2. /\ m_scheduled \in [Copy -> BOOLEAN] /\ inFlight \in [Copy -> Nat]
      /\ schedPc \in [Copy -> {"idle", "checked", "locked", "marked", "failed",
                               "tested", "cleared"}]
  BY DEF IInv, TypeOK
<1>3. ~Lockless(CopyRes[c]) => Stage(c)
  BY DEF IInv, CopyStages
<1>4. CASE schedule_check(c)
  <2>1. LockInv'
    BY <1>2, <1>4, DevQuiet DEF schedule_check, Owns
  <2>2. ~Lockless(CopyRes[c]) => Stage(c)'
    BY <1>2, <1>3, <1>4 DEF schedule_check, Stage, Owns, IInv, Disciplined
  <2>3. CopyStages'
    BY <1>2, <1>4, <2>2, StagesStep DEF schedule_check
  <2> QED
    BY <1>1, <2>1, <2>3 DEF IInv, LockInv
<1>5. CASE schedule_lock(c) /\ DeviceLockable(CopyRes[c], c \in C2H)
  <2>1. ~Lockless(CopyRes[c]) => ~Owns(c)
    BY <1>5, LockedOnce DEF schedule_lock
  <2>2. Owns(c)' /\ \A d \in Copy \ {c} : Owns(d)' <=> Owns(d)
    BY <1>2, <1>5 DEF schedule_lock, Owns
  <2>3. LockInv'
    BY <1>5, <2>1, <2>2, DevLock DEF schedule_lock
  <2>4. ~Lockless(CopyRes[c]) => Stage(c)'
    BY <1>2, <1>3, <1>5, <2>1 DEF schedule_lock, Stage, Owns, IInv, TypeOK
  <2>5. CopyStages'
    BY <1>2, <1>5, <2>4, StagesStep DEF schedule_lock
  <2> QED
    BY <1>1, <2>3, <2>5 DEF IInv, LockInv
<1>6. CASE schedule_lock(c) /\ ~DeviceLockable(CopyRes[c], c \in C2H)
  <2>1. LockInv'
    BY <1>2, <1>6, DevQuiet DEF schedule_lock, Owns
  <2>2. ~Lockless(CopyRes[c]) => Stage(c)'
    BY <1>2, <1>3, <1>6 DEF schedule_lock, Stage, Owns
  <2>3. CopyStages'
    BY <1>2, <1>6, <2>2, StagesStep DEF schedule_lock
  <2> QED
    BY <1>1, <2>1, <2>3 DEF IInv, LockInv
<1>7. CASE schedule_mark(c)
  <2>1. LockInv'
    BY <1>2, <1>7, DevQuiet DEF schedule_mark, Owns
  <2>2. ~Lockless(CopyRes[c]) => Stage(c)'
    BY <1>2, <1>3, <1>7 DEF schedule_mark, Stage, Owns
  <2>3. CopyStages'
    BY <1>2, <1>7, <2>2, StagesStep DEF schedule_mark
  <2> QED
    BY <1>1, <2>1, <2>3 DEF IInv, LockInv
<1>8. CASE schedule_send(c)
  <2>1. LockInv'
    BY <1>2, <1>8, DevQuiet DEF schedule_send, Owns
  <2>2. ~Lockless(CopyRes[c]) => Stage(c)'
    BY <1>2, <1>3, <1>8 DEF schedule_send, Stage, Owns
  <2>3. CopyStages'
    BY <1>2, <1>8, <2>2, StagesStep DEF schedule_send
  <2> QED
    BY <1>1, <2>1, <2>3 DEF IInv, LockInv
<1>9. CASE schedule_fail(c)
  <2>1. LockInv'
    BY <1>2, <1>9, DevQuiet DEF schedule_fail, Owns
  <2>2. ~Lockless(CopyRes[c]) => Stage(c)'
    BY <1>2, <1>3, <1>9 DEF schedule_fail, Stage, Owns
  <2>3. CopyStages'
    BY <1>2, <1>9, <2>2, StagesStep DEF schedule_fail
  <2> QED
    BY <1>1, <2>1, <2>3 DEF IInv, LockInv
<1>10. CASE undo_test(c)
  <2>1. LockInv'
    BY <1>2, <1>10, DevQuiet DEF undo_test, Owns
  <2>2. ~Lockless(CopyRes[c]) => Stage(c)'
    BY <1>2, <1>3, <1>10 DEF undo_test, Stage, Owns
  <2>3. CopyStages'
    BY <1>2, <1>10, <2>2, StagesStep DEF undo_test
  <2> QED
    BY <1>1, <2>1, <2>3 DEF IInv, LockInv
<1>11. CASE undo_clear(c)
  <2>1. LockInv'
    BY <1>2, <1>3, <1>11, DevQuiet DEF undo_clear, Owns, Stage
  <2>2. ~Lockless(CopyRes[c]) => Stage(c)'
    BY <1>2, <1>3, <1>11 DEF undo_clear, Stage, Owns
  <2>3. CopyStages'
    BY <1>2, <1>11, <2>2, StagesStep DEF undo_clear
  <2> QED
    BY <1>1, <2>1, <2>3 DEF IInv, LockInv
<1>12. CASE undo_unlock(c)
  <2>1. ~Lockless(CopyRes[c]) => Owns(c) /\ ~Owns(c)'
    BY <1>2, <1>3, <1>12 DEF undo_unlock, Owns, Stage
  <2>2. \A d \in Copy \ {c} : Owns(d)' <=> Owns(d)
    BY <1>2, <1>12 DEF undo_unlock, Owns
  <2>3. LockInv'
    BY <1>12, <2>1, <2>2, DevUnlock DEF undo_unlock
  <2>4. ~Lockless(CopyRes[c]) => Stage(c)'
    BY <1>2, <1>3, <1>12 DEF undo_unlock, Stage, Owns
  <2>5. CopyStages'
    BY <1>2, <1>12, <2>4, StagesStep DEF undo_unlock
  <2> QED
    BY <1>1, <2>3, <2>5 DEF IInv, LockInv
<1> QED
  BY <1>4, <1>5, <1>6, <1>7, <1>8, <1>9, <1>10, <1>11, <1>12 DEF SchedStep

-----------------------------------------------------------------------------
(***************************************************************************)
(* IInv is inductive: the steps of the response thread and of recover()    *)
(***************************************************************************)

\* The response thread starts postSchedule for one copy.
LEMMA CopyEventInv ==
    ASSUME IInv, TypeOK', NEW c \in Copy, NEW hasFailed \in BOOLEAN,
           copy_event(c, hasFailed)
    PROVE  IInv'
<1> USE DEF hostResVars, ctxVars
<1>1. /\ m_scheduled \in [Copy -> BOOLEAN] /\ inFlight \in [Copy -> Nat]
      /\ respStage \in [Copy -> {"none", "tested", "cleared"}]
  BY DEF IInv, TypeOK
<1>2. \A d \in Copy : respStage[d] = "none"
  BY DEF copy_event, respIdle
<1>3. LockInv'
  BY <1>1, <1>2, DevQuiet DEF copy_event, Owns
<1>4. CopyStages'
  <2> SUFFICES ASSUME NEW d \in Copy, ~Lockless(CopyRes[d]) PROVE Stage(d)'
    BY DEF CopyStages, Lockless
  <2>1. Stage(d)
    BY DEF IInv, CopyStages
  <2>2. CASE d = c
    BY <1>1, <1>2, <2>1, <2>2 DEF copy_event, Stage, Owns
  <2>3. CASE d # c
    BY <1>1, <2>1, <2>3 DEF copy_event, Stage, Owns
  <2> QED
    BY <2>2, <2>3
<1>5. CardQuiet'
  BY DEF IInv, CardQuiet, copy_event
<1>6. RespOne'
  BY <1>1, <1>2 DEF RespOne, copy_event
<1>7. FailRecorded'
  <2> SUFFICES ASSUME NEW d \in failedData', ~Lockless(CopyRes[d])
               PROVE  \/ m_failed_copy_ops'[CopyRes[d]] > 0
                      \/ respStage'[d] = "tested" /\ respFailed'
    BY DEF FailRecorded, Lockless
  <2>1. CASE d \in failedData
    BY <1>2, <2>1 DEF IInv, TypeOK, FailRecorded, copy_event
  <2>2. CASE d \notin failedData
    <3>1. d = c /\ hasFailed
      BY <2>2 DEF copy_event
    <3>2. m_scheduled[c]
      BY <3>1 DEF IInv, CopyStages, Stage, copy_event
    <3> QED
      BY <1>1, <3>1, <3>2 DEF copy_event
  <2> QED
    BY <2>1, <2>2
<1> QED
  BY <1>3, <1>4, <1>5, <1>6, <1>7, DisciplinedConstant DEF IInv, LockInv

\* failAllScheduledCopyCommands starts postSchedule for one copy.
LEMMA FailCopyInv ==
    ASSUME IInv, TypeOK', NEW c \in Copy, fail_copy(c)
    PROVE  IInv'
<1> USE DEF hostResVars, ctxVars
<1>1. /\ m_scheduled \in [Copy -> BOOLEAN] /\ inFlight \in [Copy -> Nat]
      /\ respStage \in [Copy -> {"none", "tested", "cleared"}]
  BY DEF IInv, TypeOK
<1>2. \A d \in Copy : respStage[d] = "none" /\ schedPc[d] = "idle"
  BY DEF IInv, CardQuiet, fail_copy
<1>3. LockInv'
  BY <1>1, <1>2, DevQuiet DEF fail_copy, Owns
<1>4. CopyStages'
  <2> SUFFICES ASSUME NEW d \in Copy, ~Lockless(CopyRes[d]) PROVE Stage(d)'
    BY DEF CopyStages, Lockless
  <2>1. Stage(d)
    BY DEF IInv, CopyStages
  <2>2. ~cardAlive
    BY DEF IInv, CardQuiet, fail_copy
  <2>3. CASE d = c
    BY <1>1, <1>2, <2>1, <2>2, <2>3 DEF fail_copy, Stage, Owns
  <2>4. CASE d # c
    BY <1>1, <2>1, <2>4 DEF fail_copy, Stage, Owns
  <2> QED
    BY <2>3, <2>4
<1>5. CardQuiet'
  BY DEF IInv, CardQuiet, fail_copy
<1>6. RespOne'
  BY <1>1, <1>2 DEF RespOne, fail_copy
<1>7. FailRecorded'
  <2> SUFFICES ASSUME NEW d \in failedData', ~Lockless(CopyRes[d])
               PROVE  \/ m_failed_copy_ops'[CopyRes[d]] > 0
                      \/ respStage'[d] = "tested" /\ respFailed'
    BY DEF FailRecorded, Lockless
  <2>1. CASE d \in failedData
    BY <1>2, <2>1 DEF IInv, TypeOK, FailRecorded, fail_copy
  <2>2. CASE d \notin failedData
    BY <1>1, <2>2 DEF fail_copy
  <2> QED
    BY <2>1, <2>2
<1> QED
  BY <1>3, <1>4, <1>5, <1>6, <1>7, DisciplinedConstant DEF IInv, LockInv

\* postSchedule clears m_scheduled and records a failure.
LEMMA RespClearInv ==
    ASSUME IInv, TypeOK', NEW c \in Copy, resp_clear(c)
    PROVE  IInv'
<1> USE DEF ctxVars
<1>1. /\ m_scheduled \in [Copy -> BOOLEAN] /\ CopyRes[c] \in Res
      /\ respStage \in [Copy -> {"none", "tested", "cleared"}]
      /\ m_failed_copy_ops \in [Res -> Nat]
  BY CopyAssumption DEF IInv, TypeOK, HostResTypeOK
<1>2. LockInv'
  <2>1. \A d \in Copy : Lockless(CopyRes[d]) \/ (Owns(d)' <=> Owns(d))
    BY <1>1 DEF IInv, CopyStages, Stage, resp_clear, Owns
  <2> QED
    BY <2>1, DevQuiet DEF resp_clear
<1>3. CopyStages'
  <2> SUFFICES ASSUME NEW d \in Copy, ~Lockless(CopyRes[d]) PROVE Stage(d)'
    BY DEF CopyStages, Lockless
  <2>1. Stage(d)
    BY DEF IInv, CopyStages
  <2>2. CASE d = c
    BY <1>1, <2>1, <2>2 DEF resp_clear, Stage, Owns
  <2>3. CASE d # c
    BY <1>1, <2>1, <2>3 DEF resp_clear, Stage, Owns
  <2> QED
    BY <2>2, <2>3
<1>4. CardQuiet'
  BY DEF IInv, CardQuiet, resp_clear
<1>5. RespOne'
  BY <1>1 DEF IInv, RespOne, resp_clear
<1>6. FailRecorded'
  <2> SUFFICES ASSUME NEW d \in failedData, ~Lockless(CopyRes[d])
               PROVE  m_failed_copy_ops'[CopyRes[d]] > 0
    BY DEF FailRecorded, Lockless, resp_clear
  <2>1. d \in Copy /\ CopyRes[d] \in Res
    BY CopyAssumption DEF IInv, TypeOK
  <2>2. CASE m_failed_copy_ops[CopyRes[d]] > 0
    BY <1>1, <2>1, <2>2 DEF resp_clear
  <2>3. CASE respStage[d] = "tested" /\ respFailed
    <3>1. d = c
      BY <2>1, <2>3 DEF IInv, RespOne, resp_clear
    <3> QED
      BY <1>1, <2>3, <3>1 DEF resp_clear
  <2> QED
    BY <2>2, <2>3 DEF IInv, FailRecorded
<1> QED
  BY <1>2, <1>3, <1>4, <1>5, <1>6, DisciplinedConstant DEF IInv, LockInv

\* postSchedule unlocks the resource.
LEMMA RespUnlockInv ==
    ASSUME IInv, TypeOK', NEW c \in Copy, resp_unlock(c)
    PROVE  IInv'
<1> USE DEF ctxVars
<1>1. respStage \in [Copy -> {"none", "tested", "cleared"}]
  BY DEF IInv, TypeOK
<1>2. LockInv'
  <2>1. ~Lockless(CopyRes[c]) => Owns(c) /\ ~Owns(c)'
    BY <1>1 DEF IInv, CopyStages, Stage, resp_unlock, Owns
  <2>2. \A d \in Copy \ {c} : Owns(d)' <=> Owns(d)
    BY <1>1 DEF resp_unlock, Owns
  <2> QED
    BY <2>1, <2>2, DevUnlock DEF resp_unlock
<1>3. CopyStages'
  <2> SUFFICES ASSUME NEW d \in Copy, ~Lockless(CopyRes[d]) PROVE Stage(d)'
    BY DEF CopyStages, Lockless
  <2>1. Stage(d)
    BY DEF IInv, CopyStages
  <2>2. CASE d = c
    BY <1>1, <2>1, <2>2 DEF resp_unlock, Stage, Owns
  <2>3. CASE d # c
    BY <1>1, <2>1, <2>3 DEF resp_unlock, Stage, Owns
  <2> QED
    BY <2>2, <2>3
<1>4. CardQuiet'
  BY DEF IInv, CardQuiet, resp_unlock
<1>5. RespOne'
  BY <1>1 DEF IInv, RespOne, resp_unlock
<1>6. FailRecorded'
  <2> SUFFICES ASSUME NEW d \in failedData, ~Lockless(CopyRes[d])
               PROVE  m_failed_copy_ops[CopyRes[d]] > 0
    BY DEF FailRecorded, Lockless, resp_unlock
  <2>1. respStage[d] # "tested"
    BY DEF IInv, TypeOK, RespOne, resp_unlock
  <2> QED
    BY <2>1 DEF IInv, FailRecorded
<1> QED
  BY <1>2, <1>3, <1>4, <1>5, <1>6, DisciplinedConstant DEF IInv, LockInv

\* The steps that break, fail or recover the context.
LEMMA ContextInv ==
    ASSUME IInv, TypeOK',
           \/ context_fatal \/ recover \/ recover_fail \/ fail_done
           \/ \E kind \in {"card", "drv", "killed"} : card_fatal(kind)
           \/ clearRequestSucceeded
    PROVE  IInv'
<1> USE DEF hostResVars, respVars
<1>1. CASE context_fatal \/ recover \/ recover_fail \/ fail_done
  <2>1. /\ UNCHANGED <<hostResVars, m_scheduled, schedPc, inFlight, respStage,
                       respFailed, remaining, cardAlive, failedData>>
        /\ failing' \in {failing, "no"}
    BY <1>1 DEF context_fatal, recover, recover_fail, fail_done
  <2>2. LockInv'
    BY <2>1, DevQuiet DEF Owns
  <2>3. CopyStages'
    BY <2>1 DEF IInv, CopyStages, Stage, Owns, Lockless
  <2>4. CardQuiet' /\ RespOne' /\ FailRecorded'
    BY <2>1 DEF IInv, CardQuiet, RespOne, FailRecorded, Lockless
  <2> QED
    BY <2>2, <2>3, <2>4, DisciplinedConstant DEF IInv, LockInv
<1>2. ASSUME NEW kind \in {"card", "drv", "killed"}, card_fatal(kind) PROVE IInv'
  <2>1. LockInv'
    BY <1>2, DevQuiet DEF card_fatal, Owns
  <2>2. CopyStages'
    BY <1>2 DEF card_fatal, IInv, CopyStages, Stage, Owns, Lockless
  <2>3. CardQuiet'
    BY <1>2, CopyAssumption DEF card_fatal, IInv, CardQuiet, Disciplined
  <2>4. RespOne' /\ FailRecorded'
    BY <1>2 DEF card_fatal, IInv, RespOne, FailRecorded, Lockless
  <2> QED
    BY <1>2, <2>1, <2>2, <2>3, <2>4, DisciplinedConstant DEF IInv, LockInv
<1>3. CASE clearRequestSucceeded
  <2>1. LockInv'
    BY <1>3, DevQuiet DEF clearRequestSucceeded, Owns
  <2>2. CopyStages'
    BY <1>3 DEF clearRequestSucceeded, IInv, CopyStages, Stage, Owns, Lockless
  <2>3. CardQuiet' /\ RespOne' /\ FailRecorded'
    BY <1>3 DEF clearRequestSucceeded, IInv, CardQuiet, RespOne, FailRecorded, Lockless
  <2> QED
    BY <2>1, <2>2, <2>3, DisciplinedConstant DEF IInv, LockInv
<1> QED
  BY <1>1, <1>2, <1>3

-----------------------------------------------------------------------------
(***************************************************************************)
(* The theorems                                                            *)
(***************************************************************************)

\* IInv holds initially.
LEMMA InitInv == ASSUME Disciplined, CopyInit PROVE IInv
<1> USE DEF CopyInit, HostResInit
<1>1. TypeOK
  <2>1. HostResTypeOK
    BY DEF HostResTypeOK
  <2> QED
    BY <2>1 DEF TypeOK
<1>2. \A r \in Res : CpuOwners(r) = {} /\ Owners(r) = {}
  BY DEF Owners, CpuOwners, DevOwners, Owns
<1>3. ReadersExact
  <2>1. Cardinality({}) = 0
    BY FS_EmptySet
  <2> QED
    BY <1>2, <2>1 DEF ReadersExact
<1>4. CpuMode
  BY <1>2 DEF CpuMode
<1>5. CopyStages
  BY DEF CopyStages, Stage, Owns
<1>6. CardQuiet /\ RespOne /\ FailRecorded /\ LocklessFree
  BY DEF CardQuiet, RespOne, FailRecorded, LocklessFree
<1> QED
  BY <1>1, <1>3, <1>4, <1>5, <1>6 DEF IInv

\* Every step keeps IInv.
LEMMA NextInv == ASSUME IInv, [Next]_vars PROVE IInv'
<1>1. CASE UNCHANGED vars
  <2> USE <1>1 DEF vars, hostResVars, copyVars
  <2>1. TypeOK'
    BY DEF IInv, TypeOK, HostResTypeOK
  <2>2. LockInv'
    BY DevQuiet DEF Owns
  <2>3. CopyStages'
    BY DEF IInv, CopyStages, Stage, Owns, Lockless
  <2>4. CardQuiet' /\ RespOne' /\ FailRecorded'
    BY DEF IInv, CardQuiet, RespOne, FailRecorded, Lockless
  <2> QED
    BY <2>1, <2>2, <2>3, <2>4, DisciplinedConstant DEF IInv, LockInv
<1>2. ASSUME NEW t \in CpuThread, CpuNext(t), UNCHANGED copyVars PROVE IInv'
  BY <1>2, CpuInv
<1>3. ASSUME NEW c \in Copy, schedule_check(c) \/ SchedStep(c) PROVE IInv'
  BY <1>3, SchedInv
<1>4. CASE RespStep
  <2>1. TypeOK'
    BY <1>4, RespType DEF IInv
  <2> QED
    BY <1>4, <2>1, RespClearInv, RespUnlockInv, FailCopyInv, ContextInv DEF RespStep
<1>5. CASE Card
  <2>1. TypeOK'
    BY <1>5, RespType DEF IInv
  <2> QED
    BY <1>5, <2>1, CopyEventInv DEF Card
<1>6. CASE \/ context_fatal \/ recover \/ recover_fail \/ clearRequestSucceeded
           \/ \E kind \in {"card", "drv", "killed"} : card_fatal(kind)
  <2>1. TypeOK'
    BY <1>6, RespType DEF IInv
  <2> QED
    BY <1>6, <2>1, ContextInv
<1> QED
  BY <1>1, <1>2, <1>3, <1>4, <1>5, <1>6 DEF Next, CopyNext

\* IInv is an invariant of the copies under the discipline of the application.
THEOREM Inductive == Disciplined /\ Spec => []IInv
<1>1. Disciplined /\ CopyInit => IInv
  BY InitInv
<1>2. IInv /\ [Next]_vars => IInv'
  BY NextInv
<1> QED
  BY <1>1, <1>2, PTL DEF Spec

\* m_readers counts the holders of a resource exactly (nnpiHostProc.h:141) in
\* every interleaving of threads, copies and response thread, however many.
THEOREM ReadersAreExact == Disciplined /\ Spec => []ReadersExact
<1>1. IInv => ReadersExact
  BY DEF IInv
<1> QED
  BY <1>1, Inductive, PTL

\* m_cpu_locked always tells unlock_cpu_access the mode of the CPU's lock, and one
\* thread at a time has it, however many passed the unlocked test: a writer is found
\* by the count, and that no two threads read is the discipline.
THEOREM CpuLockedIsExact == Disciplined /\ Spec => []CpuLockedExact
<1>1. IInv => CpuLockedExact
  <2> SUFFICES ASSUME IInv, NEW r \in Res, NEW t \in CpuOwners(r), NEW u \in CpuOwners(r)
               PROVE  t = u
    BY DEF CpuLockedExact, IInv
  <2>1. ReadersExact /\ Disciplined
    BY DEF IInv
  <2>2. t \in CpuThread /\ u \in CpuThread /\ CpuRes[t] = r /\ CpuRes[u] = r /\ cpuPc[t] = "holds"
    BY DEF CpuOwners
  <2>3. CASE ~for_write(r)
    BY <2>1, <2>2, <2>3 DEF Disciplined
  <2>4. CASE for_write(r)
    <3>1. t \in Owners(r) /\ u \in Owners(r) /\ Writes(t, r)
      BY <2>2, <2>4, CopyAssumption DEF Owners, Writes
    <3>2. ~Lockless(r)
      BY <2>2 DEF IInv, LocklessFree
    <3>3. Cardinality(Owners(r)) = 1
      BY <2>1, <3>1, <3>2 DEF ReadersExact
    <3>4. IsFiniteSet(Owners(r))
      BY OwnersFinite
    <3> QED
      BY <3>1, <3>3, <3>4, FS_Singleton
  <2> QED
    BY <2>1, <2>3, <2>4
<1> QED
  BY <1>1, Inductive, PTL

\* No CPU thread and no other copy conflicts with a run pending on the card.
THEOREM DmaIsExclusive == Disciplined /\ Spec => []DmaExclusion
<1>1. IInv => DmaExclusion
  <2> SUFFICES ASSUME IInv, cardAlive, NEW r \in Res, ~Lockless(r),
                      NEW o \in DmaUsers(r), NEW p \in DmaUsers(r), Writes(o, r)
               PROVE  o = p
    BY DEF DmaExclusion
  <2>1. DmaUsers(r) \subseteq Owners(r)
    BY DEF DmaUsers, Owners, CpuOwners, DevOwners, Owns, IInv, CopyStages, Stage
  <2>2. Cardinality(Owners(r)) = 1 /\ o \in Owners(r) /\ p \in Owners(r)
    BY <2>1 DEF IInv, ReadersExact
  <2>3. Owners(r) = {o}
    BY <2>2, OwnersFinite, OneElement
  <2> QED
    BY <2>2, <2>3
<1> QED
  BY <1>1, Inductive, PTL

\* A resource is busy only while somebody is still to release it.
THEOREM BusyIsPending == Disciplined /\ Spec => []BusyOnlyWhilePending
<1>1. IInv => BusyOnlyWhilePending
  <2> SUFFICES ASSUME IInv, NEW r \in Res, m_readers[r] # 0, CpuOwners(r) = {}
               PROVE  \E c \in Copy : CopyRes[c] = r /\ Pending(c)
    BY DEF BusyOnlyWhilePending
  <2>1. ~Lockless(r)
    BY DEF IInv, LocklessFree
  <2>2. Owners(r) # {}
    <3>1. Cardinality({}) = 0
      BY FS_EmptySet
    <3> QED
      BY <2>1, <3>1 DEF IInv, ReadersExact
  <2>3. PICK c \in DevOwners(r) : TRUE
    BY <2>2 DEF Owners
  <2>4. c \in Copy /\ CopyRes[c] = r /\ Owns(c) /\ Stage(c)
    BY <2>1, <2>3 DEF DevOwners, IInv, CopyStages
  <2>5. Pending(c)
    BY <2>4 DEF Pending, Owns, Stage
  <2> QED
    BY <2>4, <2>5
<1> QED
  BY <1>1, Inductive, PTL

\* A thread that gets a resource gets none whose copy failed.
THEOREM FailedDataStaysLocked == Disciplined /\ Spec => FailedDataNeverHandedOut
<1>1. IInv /\ [Next]_vars =>
        [\A t \in CpuThread :
            cpuPc[t] # "holds" /\ cpuPc'[t] = "holds"
            => \A c \in failedData : CopyRes[c] # CpuRes[t]]_vars
  <2> SUFFICES ASSUME IInv, Next, NEW t \in CpuThread,
                      cpuPc[t] # "holds", cpuPc'[t] = "holds"
               PROVE  \A c \in failedData : CopyRes[c] # CpuRes[t]
    OBVIOUS
  <2>1. lock_cpu_access_take(t)
    <3>1. cpuPc \in [CpuThread -> {"idle", "entered", "asleep", "holds"}]
      BY DEF IInv, TypeOK, HostResTypeOK
    <3>2. ASSUME NEW u \in CpuThread, CpuNext(u) PROVE lock_cpu_access_take(t)
      BY <3>1, <3>2 DEF CpuNext, CpuLock, lock_cpu_access_test,
         lock_cpu_access_sleep, lock_cpu_access_fail, lock_cpu_access_take,
         lock_cpu_access_timeout, spurious_wakeup, unlock_cpu_access
    <3>3. ASSUME NEW r, NEW w, unlock_device_access(r, w) PROVE FALSE
      BY <3>1, <3>3 DEF unlock_device_access
    <3>4. ASSUME NEW c \in Copy, schedule_check(c) \/ SchedStep(c) PROVE FALSE
      BY <3>3, <3>4 DEF SchedStep, schedule_check, schedule_lock, schedule_mark,
         schedule_send, schedule_fail, undo_test, undo_clear, undo_unlock, hostResVars
    <3>5. ASSUME RespStep PROVE FALSE
      BY <3>3, <3>5 DEF RespStep, resp_clear, resp_unlock, fail_copy, fail_done, hostResVars
    <3>6. ASSUME \/ Card \/ context_fatal \/ recover \/ clearRequestSucceeded
                 \/ recover_fail
                 \/ \E kind \in {"card", "drv", "killed"} : card_fatal(kind)
          PROVE  FALSE
      BY <3>6 DEF Card, copy_event, context_fatal, recover, clearRequestSucceeded,
         recover_fail, card_fatal, hostResVars
    <3> QED
      BY <3>2, <3>4, <3>5, <3>6 DEF Next, CopyNext
  <2>2. SUFFICES ASSUME NEW c \in failedData, CopyRes[c] = CpuRes[t] PROVE FALSE
    OBVIOUS
  <2>3. c \in Copy /\ ~Lockless(CopyRes[c]) /\ CopyRes[c] \in Res
    BY <2>1, <2>2, HostResAssumption DEF IInv, TypeOK, LocklessFree, lock_cpu_access_take
  <2>4. ~(m_failed_copy_ops[CopyRes[c]] > 0)
    BY <2>1, <2>2 DEF lock_cpu_access_take, broken
  <2>5. c \in Owners(CopyRes[c]) /\ respStage[c] = "tested"
    BY <2>3, <2>4 DEF IInv, FailRecorded, Owners, DevOwners, Owns, CopyStages, Stage
  <2>6. CASE c \in C2H
    BY <2>1, <2>2, <2>3, <2>5, <2>6
    DEF IInv, ReadersExact, Writes, lock_cpu_access_take, CpuCond
  <2>7. CASE c \notin C2H
    <3>1. for_write(CopyRes[c])
      BY <2>3, <2>7, CopyAssumption DEF for_write
    <3>2. m_readers[CopyRes[c]] = 0
      BY <2>1, <2>2, <3>1 DEF lock_cpu_access_take, CpuCond
    <3>3. Cardinality(Owners(CopyRes[c])) = 0
      BY <2>3, <3>2 DEF IInv, ReadersExact
    <3> QED
      BY <2>3, <2>5, <3>3, OwnersFinite, FS_EmptySet
  <2> QED
    BY <2>6, <2>7
<1> QED
  BY <1>1, Inductive, PTL DEF Spec, FailedDataNeverHandedOut

-----------------------------------------------------------------------------
(***************************************************************************)
(* The exit of the response thread.  Once it failed a copy for good, the   *)
(* copy is scheduled only between the mark and the undo of a schedule()    *)
(* call, whose write can only fail.  This needs no discipline.             *)
(***************************************************************************)
Visited(c) == respDead \/ (failing \in {"drv", "killed"} /\ c \notin remaining)

Released ==
    \A c \in Copy : Visited(c) /\ respStage[c] # "tested" /\ m_scheduled[c] =>
        schedPc[c] \in {"marked", "failed", "tested"}

DeadQuiet == respDead => failing = "no" /\ \A c \in Copy : respStage[c] = "none"

EInv == TypeOK /\ Released /\ DeadQuiet

\* A step of schedule().
LEMMA SchedReleased ==
    ASSUME EInv, NEW c \in Copy, schedule_check(c) \/ SchedStep(c)
    PROVE  Released' /\ DeadQuiet'
<1>1. UNCHANGED <<respStage, failing, remaining, respDead>>
  BY DEF SchedStep, schedule_check, schedule_lock, schedule_mark, schedule_send,
     schedule_fail, undo_test, undo_clear, undo_unlock, respVars
<1>2. DeadQuiet'
  BY <1>1 DEF EInv, DeadQuiet
<1>3. Released'
  <2> SUFFICES ASSUME NEW d \in Copy, Visited(d), respStage[d] # "tested", m_scheduled'[d]
               PROVE  schedPc'[d] \in {"marked", "failed", "tested"}
    BY <1>1 DEF Released, Visited
  <2>1. m_scheduled[d] => schedPc[d] \in {"marked", "failed", "tested"}
    BY DEF EInv, Released
  <2>2. /\ schedPc \in [Copy -> {"idle", "checked", "locked", "marked", "failed",
                                 "tested", "cleared"}]
        /\ m_scheduled \in [Copy -> BOOLEAN]
    BY DEF EInv, TypeOK
  <2>3. CASE d # c
    BY <2>1, <2>2, <2>3 DEF SchedStep, schedule_check, schedule_lock, schedule_mark,
       schedule_send, schedule_fail, undo_test, undo_clear, undo_unlock
  <2>4. CASE d = c
    <3>1. ~schedule_send(c)
      BY <2>4 DEF Visited, schedule_send
    <3> QED
      BY <2>1, <2>2, <2>4, <3>1 DEF SchedStep, schedule_check, schedule_lock,
         schedule_mark, schedule_fail, undo_test, undo_clear, undo_unlock
  <2> QED
    BY <2>3, <2>4
<1> QED
  BY <1>2, <1>3

\* A step of the response thread or of the card.
LEMMA RespReleased ==
    ASSUME EInv, RespStep \/ Card
    PROVE  Released' /\ DeadQuiet'
<1>1. /\ respStage \in [Copy -> {"none", "tested", "cleared"}]
      /\ m_scheduled \in [Copy -> BOOLEAN]
  BY DEF EInv, TypeOK
<1>2. ASSUME NEW c \in Copy, resp_clear(c) PROVE Released' /\ DeadQuiet'
  BY <1>1, <1>2 DEF resp_clear, EInv, Released, DeadQuiet, Visited
<1>3. ASSUME NEW c \in Copy, resp_unlock(c) PROVE Released' /\ DeadQuiet'
  BY <1>1, <1>3 DEF resp_unlock, EInv, Released, DeadQuiet, Visited
<1>4. ASSUME NEW c \in Copy, fail_copy(c) PROVE Released' /\ DeadQuiet'
  BY <1>1, <1>4 DEF fail_copy, EInv, Released, DeadQuiet, Visited
<1>5. CASE fail_done
  BY <1>5 DEF fail_done, EInv, TypeOK, Released, DeadQuiet, Visited
<1>6. ASSUME NEW c \in Copy, NEW hasFailed \in BOOLEAN, copy_event(c, hasFailed)
      PROVE  Released' /\ DeadQuiet'
  BY <1>1, <1>6 DEF copy_event, respIdle, EInv, Released, DeadQuiet, Visited
<1> QED
  BY <1>2, <1>3, <1>4, <1>5, <1>6 DEF RespStep, Card

LEMMA EInvNext == ASSUME EInv, TypeOK', [Next]_vars PROVE EInv'
<1>1. ASSUME UNCHANGED <<m_scheduled, schedPc, respStage, failing, remaining, respDead>>
      PROVE  Released' /\ DeadQuiet'
  BY <1>1 DEF EInv, Released, DeadQuiet, Visited
<1>2. CASE \/ UNCHANGED vars \/ context_fatal \/ recover \/ clearRequestSucceeded \/ recover_fail
           \/ \E t \in CpuThread : CpuNext(t) /\ UNCHANGED copyVars
  BY <1>1, <1>2 DEF vars, copyVars, respVars, context_fatal, recover, clearRequestSucceeded, recover_fail, EInv
<1>3. ASSUME NEW c \in Copy, schedule_check(c) \/ SchedStep(c) PROVE Released' /\ DeadQuiet'
  BY <1>3, SchedReleased
<1>4. CASE RespStep \/ Card
  BY <1>4, RespReleased DEF EInv
<1>5. ASSUME NEW kind \in {"card", "drv", "killed"}, card_fatal(kind) PROVE Released' /\ DeadQuiet'
  BY <1>5 DEF card_fatal, respIdle, EInv, Released, DeadQuiet, Visited
<1> QED
  BY <1>2, <1>3, <1>4, <1>5 DEF Next, CopyNext, EInv

\* After the response thread's exit no copy stays scheduled that nobody is to
\* undo, for any number of copies, and wherever their schedule() calls were
\* when the card was lost.
THEOREM ExitIsClean == Spec => []ExitReleases
<1>1. CopyInit => Released /\ DeadQuiet
  BY DEF CopyInit, Released, DeadQuiet
<1>2. TypeOK /\ Released /\ DeadQuiet <=> EInv
  BY DEF EInv
<1>3. EInv /\ TypeOK' /\ [Next]_vars => EInv'
  BY EInvNext
<1>4. EInv => ExitReleases
  BY DEF EInv, Released, DeadQuiet, Visited, ExitReleases
<1> QED
  BY <1>1, <1>2, <1>3, <1>4, TypeCorrect, PTL DEF Spec

-----------------------------------------------------------------------------
(***************************************************************************)
(* The counters implement the readers/writer lock.  Every step concerns    *)
(* the ownership of one actor; ReadersExact before and after the step says *)
(* that the lock allows the change.                                        *)
(***************************************************************************)

\* A step of a copy changes who holds a resource for the CPU: nobody.
LEMMA CpuStays ==
    ASSUME IInv,
           \/ UNCHANGED cpuPc
           \/ \E c \in Copy : unlock_device_access(CopyRes[c], c \in C2H)
    PROVE  \A r \in Res : CpuOwners(r)' = CpuOwners(r)
<1>1. cpuPc \in [CpuThread -> {"idle", "entered", "asleep", "holds"}]
  BY DEF IInv, TypeOK, HostResTypeOK
<1>2. \A t \in CpuThread : cpuPc'[t] = "holds" <=> cpuPc[t] = "holds"
  BY <1>1 DEF unlock_device_access
<1> QED
  BY <1>2 DEF CpuOwners

\* A step of one copy leaves the ownership of the others alone.
LEMMA CopyMoves ==
    ASSUME IInv, NEW c \in Copy, NEW hasFailed \in BOOLEAN,
           \/ schedule_check(c) \/ SchedStep(c) \/ resp_clear(c) \/ resp_unlock(c)
           \/ fail_copy(c) \/ copy_event(c, hasFailed)
    PROVE  \A r \in Res : Owners(r)' \ {c} = Owners(r) \ {c}
<1>1. /\ m_scheduled \in [Copy -> BOOLEAN]
      /\ respStage \in [Copy -> {"none", "tested", "cleared"}]
      /\ schedPc \in [Copy -> {"idle", "checked", "locked", "marked", "failed",
                               "tested", "cleared"}]
  BY DEF IInv, TypeOK
<1>2. \A d \in Copy \ {c} : Owns(d)' <=> Owns(d)
  BY <1>1 DEF Owns, SchedStep, schedule_check, schedule_lock, schedule_mark, schedule_send,
     schedule_fail, undo_test, undo_clear, undo_unlock, resp_clear, resp_unlock, fail_copy,
     copy_event, respVars
<1>3. UNCHANGED cpuPc \/ unlock_device_access(CopyRes[c], c \in C2H)
  BY DEF SchedStep, schedule_check, schedule_lock, schedule_mark, schedule_send, schedule_fail,
     undo_test, undo_clear, undo_unlock, resp_clear, resp_unlock, fail_copy, copy_event, hostResVars
<1>4. \A r \in Res : CpuOwners(r)' = CpuOwners(r)
  BY <1>3, CpuStays
<1>5. \A r \in Res : DevOwners(r)' \ {c} = DevOwners(r) \ {c}
  BY <1>2 DEF DevOwners
<1> QED
  BY <1>4, <1>5 DEF Owners

\* Every step concerns one actor's ownership, or nobody's.
LEMMA OneMoves ==
    ASSUME IInv, [Next]_vars
    PROVE  \/ \A r \in Res : Owners(r)' = Owners(r)
           \/ \E x \in CpuThread \cup Copy : \A r \in Res : Owners(r)' \ {x} = Owners(r) \ {x}
<1>1. ASSUME UNCHANGED <<cpuPc, m_scheduled, schedPc, respStage>>
      PROVE  \A r \in Res : Owners(r)' = Owners(r)
  BY <1>1 DEF Owners, CpuOwners, DevOwners, Owns
<1>2. CASE \/ UNCHANGED vars \/ context_fatal \/ recover \/ clearRequestSucceeded \/ recover_fail
           \/ fail_done \/ \E kind \in {"card", "drv", "killed"} : card_fatal(kind)
  BY <1>1, <1>2 DEF vars, copyVars, hostResVars, respVars, context_fatal, recover,
     clearRequestSucceeded, recover_fail, fail_done, card_fatal
<1>3. ASSUME NEW t \in CpuThread, CpuNext(t), UNCHANGED copyVars
      PROVE  \A r \in Res : Owners(r)' \ {t} = Owners(r) \ {t}
  <2>1. \A u \in CpuThread \ {t} : cpuPc'[u] = cpuPc[u]
    BY <1>3 DEF CpuNext, CpuLock, lock_cpu_access_test, lock_cpu_access_sleep,
       lock_cpu_access_fail, lock_cpu_access_take, lock_cpu_access_timeout,
       spurious_wakeup, unlock_cpu_access, IInv, TypeOK, HostResTypeOK
  <2>2. \A r \in Res : CpuOwners(r)' \ {t} = CpuOwners(r) \ {t}
    BY <2>1 DEF CpuOwners
  <2>3. \A r \in Res : DevOwners(r)' = DevOwners(r)
    BY <1>3 DEF DevOwners, Owns, copyVars
  <2> QED
    BY <2>2, <2>3 DEF Owners
<1>4. ASSUME NEW c \in Copy, NEW hasFailed \in BOOLEAN,
             \/ schedule_check(c) \/ SchedStep(c) \/ resp_clear(c) \/ resp_unlock(c)
             \/ fail_copy(c) \/ copy_event(c, hasFailed)
      PROVE  \A r \in Res : Owners(r)' \ {c} = Owners(r) \ {c}
  BY <1>4, CopyMoves
<1> QED
  BY <1>2, <1>3, <1>4 DEF Next, CopyNext, RespStep, Card

\* What the exact counter says of the owners: a writer is alone.
WriterIsAlone ==
    \A r \in Res : ~Lockless(r) => \A o \in Owners(r) : Writes(o, r) => Owners(r) = {o}

LEMMA WriterAlone == IInv => WriterIsAlone
<1> SUFFICES ASSUME IInv, NEW r \in Res, ~Lockless(r), NEW o \in Owners(r), Writes(o, r)
             PROVE  Owners(r) = {o}
  BY DEF WriterIsAlone
<1>1. Cardinality(Owners(r)) = 1
  BY DEF IInv, ReadersExact
<1> QED
  BY <1>1, OwnersFinite, OneElement

LEMMA WriterAloneAfter ==
    ASSUME IInv', NEW r \in Res, ~Lockless(r), NEW o \in Owners(r)', Writes(o, r)
    PROVE  Owners(r)' = {o}
<1>1. WriterIsAlone'
  BY WriterAlone, PTL
<1> QED
  BY <1>1 DEF WriterIsAlone, Lockless, Writes, for_write

\* Where an actor can own something.
Home(x) == IF x \in Copy THEN CopyRes[x] ELSE CpuRes[x]

LEMMA OwnsAtHome ==
    ASSUME NEW x \in CpuThread \cup Copy
    PROVE  /\ Home(x) \in Res
           /\ \A r \in Res \ {Home(x)} : x \notin Owners(r) /\ x \notin Owners(r)'
BY HostResAssumption, CopyAssumption DEF Home, Owners, CpuOwners, DevOwners

\* The holders of a resource, after the step too.
LEMMA HoldersPrime ==
    \A r \in Res, w \in BOOLEAN :
        /\ Holders(r, w)' = IF Lockless(r) THEN {} ELSE {o \in Owners(r)' : Writes(o, r) = w}
        /\ \A o \in CpuThread \cup Copy : Writes(o, r) \in BOOLEAN
<1>1. ASSUME NEW r \in Res, NEW o PROVE Writes(o, r) \in BOOLEAN
  <2>1. CASE o \in Copy
    <3>1. (o \in C2H) \in BOOLEAN
      OBVIOUS
    <3> QED
      BY <2>1, <3>1, Zenon DEF Writes
  <2>2. CASE o \notin Copy
    <3>1. for_write(r) \in BOOLEAN
      BY DEF for_write
    <3> QED
      BY <2>2, <3>1, Zenon DEF Writes
  <2> QED
    BY <2>1, <2>2
<1>2. ASSUME NEW r \in Res, NEW w \in BOOLEAN
      PROVE  Holders(r, w)' = IF Lockless(r) THEN {} ELSE {o \in Owners(r)' : Writes(o, r) = w}
  BY Zenon DEF Holders, Lockless, Writes, for_write
<1> QED
  BY <1>1, <1>2

\* The counters implement a readers/writer lock: whatever threads, copies and
\* the response thread do, one actor acquires or releases at a time, a reader
\* only while nobody writes, a writer only while nobody has the resource.
THEOREM ImplementsLock == Disciplined /\ Spec => ImplementsRWLock
<1> DEFINE rd == [r \in Res |-> Holders(r, FALSE)]
           wr == [r \in Res |-> Holders(r, TRUE)]
<1>1. CopyInit => RW!Init
  <2> SUFFICES ASSUME CopyInit PROVE RW!Init
    OBVIOUS
  <2>1. \A r \in Res : Owners(r) = {}
    BY DEF CopyInit, HostResInit, Owners, CpuOwners, DevOwners, Owns
  <2>2. \A r \in Res, w \in BOOLEAN : Holders(r, w) = {}
    BY <2>1 DEF Holders
  <2> QED
    BY <2>2 DEF RW!Init
<1>2. IInv /\ IInv' /\ [Next]_vars => [RW!Next]_<<rd, wr>>
  <2> SUFFICES ASSUME IInv, IInv', [Next]_vars PROVE RW!Next \/ (rd' = rd /\ wr' = wr)
    OBVIOUS
  <2>0. /\ \A r \in Res : rd[r] = Holders(r, FALSE) /\ wr[r] = Holders(r, TRUE)
        /\ rd' = [r \in Res |-> Holders(r, FALSE)'] /\ wr' = [r \in Res |-> Holders(r, TRUE)']
    OBVIOUS
  <2>1. CASE \A r \in Res : Owners(r)' = Owners(r)
    <3>1. \A r \in Res, w \in BOOLEAN : Holders(r, w)' = Holders(r, w)
      BY <2>1, HoldersPrime DEF Holders
    <3> QED
      BY <2>0, <3>1
  <2>2. ASSUME NEW x \in CpuThread \cup Copy, \A r \in Res : Owners(r)' \ {x} = Owners(r) \ {x}
        PROVE  RW!Next \/ (rd' = rd /\ wr' = wr)
    <3> DEFINE h == Home(x)
    <3> HIDE DEF h
    <3>1. h \in Res /\ \A r \in Res \ {h} : Owners(r)' = Owners(r)
      BY <2>2, OwnsAtHome DEF h
    <3>2. \A r \in Res \ {h}, w \in BOOLEAN : Holders(r, w)' = Holders(r, w)
      BY <3>1, HoldersPrime DEF Holders
    <3>3. CASE Lockless(h) \/ Owners(h)' = Owners(h)
      <4>1. \A w \in BOOLEAN : Holders(h, w)' = Holders(h, w)
        BY <3>1, <3>3, HoldersPrime DEF Holders
      <4> QED
        BY <2>0, <3>2, <4>1
    <3>4. ASSUME ~Lockless(h), NEW w \in BOOLEAN
          PROVE  Holders(h, w) = {o \in Owners(h) : Writes(o, h) = w}
      BY <3>4 DEF Holders
    <3>5. ASSUME ~Lockless(h), NEW w \in BOOLEAN
          PROVE  Holders(h, w)' = {o \in Owners(h)' : Writes(o, h) = w}
      BY <3>1, <3>5, HoldersPrime
    <3>6. Writes(x, h) \in BOOLEAN
      BY <3>1, HoldersPrime
    <3>7. CASE ~Lockless(h) /\ x \notin Owners(h) /\ Owners(h)' = Owners(h) \cup {x}
      <4>1. CASE Writes(x, h)
        <5>1. Owners(h)' = {x}
          BY <3>1, <3>7, <4>1, WriterAloneAfter
        <5>2. Owners(h) = {}
          BY <3>7, <5>1
        <5>3. /\ Holders(h, FALSE) = {} /\ Holders(h, TRUE) = {}
              /\ Holders(h, FALSE)' = {} /\ Holders(h, TRUE)' = {x}
          BY <3>4, <3>5, <3>7, <4>1, <5>1, <5>2
        <5>4. RW!AcquireWrite(h, x)
          BY <2>0, <3>1, <3>2, <5>3 DEF RW!AcquireWrite
        <5> QED
          BY <3>1, <5>4 DEF RW!Next
      <4>2. CASE ~Writes(x, h)
        <5>1. \A o \in Owners(h) : ~Writes(o, h)
          <6> SUFFICES ASSUME NEW o \in Owners(h), Writes(o, h) PROVE FALSE
            OBVIOUS
          <6>1. Owners(h)' = {o}
            BY <3>1, <3>7, WriterAloneAfter
          <6> QED
            BY <3>7, <6>1
        <5>2. /\ Holders(h, TRUE) = {} /\ x \notin Holders(h, FALSE)
              /\ Holders(h, FALSE)' = Holders(h, FALSE) \cup {x} /\ Holders(h, TRUE)' = {}
          BY <3>4, <3>5, <3>6, <3>7, <4>2, <5>1
        <5>3. RW!AcquireRead(h, x)
          BY <2>0, <3>1, <3>2, <5>2 DEF RW!AcquireRead
        <5> QED
          BY <3>1, <5>3 DEF RW!Next
      <4> QED
        BY <4>1, <4>2
    <3>8. CASE ~Lockless(h) /\ x \in Owners(h) /\ Owners(h)' = Owners(h) \ {x}
      <4>1. CASE Writes(x, h)
        <5>1. /\ x \in Holders(h, TRUE) /\ Holders(h, TRUE)' = Holders(h, TRUE) \ {x}
              /\ Holders(h, FALSE)' = Holders(h, FALSE)
          BY <3>4, <3>5, <3>8, <4>1
        <5>2. RW!ReleaseWrite(h, x)
          BY <2>0, <3>1, <3>2, <5>1 DEF RW!ReleaseWrite
        <5> QED
          BY <3>1, <5>2 DEF RW!Next
      <4>2. CASE ~Writes(x, h)
        <5>1. /\ x \in Holders(h, FALSE) /\ Holders(h, FALSE)' = Holders(h, FALSE) \ {x}
              /\ Holders(h, TRUE)' = Holders(h, TRUE)
          BY <3>4, <3>5, <3>6, <3>8, <4>2
        <5>2. RW!ReleaseRead(h, x)
          BY <2>0, <3>1, <3>2, <5>1 DEF RW!ReleaseRead
        <5> QED
          BY <3>1, <5>2 DEF RW!Next
      <4> QED
        BY <4>1, <4>2
    <3>9. Owners(h)' \in {Owners(h), Owners(h) \cup {x}, Owners(h) \ {x}}
      BY <2>2, <3>1
    <3>10. Owners(h)' = Owners(h) \/ (x \notin Owners(h) /\ Owners(h)' = Owners(h) \cup {x})
           \/ (x \in Owners(h) /\ Owners(h)' = Owners(h) \ {x})
      BY <3>9
    <3> QED
      BY <3>3, <3>7, <3>8, <3>10
  <2> QED
    BY <2>1, <2>2, OneMoves
<1> QED
  BY <1>1, <1>2, Inductive, PTL DEF Spec, ImplementsRWLock, RW!Spec

-----------------------------------------------------------------------------
(***************************************************************************)
(* The commands of a list, for lists of any length, pages and batches of   *)
(* any size and any number of overwrites, sends and failures.              *)
(*                                                                         *)
(* None of BatchesRight, EditsRight and CardUpToDate is inductive.  They   *)
(* rest on what holds in the middle of optimize_batch_copies, whose new    *)
(* list has the commands before the batch that is open, and in the middle  *)
(* of send_to_card: what it has passed is sent, what it has not is counted *)
(* by m_num_edits and by the copy lists, and the card has read as many     *)
(* entries of the message as are no longer edited.                         *)
(***************************************************************************)

\* A state of the card's decoding.
CardOf(tab, announced, entries, list, left, last) ==
    [tab |-> tab, announced |-> announced, entries |-> entries, list |-> list, left |-> left, last |-> last]
IsCard(c) ==
    /\ c = CardOf(c.tab, c.announced, c.entries, c.list, c.left, c.last)
    /\ c.announced \in Nat /\ c.entries \in Nat /\ c.list \in Nat /\ c.left \in Nat /\ c.last \in BOOLEAN

EdListShape ==
    /\ m_vec \in Seq(Entry) /\ new_list \in Seq(Entry)
    /\ cmd \in Seq(Command) /\ Len(cmd) <= MaxCmds
    /\ want \in Seq(Par) /\ Len(want) = Len(cmd)
    /\ m_num_edits \in Nat /\ m_finalized \in BOOLEAN /\ batch \in BOOLEAN
EdSendShape ==
    /\ start \in Nat /\ snd \in {"none", "batch", "create", "schedule", "reply"}
    /\ stage \in {"first", "page", "next"} /\ pos \in 1 .. Len(m_vec) + 1 /\ sub \in Nat /\ used \in Nat
EdUserShape ==
    /\ append_kind \in Kinds \cup {"none"} /\ (append_kind # "none" => Len(cmd) < MaxCmds)
    /\ over \in [u : 0 .. Len(cmd), par : Par]
EdCardShape == IsCard(card) /\ IsCard(page_read)
EdBoundShape ==
    /\ overlapped \in BOOLEAN /\ failed \in 0 .. MaxFailures
    /\ overwrites \in 0 .. MaxOverwrites /\ sends \in 0 .. MaxSends
EditShape == EdListShape /\ EdSendShape /\ EdUserShape /\ EdCardShape /\ EdBoundShape

\* The commands of an entry: the first, how many, and that they follow one another.
Fst(e) == e.subs[1]
Num(e) == Len(e.subs)
Consecutive(e) == \A k \in DOMAIN e.subs : e.subs[k] = Fst(e) + k - 1

\* The entries of vec have the commands 1 .. n in order, with their indices.
Chain(vec, n) ==
    /\ \A i \in DOMAIN vec :
          /\ Num(vec[i]) > 0 /\ Consecutive(vec[i]) /\ vec[i].idx = i - 1
          /\ Fst(vec[i]) = IF i = 1 THEN 1 ELSE After(vec[i - 1])
          /\ i <= Fst(vec[i]) /\ After(vec[i]) <= n + 1
          /\ \A j \in 1 .. i - 1 : After(vec[j]) <= Fst(vec[i])
    /\ n = IF Len(vec) = 0 THEN 0 ELSE After(vec[Len(vec)]) - 1

\* What an entry is by its type: c are the commands, o the overwrites so far.
EntryOK(e, c, o) ==
    /\ e.type = "COPYLIST" =>
          /\ Num(e) \in 2 .. MaxBatch
          /\ \E kind \in {"h2c", "c2h"} : \A k \in DOMAIN e.subs : c[e.subs[k]].kind = kind
          /\ \A k \in DOMAIN e.subs : c[e.subs[k]].idx = k - 1
          /\ e.num_edits <= Num(e) + o
    /\ e.type # "COPYLIST" =>
          /\ Num(e) = 1 /\ e.num_edits = 0
          /\ e.type = "COPY" <=> c[Fst(e)].kind # "infreq"
VecOK(vec, c, o) == \A i \in DOMAIN vec : EntryOK(vec[i], c, o)

\* The stages of a finalize and of a send.
Stages ==
    /\ snd \in {"batch", "create", "reply"} => ~m_finalized
    /\ snd = "schedule" => m_finalized
    /\ snd # "batch" => new_list = <<>> /\ start = 0
    /\ stage # "first" => InSend
    /\ stage = "first" /\ snd # "batch" => pos = 1
    /\ stage # "page" => sub = 0 /\ used = 0
    /\ used <= PageSize
    /\ sub > 0 => pos <= Len(m_vec) /\ m_vec[pos].type = "COPYLIST" /\ sub <= Len(m_vec[pos].subs) + 1

\* The batch from entry s up to entry p.
Run(vec, c, s, p) == s # 0 =>
    /\ s < p /\ p <= Len(vec) /\ p - s <= MaxBatch
    /\ \A k \in s .. p - 1 : vec[k].type = "COPY" /\ Fst(vec[k]) = Fst(vec[s]) + k - s
    /\ \E kind \in {"h2c", "c2h"} : \A k \in s .. p - 1 : c[Fst(vec[k])].kind = kind

\* The last command of the entries before entry i.
Upto(vec, n, i) == IF i > Len(vec) THEN n ELSE Fst(vec[i]) - 1

Structure ==
    /\ Chain(m_vec, Len(cmd)) /\ VecOK(m_vec, cmd, overwrites)
    /\ Chain(new_list, IF snd = "batch" THEN Upto(m_vec, Len(cmd), From) ELSE 0)
    /\ VecOK(new_list, cmd, overwrites)
    /\ Run(m_vec, cmd, start, pos)
    /\ m_num_edits <= Len(m_vec) + overwrites

FullyEdited(vec) == \A i \in DOMAIN vec : vec[i].type = "COPYLIST" => vec[i].edited /\ vec[i].num_edits = Num(vec[i])

\* Nothing of the list has been sent.
Fresh == Undisturbed /\ ~m_finalized /\ (snd \in {"none", "batch"} \/ (snd = "create" /\ stage = "first"))
AllEdited == Fresh =>
    /\ \A u \in DOMAIN cmd : cmd[u].edited
    /\ FullyEdited(m_vec) /\ FullyEdited(new_list)
    /\ m_num_edits = Len(m_vec)

\* The edited entries and copies, with c for the commands.
Ed(e, c) == IF e.type = "COPYLIST" THEN e.edited ELSE c[Fst(e)].edited
EdEntries(vec, c) == {i \in DOMAIN vec : Ed(vec[i], c)}
EdSubs(e, c) == {k \in DOMAIN e.subs : c[e.subs[k]].edited}
ListOK(e, c) == e.type = "COPYLIST" =>
    /\ e.num_edits = Cardinality(EdSubs(e, c))
    /\ e.edited <=> e.num_edits > 0

Counted == Undisturbed /\ stage = "first" =>
    /\ m_num_edits = Cardinality(EdEntries(m_vec, cmd))
    /\ \A i \in DOMAIN m_vec : ListOK(m_vec[i], cmd)

\* What the card will have once it has read the page.
Cur == IF stage = "page" THEN page_read ELSE card
\* Entry p is a copy list whose header is packed.
Opened(vec, p) == p <= Len(vec) /\ vec[p].type = "COPYLIST" /\ ~vec[p].edited /\ vec[p].num_edits > 0

\* An entry that has been packed, or had nothing to pack.
Through(e, c) == ~Ed(e, c) /\ e.num_edits = 0 /\ EdSubs(e, c) = {}

\* What the card has read of the message of n entries, before item s of entry p.
Half(vec, c, p, s, r, n) ==
    /\ \A i \in DOMAIN vec : i < p => Through(vec[i], c)
    /\ \A i \in DOMAIN vec : i > p => ListOK(vec[i], c)
    /\ p <= Len(vec) /\ ~Opened(vec, p) => ListOK(vec[p], c)
    /\ r.left = IF Opened(vec, p) THEN Cardinality(EdSubs(vec[p], c)) ELSE 0
    /\ Opened(vec, p) => r.list = p - 1
    /\ s > 0 => Opened(vec, p) /\ \A k \in 1 .. s - 1 : k \notin EdSubs(vec[p], c)
    /\ r.entries + Cardinality(EdEntries(vec, c)) = n
    /\ r.announced = n

Progress == Undisturbed /\ stage # "first" => Half(m_vec, cmd, pos, sub, Cur, m_num_edits)

Replied == Undisturbed /\ snd = "reply" => \A u \in DOMAIN cmd : ~cmd[u].edited

PlaceIn(vec, i, k) == <<i - 1, IF vec[i].type = "COPYLIST" THEN k ELSE 0>>
KnownIn(t, vec, c, fin) ==
    \A i \in DOMAIN vec : \A k \in DOMAIN vec[i].subs :
        LET u == vec[i].subs[k] IN
        /\ fin \/ ~c[u].edited => PlaceIn(vec, i, k) \in DOMAIN t /\ t[PlaceIn(vec, i, k)].u = u
        /\ ~c[u].edited => t[PlaceIn(vec, i, k)].par = c[u].par
Known == Undisturbed => KnownIn(Cur.tab, m_vec, cmd, m_finalized)

\* The application's overwrites.
Wanted ==
    /\ \A u \in DOMAIN cmd : IF over.u = u THEN over.par = want[u] ELSE AsWanted(cmd[u].par, u)
    /\ Undisturbed /\ over.u # 0 => snd = "none" /\ cmd[over.u].edited

-----------------------------------------------------------------------------
\* The fields of an entry.
LEMMA EntryType ==
    ASSUME NEW e \in Entry
    PROVE  /\ e.type \in {"COPY", "INFREQ", "COPYLIST"} /\ e.subs \in Seq(Nat) /\ e.idx \in Nat
           /\ e.edited \in BOOLEAN /\ e.num_edits \in Nat
           /\ Num(e) \in Nat /\ DOMAIN e.subs = 1 .. Num(e)
           /\ Num(e) > 0 => Fst(e) \in Nat
           /\ After(e) = Fst(e) + Num(e)
BY DEF Entry, Num, Fst, After

\* Entry i of a chain.
LEMMA ChainAt ==
    ASSUME NEW vec \in Seq(Entry), NEW n \in Nat, Chain(vec, n), NEW i \in DOMAIN vec
    PROVE  /\ i \in Int /\ 1 <= i /\ i <= Len(vec) /\ Len(vec) \in Nat /\ DOMAIN vec = 1 .. Len(vec)
           /\ vec[i] \in Entry /\ Num(vec[i]) \in Nat /\ Num(vec[i]) > 0
           /\ DOMAIN vec[i].subs = 1 .. Num(vec[i]) /\ Fst(vec[i]) \in Nat
           /\ i <= Fst(vec[i]) /\ Fst(vec[i]) + Num(vec[i]) <= n + 1
           /\ vec[i].idx = i - 1
           /\ i = 1 => Fst(vec[i]) = 1
           /\ i = Len(vec) => Fst(vec[i]) + Num(vec[i]) = n + 1
           /\ Consecutive(vec[i])
<1>1. /\ vec[i] \in Entry /\ DOMAIN vec = 1 .. Len(vec) /\ Len(vec) \in Nat
  OBVIOUS
<1>3. /\ Num(vec[i]) > 0
      /\ Fst(vec[i]) = IF i = 1 THEN 1 ELSE After(vec[i - 1])
      /\ Consecutive(vec[i])
      /\ vec[i].idx = i - 1
      /\ i <= Fst(vec[i]) /\ After(vec[i]) <= n + 1
  BY DEF Chain
<1>4. /\ Num(vec[i]) \in Nat /\ DOMAIN vec[i].subs = 1 .. Num(vec[i])
      /\ Fst(vec[i]) \in Nat /\ After(vec[i]) = Fst(vec[i]) + Num(vec[i])
  BY <1>1, <1>3, EntryType
<1>5. ASSUME i = Len(vec) PROVE Fst(vec[i]) + Num(vec[i]) = n + 1
  <2>1. n = After(vec[i]) - 1
    BY <1>1, <1>5 DEF Chain
  <2> QED
    BY <1>4, <2>1
<1> QED
  BY <1>1, <1>3, <1>4, <1>5

LEMMA ChainNext ==
    ASSUME NEW vec \in Seq(Entry), NEW n \in Nat, Chain(vec, n), NEW i \in DOMAIN vec, i + 1 \in DOMAIN vec
    PROVE  Fst(vec[i + 1]) = Fst(vec[i]) + Num(vec[i])
<1>1. i \in Int /\ 1 <= i
  BY ChainAt
<1>2. i + 1 # 1 /\ (i + 1) - 1 = i
  BY <1>1
<1> QED
  BY <1>2 DEF Chain, After, Fst, Num

LEMMA ChainBefore ==
    ASSUME NEW vec \in Seq(Entry), NEW n \in Nat, Chain(vec, n), NEW i \in DOMAIN vec, NEW j \in 1 .. i - 1
    PROVE  Fst(vec[j]) + Num(vec[j]) <= Fst(vec[i])
BY DEF Chain, After, Fst, Num

LEMMA ChainSub ==
    ASSUME NEW vec \in Seq(Entry), NEW n \in Nat, Chain(vec, n),
           NEW i \in DOMAIN vec, NEW k \in DOMAIN vec[i].subs
    PROVE  vec[i].subs[k] = Fst(vec[i]) + k - 1
BY ChainAt DEF Consecutive

\* Its commands.
LEMMA ChainIn ==
    ASSUME NEW vec \in Seq(Entry), NEW n \in Nat, Chain(vec, n),
           NEW i \in DOMAIN vec, NEW k \in DOMAIN vec[i].subs
    PROVE  vec[i].subs[k] \in 1 .. n
<1>1. /\ i \in Int /\ 1 <= i /\ i <= Fst(vec[i]) /\ Fst(vec[i]) \in Nat
      /\ Num(vec[i]) \in Nat /\ Fst(vec[i]) + Num(vec[i]) <= n + 1
      /\ k \in 1 .. Num(vec[i])
  BY ChainAt
<1>2. vec[i].subs[k] = Fst(vec[i]) + k - 1
  BY ChainSub
<1>3. Fst(vec[i]) + k - 1 \in 1 .. n
  BY <1>1
<1> QED
  BY <1>2, <1>3

\* No command is in two places.
LEMMA Apart ==
    ASSUME NEW x \in Nat, NEW y \in Nat, NEW lx \in Nat, NEW ly \in Nat,
           NEW k \in 1 .. lx, NEW l \in 1 .. ly, x + k - 1 = y + l - 1
    PROVE  x + lx > y /\ y + ly > x /\ (x = y => k = l)
OBVIOUS
LEMMA ChainOnce ==
    ASSUME NEW vec \in Seq(Entry), NEW n \in Nat, Chain(vec, n),
           NEW i \in DOMAIN vec, NEW k \in DOMAIN vec[i].subs,
           NEW j \in DOMAIN vec, NEW l \in DOMAIN vec[j].subs,
           vec[i].subs[k] = vec[j].subs[l]
    PROVE  i = j /\ k = l
<1>1. Num(vec[i]) \in Nat /\ k \in 1 .. Num(vec[i]) /\ Fst(vec[i]) \in Nat
  BY ChainAt
<1>2. Num(vec[j]) \in Nat /\ l \in 1 .. Num(vec[j]) /\ Fst(vec[j]) \in Nat
  BY ChainAt
<1>3. Fst(vec[i]) + k - 1 = Fst(vec[j]) + l - 1
  BY ChainSub
<1>4. /\ Fst(vec[i]) + Num(vec[i]) > Fst(vec[j])
      /\ Fst(vec[j]) + Num(vec[j]) > Fst(vec[i])
      /\ Fst(vec[i]) = Fst(vec[j]) => k = l
  BY <1>1, <1>2, <1>3, Apart
<1>5. i \in Int /\ 1 <= i /\ j \in Int /\ 1 <= j
  BY ChainAt
<1>6. ASSUME i < j PROVE FALSE
  <2>1. i \in 1 .. j - 1
    BY <1>5, <1>6
  <2>2. Fst(vec[i]) + Num(vec[i]) <= Fst(vec[j])
    BY <2>1, ChainBefore
  <2> QED
    BY <1>1, <1>2, <1>4, <2>2
<1>7. ASSUME j < i PROVE FALSE
  <2>1. j \in 1 .. i - 1
    BY <1>5, <1>7
  <2>2. Fst(vec[j]) + Num(vec[j]) <= Fst(vec[i])
    BY <2>1, ChainBefore
  <2> QED
    BY <1>1, <1>2, <1>4, <2>2
<1>8. i = j
  BY <1>5, <1>6, <1>7
<1> QED
  BY <1>4, <1>8

\* The largest of some of the numbers 1 .. n.
LEMMA Largest ==
    ASSUME NEW n \in Nat, NEW S \in SUBSET (1 .. n), S # {}
    PROVE  \E i \in S : \A j \in S : j <= i
<1> DEFINE T == {m \in Nat : n - m \in S}
<1>1. PICK j \in S : TRUE
  OBVIOUS
<1>2. n - j \in T
  BY <1>1
<1>3. PICK m \in T : \A y \in T : ~(<<y, m>> \in {ss \in Nat \X Nat : ss[1] < ss[2]})
  <2>1. IsWellFoundedOn({ss \in Nat \X Nat : ss[1] < ss[2]}, Nat)
    BY NatLessThanWellFounded DEF OpToRel
  <2> HIDE DEF T
  <2>2. T \subseteq Nat /\ T # {}
    BY <1>2 DEF T
  <2> QED
    BY <2>1, <2>2, WFMin
<1>4. \A y \in Nat : y \in T => m <= y
  <2> SUFFICES ASSUME NEW y \in Nat, y \in T PROVE m <= y
    OBVIOUS
  <2>1. ~(<<y, m>> \in {ss \in Nat \X Nat : ss[1] < ss[2]})
    BY <1>3
  <2> HIDE DEF T
  <2>2. m \in Nat
    BY <1>3 DEF T
  <2>3. <<y, m>> \in Nat \X Nat /\ <<y, m>>[1] = y /\ <<y, m>>[2] = m
    BY <2>2
  <2>4. ~(y < m)
    BY <2>1, <2>3
  <2> QED
    BY <2>2, <2>4
<1>5. \A i \in S : i <= n - m
  <2> SUFFICES ASSUME NEW i \in S PROVE i <= n - m
    OBVIOUS
  <2>1. i \in 1 .. n /\ n - i \in Nat /\ n - (n - i) = i
    OBVIOUS
  <2>2. n - i \in T
    BY <2>1
  <2>3. m <= n - i /\ m \in Nat
    BY <1>3, <1>4, <2>1, <2>2
  <2> HIDE DEF T
  <2> QED
    BY <2>1, <2>3
<1> QED
  BY <1>3, <1>5

LEMMA NextUpTo == \A i, m \in Int : 1 <= i /\ i <= m /\ i # m => i + 1 \in 1 .. m
OBVIOUS

\* Every command is in one.
LEMMA ChainHas ==
    ASSUME NEW vec \in Seq(Entry), NEW n \in Nat, Chain(vec, n), NEW u \in 1 .. n
    PROVE  \E i \in DOMAIN vec : \E k \in DOMAIN vec[i].subs : vec[i].subs[k] = u
<1> DEFINE S == {i \in DOMAIN vec : Fst(vec[i]) <= u}
<1>1. Len(vec) \in Nat /\ DOMAIN vec = 1 .. Len(vec) /\ Len(vec) # 0
  BY DEF Chain
<1>2. 1 \in S
  <2>1. 1 \in DOMAIN vec
    BY <1>1
  <2>2. Fst(vec[1]) = 1
    BY <2>1, ChainAt
  <2> QED
    BY <2>1, <2>2
<1> HIDE DEF S
<1>3. PICK i \in S : \A j \in S : j <= i
  <2>1. S \in SUBSET (1 .. Len(vec)) /\ S # {}
    BY <1>1, <1>2 DEF S
  <2> QED
    BY <1>1, <2>1, Largest
<1>0. i \in DOMAIN vec /\ Fst(vec[i]) <= u
  BY DEF S
<1>4. /\ i \in Int /\ 1 <= i /\ i <= Len(vec) /\ Num(vec[i]) \in Nat /\ Fst(vec[i]) \in Nat
      /\ DOMAIN vec[i].subs = 1 .. Num(vec[i])
  BY <1>0, ChainAt
<1>5. u < Fst(vec[i]) + Num(vec[i])
  <2>1. CASE i = Len(vec)
    <3>1. Fst(vec[i]) + Num(vec[i]) = n + 1
      BY <1>0, <2>1, ChainAt
    <3> QED
      BY <3>1
  <2>2. CASE i # Len(vec)
    <3>5. i \in Int /\ 1 <= i /\ i <= Len(vec)
      BY <1>4
    <3>6. i + 1 \in 1 .. Len(vec)
      <4>1. Len(vec) \in Int
        BY <1>1
      <4> QED
        BY <2>2, <3>5, <4>1, NextUpTo, Zenon
    <3>1. i + 1 \in DOMAIN vec
      BY <1>1, <3>6
    <3>2. Fst(vec[i + 1]) = Fst(vec[i]) + Num(vec[i])
      BY <1>0, <3>1, ChainNext
    <3>3. ~(i + 1 \in S)
      BY <1>3, <1>4
    <3>4. ~(Fst(vec[i + 1]) <= u)
      BY <3>1, <3>3 DEF S
    <3> QED
      BY <1>4, <3>2, <3>4
  <2> QED
    BY <2>1, <2>2
<1> DEFINE k == u - Fst(vec[i]) + 1
<1>6. k \in DOMAIN vec[i].subs
  BY <1>0, <1>4, <1>5
<1>7. vec[i].subs[k] = Fst(vec[i]) + k - 1
  BY <1>0, <1>6, ChainSub
<1>8. vec[i].subs[k] = u
  BY <1>4, <1>7
<1> QED
  BY <1>0, <1>6, <1>8

\* An entry with the next commands.
LEMMA ChainAppend ==
    ASSUME NEW vec \in Seq(Entry), NEW n \in Nat, Chain(vec, n), NEW e \in Entry,
           Num(e) > 0, Fst(e) = n + 1, e.idx = Len(vec), Consecutive(e)
    PROVE  Append(vec, e) \in Seq(Entry) /\ Chain(Append(vec, e), n + Num(e))
<1> DEFINE v == Append(vec, e)
<1>1. Len(vec) \in Nat /\ DOMAIN vec = 1 .. Len(vec) /\ Num(e) \in Nat
  BY EntryType
<1>2. /\ v \in Seq(Entry) /\ Len(v) = Len(vec) + 1 /\ DOMAIN v = 1 .. Len(vec) + 1
      /\ v[Len(vec) + 1] = e /\ \A i \in DOMAIN vec : v[i] = vec[i]
  BY <1>1
<1>3. Len(vec) = 0 => n = 0
  BY DEF Chain
<1>9. After(e) = n + 1 + Num(e)
  BY EntryType
<1>4. ASSUME Len(vec) # 0
      PROVE  Len(vec) \in DOMAIN vec /\ Len(vec) <= n /\ After(vec[Len(vec)]) = n + 1
  <2>1. Len(vec) \in DOMAIN vec
    BY <1>1, <1>4
  <2>2. /\ Fst(vec[Len(vec)]) \in Nat /\ Num(vec[Len(vec)]) \in Nat /\ Num(vec[Len(vec)]) > 0
        /\ Len(vec) <= Fst(vec[Len(vec)]) /\ Fst(vec[Len(vec)]) + Num(vec[Len(vec)]) = n + 1
        /\ vec[Len(vec)] \in Entry
    BY <2>1, ChainAt
  <2>3. After(vec[Len(vec)]) = Fst(vec[Len(vec)]) + Num(vec[Len(vec)])
    BY <2>2, EntryType
  <2>4. Len(vec) <= n
    BY <1>1, <2>2
  <2> QED
    BY <2>1, <2>2, <2>3, <2>4
<1> HIDE DEF v
<1>6. ASSUME NEW i \in DOMAIN v
      PROVE  /\ Num(v[i]) > 0 /\ Consecutive(v[i]) /\ v[i].idx = i - 1
             /\ Fst(v[i]) = IF i = 1 THEN 1 ELSE After(v[i - 1])
             /\ i <= Fst(v[i]) /\ After(v[i]) <= n + Num(e) + 1
             /\ \A j \in 1 .. i - 1 : After(v[j]) <= Fst(v[i])
  <2>1. CASE i \in DOMAIN vec
    <3>0. i \in Int /\ 1 <= i /\ i <= Len(vec)
      BY <1>1, <2>1
    <3>1. \A j \in 1 .. i - 1 : v[j] = vec[j]
      BY <1>1, <1>2, <3>0
    <3>2. v[i] = vec[i]
      BY <1>2, <2>1
    <3>5. i # 1 => v[i - 1] = vec[i - 1]
      <4>1. i # 1 => i - 1 \in 1 .. i - 1
        BY <3>0
      <4> QED
        BY <3>1, <4>1
    <3>3. /\ Num(vec[i]) > 0 /\ Consecutive(vec[i]) /\ vec[i].idx = i - 1
          /\ Fst(vec[i]) = IF i = 1 THEN 1 ELSE After(vec[i - 1])
          /\ i <= Fst(vec[i]) /\ After(vec[i]) <= n + 1
          /\ \A j \in 1 .. i - 1 : After(vec[j]) <= Fst(vec[i])
      BY <2>1 DEF Chain
    <3>4. After(vec[i]) <= n + Num(e) + 1
      <4>1. Fst(vec[i]) \in Nat /\ Num(vec[i]) \in Nat /\ vec[i] \in Entry
        BY <2>1, ChainAt
      <4>2. After(vec[i]) \in Int
        BY <4>1, EntryType
      <4> QED
        BY <1>1, <3>3, <4>2
    <3> QED
      BY <3>1, <3>2, <3>3, <3>4, <3>5
  <2>2. CASE i = Len(vec) + 1
    <3>1. v[i] = e
      BY <1>2, <2>2
    <3>2. Fst(e) = IF i = 1 THEN 1 ELSE After(v[i - 1])
      <4>1. CASE Len(vec) = 0
        BY <1>3, <2>2, <4>1
      <4>2. CASE Len(vec) # 0
        <5>1. v[i - 1] = vec[Len(vec)] /\ i # 1
          BY <1>1, <1>2, <1>4, <2>2, <4>2
        <5> QED
          BY <1>4, <4>2, <5>1
      <4> QED
        BY <4>1, <4>2
    <3>3. i <= Fst(e)
      BY <1>1, <1>3, <1>4, <2>2
    <3>5. After(e) <= n + Num(e) + 1
      BY <1>1, <1>9
    <3>4. \A j \in 1 .. i - 1 : After(v[j]) <= Fst(e)
      <4> SUFFICES ASSUME NEW j \in 1 .. i - 1 PROVE After(v[j]) <= Fst(e)
        OBVIOUS
      <4>1. j \in DOMAIN vec /\ v[j] = vec[j]
        BY <1>1, <1>2, <2>2
      <4>2. After(vec[j]) <= n + 1
        BY <4>1 DEF Chain
      <4> QED
        BY <4>1, <4>2
    <3>6. e.idx = i - 1
      BY <1>1, <2>2
    <3> QED
      BY <3>1, <3>2, <3>3, <3>4, <3>5, <3>6
  <2>3. i \in DOMAIN vec \/ i = Len(vec) + 1
    BY <1>1, <1>2
  <2> QED
    BY <2>1, <2>2, <2>3
<1>7. n + Num(e) = IF Len(v) = 0 THEN 0 ELSE After(v[Len(v)]) - 1
  <2>1. Len(v) # 0 /\ v[Len(v)] = e
    BY <1>1, <1>2
  <2>2. n + Num(e) = After(e) - 1
    BY <1>1, <1>9
  <2> QED
    BY <2>1, <2>2
<1>8. Chain(v, n + Num(e))
  BY <1>6, <1>7 DEF Chain
<1> QED
  BY <1>2, <1>8 DEF v

\* Flags and counts do not matter.
LEMMA ChainSame ==
    ASSUME NEW vec \in Seq(Entry), NEW n \in Nat, Chain(vec, n), NEW v \in Seq(Entry), Len(v) = Len(vec),
           \A i \in DOMAIN vec : v[i].subs = vec[i].subs /\ v[i].idx = vec[i].idx
    PROVE  Chain(v, n)
<1>1. DOMAIN v = DOMAIN vec /\ Len(vec) \in Nat /\ DOMAIN vec = 1 .. Len(vec)
  OBVIOUS
<1>2. \A i \in DOMAIN vec : /\ After(v[i]) = After(vec[i]) /\ Num(v[i]) = Num(vec[i]) /\ Fst(v[i]) = Fst(vec[i])
                            /\ Consecutive(v[i]) = Consecutive(vec[i])
  BY DEF After, Num, Fst, Consecutive
<1>3. ASSUME NEW i \in DOMAIN v
      PROVE  /\ Num(v[i]) > 0 /\ Consecutive(v[i]) /\ v[i].idx = i - 1
             /\ Fst(v[i]) = IF i = 1 THEN 1 ELSE After(v[i - 1])
             /\ i <= Fst(v[i]) /\ After(v[i]) <= n + 1
             /\ \A j \in 1 .. i - 1 : After(v[j]) <= Fst(v[i])
  <2>1. v[i].idx = vec[i].idx /\ After(v[i]) = After(vec[i])
        /\ Num(v[i]) = Num(vec[i]) /\ Fst(v[i]) = Fst(vec[i]) /\ Consecutive(v[i]) = Consecutive(vec[i])
    BY <1>1, <1>2
  <2>2. (i # 1 => After(v[i - 1]) = After(vec[i - 1])) /\ \A j \in 1 .. i - 1 : After(v[j]) = After(vec[j])
    BY <1>1, <1>2
  <2>3. i \in DOMAIN vec
    BY <1>1
  <2>4. /\ Num(vec[i]) > 0 /\ Consecutive(vec[i]) /\ vec[i].idx = i - 1
        /\ Fst(vec[i]) = IF i = 1 THEN 1 ELSE After(vec[i - 1])
        /\ i <= Fst(vec[i]) /\ After(vec[i]) <= n + 1
        /\ \A j \in 1 .. i - 1 : After(vec[j]) <= Fst(vec[i])
    BY <2>3 DEF Chain
  <2> QED
    BY <2>1, <2>2, <2>4
<1>4. n = IF Len(v) = 0 THEN 0 ELSE After(v[Len(v)]) - 1
  <2>1. Len(vec) # 0 => After(v[Len(v)]) = After(vec[Len(vec)])
    BY <1>1, <1>2
  <2> QED
    BY <2>1 DEF Chain
<1> QED
  BY <1>3, <1>4 DEF Chain

-----------------------------------------------------------------------------
\* The places of the commands of the entries before entry i.
PlacesBefore(vec, i) == UNION {{k} \X DOMAIN vec[k].subs : k \in 1 .. i - 1}

LEMMA FirstNumbers ==
    ASSUME NEW m \in Nat
    PROVE  IsFiniteSet(1 .. m) /\ Cardinality(1 .. m) = m
BY FS_Interval

\* They are as many as the numbers below the first command of entry i.
LEMMA CountBefore ==
    ASSUME NEW vec \in Seq(Entry), NEW n \in Nat, Chain(vec, n), NEW i \in DOMAIN vec
    PROVE  Cardinality(PlacesBefore(vec, i)) = Fst(vec[i]) - 1
<1> DEFINE S == PlacesBefore(vec, i)
           T == 1 .. Fst(vec[i]) - 1
           g == [p \in S |-> vec[p[1]].subs[p[2]]]
<1>1. i \in Int /\ 1 <= i /\ i <= Len(vec) /\ DOMAIN vec = 1 .. Len(vec) /\ Fst(vec[i]) \in Nat /\ i <= Fst(vec[i])
  BY ChainAt
<1>9. Len(vec) \in Nat
  OBVIOUS
<1>2. ASSUME NEW p \in S
      PROVE  /\ p = <<p[1], p[2]>> /\ p[1] \in DOMAIN vec /\ p[2] \in DOMAIN vec[p[1]].subs
             /\ vec[p[1]].subs[p[2]] \in T
  <2>1. PICK k \in 1 .. i - 1 : p \in {k} \X DOMAIN vec[k].subs
    BY DEF PlacesBefore
  <2>2. p = <<p[1], p[2]>> /\ p[1] = k /\ p[2] \in DOMAIN vec[k].subs
    BY <2>1
  <2>3. k \in DOMAIN vec
    BY <1>1, <1>9
  <2> DEFINE l == p[2]
  <2>4. vec[k].subs[l] \in 1 .. n /\ vec[k].subs[l] = Fst(vec[k]) + l - 1 /\ l \in 1 .. Num(vec[k])
        /\ Num(vec[k]) \in Nat /\ Fst(vec[k]) \in Nat
    BY <2>2, <2>3, ChainAt, ChainSub, ChainIn
  <2>5. Fst(vec[k]) + Num(vec[k]) <= Fst(vec[i])
    BY ChainBefore
  <2> HIDE DEF l
  <2>6. vec[k].subs[l] < Fst(vec[i]) /\ vec[k].subs[l] >= 1
    BY <1>1, <2>4, <2>5
  <2>7. vec[k].subs[l] \in T
    BY <1>1, <2>4, <2>6
  <2> QED
    BY <2>2, <2>3, <2>7 DEF l
<1> HIDE DEF S, T
<1>3. g \in [S -> T]
  BY <1>2
<1>4. ASSUME NEW p \in S, NEW q \in S, g[p] = g[q] PROVE p = q
  <2>1. vec[p[1]].subs[p[2]] = vec[q[1]].subs[q[2]]
    BY <1>4
  <2>2. p[1] = q[1] /\ p[2] = q[2]
    BY <1>2, <2>1, ChainOnce
  <2> QED
    BY <1>2, <2>2
<1>5. ASSUME NEW u \in T PROVE \E p \in S : g[p] = u
  <2>1. u \in Nat /\ 1 <= u /\ u < Fst(vec[i])
    BY <1>1, <1>5 DEF T
  <2>2. Fst(vec[i]) + Num(vec[i]) <= n + 1 /\ Num(vec[i]) > 0 /\ Num(vec[i]) \in Nat
    BY ChainAt
  <2>3. u \in 1 .. n
    BY <1>1, <2>1, <2>2
  <2>4. PICK k \in DOMAIN vec : \E l \in DOMAIN vec[k].subs : vec[k].subs[l] = u
    BY <2>3, ChainHas
  <2>5. PICK l \in DOMAIN vec[k].subs : vec[k].subs[l] = u
    BY <2>4
  <2>6. u = Fst(vec[k]) + l - 1 /\ l \in 1 .. Num(vec[k]) /\ Num(vec[k]) \in Nat /\ Fst(vec[k]) \in Nat
    BY <2>5, ChainAt, ChainSub
  <2>7. ~(i < k)
    <3> SUFFICES ASSUME i < k PROVE FALSE
      OBVIOUS
    <3>1. i \in 1 .. k - 1
      BY <1>1, <1>9
    <3>2. Fst(vec[i]) + Num(vec[i]) <= Fst(vec[k])
      BY <3>1, ChainBefore
    <3> QED
      BY <1>1, <2>1, <2>2, <2>6, <3>2
  <2>8. k # i
    <3> SUFFICES ASSUME k = i PROVE FALSE
      OBVIOUS
    <3>1. u = Fst(vec[i]) + l - 1 /\ l \in 1 .. Num(vec[i])
      BY <2>6
    <3> QED
      BY <1>1, <2>1, <2>2, <3>1
  <2>9. k \in 1 .. i - 1
    BY <1>1, <1>9, <2>7, <2>8
  <2>10. <<k, l>> \in S
    BY <2>9 DEF S, PlacesBefore
  <2>11. g[<<k, l>>] = u
    BY <2>5, <2>10
  <2> QED
    BY <2>10, <2>11
<1> HIDE DEF g
<1>6. g \in Injection(S, T) /\ g \in Surjection(S, T)
  BY <1>3, <1>4, <1>5 DEF Injection, Surjection, IsInjective
<1>7. IsFiniteSet(T) /\ Cardinality(T) = Fst(vec[i]) - 1
  <2>1. Fst(vec[i]) - 1 \in Nat
    BY <1>1
  <2> QED
    BY <2>1, FirstNumbers DEF T
<1>8. Cardinality(S) = Cardinality(T)
  BY <1>6, <1>7, FS_Injection
<1> QED
  BY <1>7, <1>8 DEF S

\* get_cmd_for_overwrite finds command usr_idx.
LEMMA Finds ==
    ASSUME m_vec \in Seq(Entry), Len(cmd) \in Nat, Chain(m_vec, Len(cmd)), NEW usr_idx \in 0 .. Len(cmd) - 1
    PROVE  /\ EntryOf(usr_idx) \in DOMAIN m_vec
           /\ SubOf(usr_idx) = usr_idx + 1
           /\ \E k \in DOMAIN m_vec[EntryOf(usr_idx)].subs : m_vec[EntryOf(usr_idx)].subs[k] = usr_idx + 1
<1> DEFINE u == usr_idx + 1
           Is(i) == SubsBefore(i) <= usr_idx /\ usr_idx < SubsBefore(i) + Num(m_vec[i])
<1>1. u \in 1 .. Len(cmd) /\ usr_idx \in Nat
  OBVIOUS
<1>2. ASSUME NEW i \in DOMAIN m_vec
      PROVE  SubsBefore(i) = Fst(m_vec[i]) - 1
  BY CountBefore DEF SubsBefore, PlacesBefore
<1>3. PICK i \in DOMAIN m_vec : \E k \in DOMAIN m_vec[i].subs : m_vec[i].subs[k] = u
  BY <1>1, ChainHas
<1>4. PICK k \in DOMAIN m_vec[i].subs : m_vec[i].subs[k] = u
  BY <1>3
<1>5. Is(i)
  <2>1. u = Fst(m_vec[i]) + k - 1 /\ k \in 1 .. Num(m_vec[i]) /\ Num(m_vec[i]) \in Nat /\ Fst(m_vec[i]) \in Nat
    BY <1>4, ChainAt, ChainSub
  <2>2. SubsBefore(i) = Fst(m_vec[i]) - 1
    BY <1>2
  <2> QED
    BY <1>1, <2>1, <2>2
<1>6. EntryOf(usr_idx) = CHOOSE j \in DOMAIN m_vec : Is(j)
  BY DEF EntryOf, Num
<1> DEFINE e == EntryOf(usr_idx)
<1>7. e \in DOMAIN m_vec /\ Is(e)
  <2> HIDE DEF Is
  <2> QED
    BY <1>5, <1>6
<1> HIDE DEF e
<1>8. /\ Fst(m_vec[e]) \in Nat /\ Num(m_vec[e]) \in Nat /\ SubsBefore(e) = Fst(m_vec[e]) - 1
      /\ DOMAIN m_vec[e].subs = 1 .. Num(m_vec[e])
  BY <1>2, <1>7, ChainAt
<1> DEFINE l == usr_idx - SubsBefore(e) + 1
<1>9. l \in 1 .. Num(m_vec[e]) /\ Fst(m_vec[e]) + l - 1 = u
  <2>1. SubsBefore(e) <= usr_idx /\ usr_idx < SubsBefore(e) + Num(m_vec[e])
    BY <1>7
  <2> QED
    BY <1>1, <1>8, <2>1
<1>10. SubOf(usr_idx) = m_vec[e].subs[l]
  BY DEF SubOf, e
<1> HIDE DEF l
<1>11. l \in DOMAIN m_vec[e].subs
  BY <1>8, <1>9
<1>12. m_vec[e].subs[l] = u
  <2>1. m_vec[e].subs[l] = Fst(m_vec[e]) + l - 1
    BY <1>7, <1>11, ChainSub
  <2> QED
    BY <1>9, <2>1
<1> QED
  BY <1>7, <1>10, <1>11, <1>12 DEF e

-----------------------------------------------------------------------------
\* What edits leave of the entries and of the commands.
KeepsEntries(vec, v) ==
    /\ v \in Seq(Entry) /\ Len(v) = Len(vec) /\ DOMAIN v = DOMAIN vec
    /\ \A i \in DOMAIN vec : v[i].type = vec[i].type /\ v[i].subs = vec[i].subs /\ v[i].idx = vec[i].idx
KeepsCmds(c, d) ==
    /\ d \in Seq(Command) /\ Len(d) = Len(c) /\ DOMAIN d = DOMAIN c
    /\ \A u \in DOMAIN c : d[u].kind = c[u].kind /\ d[u].idx = c[u].idx

\* A sequence of as many of the same set.
LEMMA SameSeq ==
    ASSUME NEW S, NEW s \in Seq(S), NEW t, DOMAIN t = DOMAIN s, t = [i \in DOMAIN t |-> t[i]],
           \A i \in DOMAIN s : t[i] \in S
    PROVE  t \in Seq(S) /\ Len(t) = Len(s) /\ DOMAIN t = DOMAIN s
<1>1. DOMAIN s = 1 .. Len(s) /\ Len(s) \in Nat
  OBVIOUS
<1>2. t \in [1 .. Len(s) -> S]
  BY <1>1
<1> QED
  BY <1>1, <1>2

LEMMA EachEntry == \A vec \in Seq(Entry) : \A i \in DOMAIN vec : vec[i] \in Entry
OBVIOUS

\* An entry's flag, or its count.
Flagged(e) == [e EXCEPT !.edited = TRUE]
Unflagged(e) == [e EXCEPT !.edited = FALSE]
CountOf(e, m) == [e EXCEPT !.num_edits = m]
LEMMA FlagEntry ==
    ASSUME NEW e \in Entry
    PROVE  /\ Flagged(e) \in Entry /\ Flagged(e).type = e.type /\ Flagged(e).subs = e.subs
           /\ Flagged(e).idx = e.idx /\ Flagged(e).num_edits = e.num_edits
BY DEF Entry, Flagged
LEMMA UnflagEntry ==
    ASSUME NEW e \in Entry
    PROVE  /\ Unflagged(e) \in Entry /\ Unflagged(e).type = e.type /\ Unflagged(e).subs = e.subs
           /\ Unflagged(e).idx = e.idx /\ Unflagged(e).num_edits = e.num_edits
BY DEF Entry, Unflagged
LEMMA FlagSet == \A e \in Entry : Flagged(e).edited /\ ~Unflagged(e).edited
BY DEF Entry, Flagged, Unflagged
LEMMA CountEntry ==
    ASSUME NEW e \in Entry, NEW m \in Nat
    PROVE  /\ CountOf(e, m) \in Entry /\ CountOf(e, m).type = e.type /\ CountOf(e, m).subs = e.subs
           /\ CountOf(e, m).idx = e.idx
           /\ CountOf(e, m).edited = e.edited /\ CountOf(e, m).num_edits = m
BY DEF Entry, CountOf
LEMMA SetEntry ==
    ASSUME NEW vec \in Seq(Entry), NEW i \in DOMAIN vec, NEW f \in Entry, NEW v, v = [vec EXCEPT ![i] = f],
           f.type = vec[i].type, f.subs = vec[i].subs, f.idx = vec[i].idx
    PROVE  /\ KeepsEntries(vec, v)
           /\ v[i] = f /\ \A j \in DOMAIN vec : j # i => v[j] = vec[j]
<1>1. v \in Seq(Entry) /\ Len(v) = Len(vec) /\ DOMAIN v = DOMAIN vec
  OBVIOUS
<1>2. v[i] = f /\ \A j \in DOMAIN vec : j # i => v[j] = vec[j]
  OBVIOUS
<1>3. ASSUME NEW j \in DOMAIN vec
      PROVE  v[j].type = vec[j].type /\ v[j].subs = vec[j].subs /\ v[j].idx = vec[j].idx
  BY <1>2
<1> QED
  BY <1>1, <1>2, <1>3 DEF KeepsEntries

MarkedIn(vec, i) == [vec EXCEPT ![i].num_edits = @ + 1, ![i].edited = TRUE]
HeaderOf(vec, i) == [vec EXCEPT ![i].edited = FALSE]
EndOf(vec, i) == [vec EXCEPT ![i].num_edits = 0]
ClearedOf(vec) == [i \in DOMAIN vec |-> [vec[i] EXCEPT !.edited = FALSE, !.num_edits = 0]]
MarkedCmd(c, u) == [c EXCEPT ![u].edited = TRUE]
PackedCmd(c, u) == [c EXCEPT ![u].edited = FALSE]
ParOfCmd(c, u, p) == [c EXCEPT ![u].par = p]

\* get_cmd_for_overwrite on a copy list.
LEMMA MarkEntry ==
    ASSUME NEW vec \in Seq(Entry), NEW i \in DOMAIN vec,
           NEW v, v = MarkedIn(vec, i)
    PROVE  /\ KeepsEntries(vec, v)
           /\ v[i].num_edits = vec[i].num_edits + 1 /\ v[i].edited
           /\ \A j \in DOMAIN vec : j # i => v[j] = vec[j]
<1> DEFINE f == CountOf(vec[i], vec[i].num_edits + 1)
           g == Flagged(f)
<1>1. vec[i] \in Entry /\ vec[i].num_edits + 1 \in Nat
  BY EntryType
<1>2. /\ f \in Entry /\ f.type = vec[i].type /\ f.subs = vec[i].subs /\ f.idx = vec[i].idx
      /\ f.num_edits = vec[i].num_edits + 1
  BY <1>1, CountEntry
<1>3. v = [vec EXCEPT ![i] = g]
  BY DEF Flagged, CountOf, MarkedIn
<1> HIDE DEF f
<1>4. /\ g \in Entry /\ g.type = f.type /\ g.subs = f.subs /\ g.idx = f.idx
      /\ g.num_edits = f.num_edits
  BY <1>2, FlagEntry
<1>7. g.edited
  BY <1>2, FlagSet
<1> HIDE DEF g
<1>5. g.type = vec[i].type /\ g.subs = vec[i].subs /\ g.idx = vec[i].idx
  BY <1>2, <1>4
<1>6. KeepsEntries(vec, v) /\ v[i] = g /\ \A j \in DOMAIN vec : j # i => v[j] = vec[j]
  BY <1>3, <1>4, <1>5, SetEntry
<1> QED
  BY <1>2, <1>4, <1>6, <1>7

\* The header of a copy list is packed.
LEMMA HeaderEntry ==
    ASSUME NEW vec \in Seq(Entry), NEW i \in DOMAIN vec, NEW v, v = HeaderOf(vec, i)
    PROVE  /\ KeepsEntries(vec, v)
           /\ v[i].num_edits = vec[i].num_edits /\ ~v[i].edited
           /\ \A j \in DOMAIN vec : j # i => v[j] = vec[j]
<1> DEFINE f == Unflagged(vec[i])
<1>1. v = [vec EXCEPT ![i] = f]
  BY DEF Unflagged, HeaderOf
<1>2. /\ f \in Entry /\ f.type = vec[i].type /\ f.subs = vec[i].subs /\ f.idx = vec[i].idx
      /\ f.num_edits = vec[i].num_edits
  BY UnflagEntry
<1>4. ~f.edited
  BY FlagSet
<1> HIDE DEF f
<1>3. KeepsEntries(vec, v) /\ v[i] = f /\ \A j \in DOMAIN vec : j # i => v[j] = vec[j]
  BY <1>1, <1>2, SetEntry
<1> QED
  BY <1>2, <1>3, <1>4

\* The end of a copy list.
LEMMA EndEntry ==
    ASSUME NEW vec \in Seq(Entry), NEW i \in DOMAIN vec, NEW v, v = EndOf(vec, i)
    PROVE  /\ KeepsEntries(vec, v)
           /\ v[i].num_edits = 0 /\ v[i].edited = vec[i].edited
           /\ \A j \in DOMAIN vec : j # i => v[j] = vec[j]
<1> DEFINE f == CountOf(vec[i], 0)
<1>1. v = [vec EXCEPT ![i] = f]
  BY DEF CountOf, EndOf
<1>2. /\ f \in Entry /\ f.type = vec[i].type /\ f.subs = vec[i].subs /\ f.idx = vec[i].idx
      /\ f.edited = vec[i].edited /\ f.num_edits = 0
  BY CountEntry
<1> HIDE DEF f
<1>3. KeepsEntries(vec, v) /\ v[i] = f /\ \A j \in DOMAIN vec : j # i => v[j] = vec[j]
  BY <1>1, <1>2, SetEntry
<1> QED
  BY <1>2, <1>3

\* clear_edits of every entry.
LEMMA ClearedEntries ==
    ASSUME NEW vec \in Seq(Entry), NEW v, v = ClearedOf(vec)
    PROVE  /\ KeepsEntries(vec, v)
           /\ \A i \in DOMAIN vec : v[i].num_edits = 0 /\ ~v[i].edited
<1>1. ASSUME NEW i \in DOMAIN vec
      PROVE  /\ v[i].num_edits = 0 /\ ~v[i].edited /\ v[i] \in Entry
             /\ v[i].type = vec[i].type /\ v[i].subs = vec[i].subs /\ v[i].idx = vec[i].idx
  <2> DEFINE f == Unflagged(vec[i])
             g == CountOf(f, 0)
  <2>1. v[i] = g
    BY DEF Unflagged, CountOf, ClearedOf
  <2>5. vec[i] \in Entry
    BY EachEntry, Zenon
  <2>2. f \in Entry /\ f.type = vec[i].type /\ f.subs = vec[i].subs /\ f.idx = vec[i].idx
    BY <2>5, UnflagEntry, Zenon
  <2>4. ~f.edited
    BY <2>5, FlagSet, Zenon
  <2> HIDE DEF f
  <2>3. /\ g \in Entry /\ g.edited = f.edited /\ g.num_edits = 0
        /\ g.type = f.type /\ g.subs = f.subs /\ g.idx = f.idx
    BY <2>2, CountEntry
  <2> HIDE DEF g
  <2> QED
    BY <2>1, <2>2, <2>3, <2>4
<1>2. v \in Seq(Entry) /\ Len(v) = Len(vec) /\ DOMAIN v = DOMAIN vec
  <2>1. DOMAIN v = DOMAIN vec
    BY DEF ClearedOf
  <2>2. \A i \in DOMAIN vec : v[i] \in Entry
    BY <1>1
  <2>3. v = [i \in DOMAIN v |-> v[i]]
    BY DEF ClearedOf
  <2> QED
    BY <2>1, <2>2, <2>3, SameSeq
<1> QED
  BY <1>1, <1>2 DEF KeepsEntries

\* A command is marked, or packed.
LEMMA MarkCmd ==
    ASSUME NEW c \in Seq(Command), NEW u \in DOMAIN c, NEW d, d = MarkedCmd(c, u)
    PROVE  /\ KeepsCmds(c, d)
           /\ d[u].edited /\ \A w \in DOMAIN c : (w # u => d[w] = c[w]) /\ d[w].par = c[w].par
<1>1. c[u] \in Command
  OBVIOUS
<1> DEFINE f == Flagged(c[u])
<1>4. f \in Command /\ f.kind = c[u].kind /\ f.idx = c[u].idx /\ f.par = c[u].par
  BY <1>1 DEF Command, Flagged
<1>5. f.edited
  BY <1>1 DEF Command, Flagged
<1>6. d = [c EXCEPT ![u] = f]
  BY DEF MarkedCmd, Flagged
<1> HIDE DEF f
<1>7. /\ d \in Seq(Command) /\ Len(d) = Len(c) /\ DOMAIN d = DOMAIN c
      /\ d[u] = f /\ \A w \in DOMAIN c : w # u => d[w] = c[w]
  BY <1>4, <1>6
<1>2. /\ d[u].edited /\ d[u].kind = c[u].kind /\ d[u].idx = c[u].idx /\ d[u].par = c[u].par
      /\ d \in Seq(Command) /\ Len(d) = Len(c) /\ DOMAIN d = DOMAIN c
      /\ \A w \in DOMAIN c : w # u => d[w] = c[w]
  BY <1>4, <1>5, <1>7
<1>3. \A w \in DOMAIN c : d[w].kind = c[w].kind /\ d[w].idx = c[w].idx /\ d[w].par = c[w].par
  BY <1>2
<1> QED
  BY <1>2, <1>3 DEF KeepsCmds
LEMMA PackCmd ==
    ASSUME NEW c \in Seq(Command), NEW u \in DOMAIN c, NEW d, d = PackedCmd(c, u)
    PROVE  /\ KeepsCmds(c, d)
           /\ ~d[u].edited /\ \A w \in DOMAIN c : (w # u => d[w] = c[w]) /\ d[w].par = c[w].par
<1>1. c[u] \in Command
  OBVIOUS
<1> DEFINE f == Unflagged(c[u])
<1>4. f \in Command /\ f.kind = c[u].kind /\ f.idx = c[u].idx /\ f.par = c[u].par
  BY <1>1 DEF Command, Unflagged
<1>5. ~f.edited
  BY <1>1 DEF Command, Unflagged
<1>6. d = [c EXCEPT ![u] = f]
  BY DEF PackedCmd, Unflagged
<1> HIDE DEF f
<1>7. /\ d \in Seq(Command) /\ Len(d) = Len(c) /\ DOMAIN d = DOMAIN c
      /\ d[u] = f /\ \A w \in DOMAIN c : w # u => d[w] = c[w]
  BY <1>4, <1>6
<1>2. /\ ~d[u].edited /\ d[u].kind = c[u].kind /\ d[u].idx = c[u].idx /\ d[u].par = c[u].par
      /\ d \in Seq(Command) /\ Len(d) = Len(c) /\ DOMAIN d = DOMAIN c
      /\ \A w \in DOMAIN c : w # u => d[w] = c[w]
  BY <1>4, <1>5, <1>7
<1>3. \A w \in DOMAIN c : d[w].kind = c[w].kind /\ d[w].idx = c[w].idx /\ d[w].par = c[w].par
  BY <1>2
<1> QED
  BY <1>2, <1>3 DEF KeepsCmds

\* A command gets parameters.
LEMMA ParCmd ==
    ASSUME NEW c \in Seq(Command), NEW u \in DOMAIN c, NEW p \in Par, NEW d, d = ParOfCmd(c, u, p)
    PROVE  /\ KeepsCmds(c, d)
           /\ d[u].par = p /\ \A w \in DOMAIN c : (w # u => d[w] = c[w]) /\ d[w].edited = c[w].edited
<1>1. c[u] \in Command
  OBVIOUS
<1>2. /\ d[u].edited = c[u].edited /\ d[u].kind = c[u].kind /\ d[u].idx = c[u].idx /\ d[u].par = p
      /\ d \in Seq(Command) /\ Len(d) = Len(c) /\ DOMAIN d = DOMAIN c
      /\ \A w \in DOMAIN c : w # u => d[w] = c[w]
  BY <1>1 DEF Command, ParOfCmd
<1>3. \A w \in DOMAIN c : d[w].kind = c[w].kind /\ d[w].idx = c[w].idx /\ d[w].edited = c[w].edited
  BY <1>2
<1> QED
  BY <1>2, <1>3 DEF KeepsCmds

\* Commands that are not in S lose their marks.
UnmarkedCmds(c, S) == [u \in DOMAIN c |-> [c[u] EXCEPT !.edited = @ /\ u \in S]]
LEMMA ClearedCmds ==
    ASSUME NEW c \in Seq(Command), NEW S,
           NEW d, d = UnmarkedCmds(c, S)
    PROVE  KeepsCmds(c, d) /\ \A u \in DOMAIN c : d[u].par = c[u].par
<1>1. ASSUME NEW u \in DOMAIN c
      PROVE  d[u] \in Command /\ d[u].kind = c[u].kind /\ d[u].idx = c[u].idx /\ d[u].par = c[u].par
  <2>1. c[u] \in Command
    OBVIOUS
  <2> DEFINE b == c[u].edited /\ u \in S
  <2>2. b \in BOOLEAN
    OBVIOUS
  <2>3. d[u] = [c[u] EXCEPT !.edited = b]
    BY DEF UnmarkedCmds
  <2> HIDE DEF b
  <2> QED
    BY <2>1, <2>2, <2>3 DEF Command
<1>2. d \in Seq(Command) /\ Len(d) = Len(c) /\ DOMAIN d = DOMAIN c
  <2>1. DOMAIN d = DOMAIN c
    BY DEF UnmarkedCmds
  <2>2. \A u \in DOMAIN c : d[u] \in Command
    BY <1>1
  <2>3. d = [u \in DOMAIN d |-> d[u]]
    BY DEF UnmarkedCmds
  <2> QED
    BY <2>1, <2>2, <2>3, SameSeq
<1> QED
  BY <1>1, <1>2 DEF KeepsCmds

\* What an entry is does not depend on flags and parameters.
LEMMA EntrySame ==
    ASSUME NEW e, NEW f, NEW c, NEW d, NEW o, NEW q, EntryOK(e, c, o),
           f.type = e.type, f.subs = e.subs,
           \A k \in DOMAIN e.subs : d[e.subs[k]].kind = c[e.subs[k]].kind
                                    /\ (e.type = "COPYLIST" => d[e.subs[k]].idx = c[e.subs[k]].idx),
           e.type # "COPYLIST" => 1 \in DOMAIN e.subs /\ f.num_edits = 0,
           e.type = "COPYLIST" => f.num_edits <= Num(e) + q
    PROVE  EntryOK(f, d, q)
<1>1. CASE e.type = "COPYLIST"
  <2>1. Num(e) \in 2 .. MaxBatch /\ \A k \in DOMAIN e.subs : c[e.subs[k]].idx = k - 1
    BY <1>1 DEF EntryOK
  <2>2. PICK kind \in {"h2c", "c2h"} : \A k \in DOMAIN e.subs : c[e.subs[k]].kind = kind
    BY <1>1 DEF EntryOK
  <2>3. \A k \in DOMAIN f.subs : d[f.subs[k]].kind = kind /\ d[f.subs[k]].idx = k - 1
    BY <1>1, <2>1, <2>2
  <2>4. Num(f) = Num(e)
    BY DEF Num
  <2>5. \E kd \in {"h2c", "c2h"} : \A k \in DOMAIN f.subs : d[f.subs[k]].kind = kd
    BY <2>2, <2>3
  <2> QED
    BY <1>1, <2>1, <2>3, <2>4, <2>5 DEF EntryOK
<1>2. CASE e.type # "COPYLIST"
  <2>1. Num(e) = 1 /\ (e.type = "COPY" <=> c[Fst(e)].kind # "infreq")
    BY <1>2 DEF EntryOK
  <2>2. Num(f) = Num(e) /\ Fst(f) = Fst(e)
    BY DEF Num, Fst
  <2>3. d[Fst(e)].kind = c[Fst(e)].kind
    BY <1>2 DEF Fst
  <2> QED
    BY <1>2, <2>1, <2>2, <2>3 DEF EntryOK
<1> QED
  BY <1>1, <1>2

\* Flags, parameters and bounded counts: the entries are as they were.
LEMMA VecKeeps ==
    ASSUME NEW vec \in Seq(Entry), NEW v, NEW c \in Seq(Command), NEW d, NEW o \in Nat, NEW q \in Nat,
           NEW n \in Nat, n <= Len(c), Chain(vec, n), VecOK(vec, c, o), KeepsEntries(vec, v), KeepsCmds(c, d),
           \A i \in DOMAIN vec : \/ (v[i].num_edits = vec[i].num_edits /\ o <= q)
                                 \/ v[i].num_edits = 0
                                 \/ (vec[i].type = "COPYLIST" /\ v[i].num_edits = vec[i].num_edits + 1 /\ q = o + 1)
    PROVE  Chain(v, n) /\ VecOK(v, d, q)
<1>1. Chain(v, n)
  BY ChainSame DEF KeepsEntries
<1>2. ASSUME NEW i \in DOMAIN v PROVE EntryOK(v[i], d, q)
  <2>1. i \in DOMAIN vec /\ EntryOK(vec[i], c, o) /\ v[i].type = vec[i].type /\ v[i].subs = vec[i].subs
    BY DEF KeepsEntries, VecOK
  <2>2. vec[i] \in Entry /\ vec[i].num_edits \in Nat /\ Num(vec[i]) \in Nat /\ DOMAIN vec[i].subs = 1 .. Num(vec[i])
        /\ Num(vec[i]) > 0
    BY <2>1, EntryType, ChainAt
  <2>3. \A k \in DOMAIN vec[i].subs : vec[i].subs[k] \in DOMAIN c
    <3>1. DOMAIN c = 1 .. Len(c) /\ Len(c) \in Nat
      OBVIOUS
    <3>2. \A k \in DOMAIN vec[i].subs : vec[i].subs[k] \in 1 .. n
      BY <2>1, ChainIn
    <3>3. \A x \in 1 .. n : x \in 1 .. Len(c)
      BY <3>1
    <3> QED
      BY <3>1, <3>2, <3>3
  <2>4. \A k \in DOMAIN vec[i].subs : d[vec[i].subs[k]].kind = c[vec[i].subs[k]].kind
                                      /\ d[vec[i].subs[k]].idx = c[vec[i].subs[k]].idx
    BY <2>3 DEF KeepsCmds
  <2>5. vec[i].type # "COPYLIST" => 1 \in DOMAIN vec[i].subs /\ v[i].num_edits = 0
    BY <2>1, <2>2 DEF EntryOK
  <2>6. ASSUME vec[i].type = "COPYLIST" PROVE v[i].num_edits <= Num(vec[i]) + q
    <3>1. vec[i].num_edits <= Num(vec[i]) + o
      BY <2>1, <2>6 DEF EntryOK
    <3>2. \/ v[i].num_edits = vec[i].num_edits /\ o <= q
          \/ v[i].num_edits = 0
          \/ v[i].num_edits = vec[i].num_edits + 1 /\ q = o + 1
      BY <2>1
    <3> QED
      BY <2>2, <3>1, <3>2
  <2> QED
    BY <2>1, <2>4, <2>5, <2>6, EntrySame
<1> QED
  BY <1>1, <1>2 DEF VecOK

-----------------------------------------------------------------------------
\* The fields of what the card has decoded, after each of its changes.
LEMMA CardFields ==
    ASSUME NEW t, NEW a \in Nat, NEW e \in Nat, NEW l \in Nat, NEW f \in Nat, NEW s \in BOOLEAN,
           NEW r, r = CardOf(t, a, e, l, f, s)
    PROVE  /\ IsCard(r)
           /\ r.tab = t /\ r.announced = a /\ r.entries = e /\ r.list = l /\ r.left = f /\ r.last = s
<1>1. r.tab = t /\ r.announced = a /\ r.entries = e /\ r.list = l /\ r.left = f /\ r.last = s
  BY DEF CardOf
<1>2. r = CardOf(r.tab, r.announced, r.entries, r.list, r.left, r.last)
  BY <1>1
<1> QED
  BY <1>1, <1>2 DEF IsCard

LEMMA CardBare ==
    ASSUME NEW c, IsCard(c),
           NEW r, r = [c EXCEPT !.announced = 0, !.entries = 0, !.left = 0, !.last = TRUE]
    PROVE  /\ IsCard(r)
           /\ r.tab = c.tab /\ r.announced = 0 /\ r.entries = 0 /\ r.list = c.list /\ r.left = 0 /\ r.last = TRUE
<1>1. r = CardOf(c.tab, 0, 0, c.list, 0, TRUE)
  BY DEF IsCard, CardOf
<1>2. r.tab = c.tab /\ r.announced = 0 /\ r.entries = 0 /\ r.list = c.list /\ r.left = 0 /\ r.last = TRUE
  BY <1>1 DEF CardOf
<1>3. r = CardOf(r.tab, r.announced, r.entries, r.list, r.left, r.last)
  BY <1>1, <1>2, Zenon
<1>4. c.list \in Nat
  BY DEF IsCard
<1> QED
  BY <1>2, <1>3, <1>4 DEF IsCard

LEMMA CardBegin ==
    ASSUME NEW c, IsCard(c), NEW n \in Nat,
           NEW r, r = [c EXCEPT !.announced = n, !.entries = 0, !.left = 0]
    PROVE  /\ IsCard(r)
           /\ r.tab = c.tab /\ r.announced = n /\ r.entries = 0 /\ r.list = c.list /\ r.left = 0 /\ r.last = c.last
<1>1. r = CardOf(c.tab, n, 0, c.list, 0, c.last)
  BY DEF IsCard, CardOf
<1>2. c.list \in Nat /\ 0 \in Nat /\ c.last \in BOOLEAN
  BY DEF IsCard
<1> QED
  BY <1>1, <1>2, CardFields

HeaderRead(c, l, f) == [c EXCEPT !.entries = @ + 1, !.list = l, !.left = f]
LEMMA CardHeader ==
    ASSUME NEW c, IsCard(c), NEW l \in Nat, NEW f \in Nat,
           NEW r, r = HeaderRead(c, l, f)
    PROVE  /\ IsCard(r)
           /\ r.tab = c.tab /\ r.announced = c.announced /\ r.entries = c.entries + 1
           /\ r.list = l /\ r.left = f /\ r.last = c.last
<1>1. r = CardOf(c.tab, c.announced, c.entries + 1, l, f, c.last)
  BY DEF IsCard, CardOf, HeaderRead
<1>2. c.announced \in Nat /\ c.entries + 1 \in Nat /\ c.last \in BOOLEAN
  BY DEF IsCard
<1> QED
  BY <1>1, <1>2, CardFields

LEMMA CardSent ==
    ASSUME NEW c, IsCard(c), NEW b \in BOOLEAN, NEW r, r = [c EXCEPT !.last = b]
    PROVE  /\ IsCard(r)
           /\ r.tab = c.tab /\ r.announced = c.announced /\ r.entries = c.entries
           /\ r.list = c.list /\ r.left = c.left /\ r.last = b
<1>1. r = CardOf(c.tab, c.announced, c.entries, c.list, c.left, b)
  BY DEF IsCard, CardOf
<1>2. c.announced \in Nat /\ c.entries \in Nat /\ c.list \in Nat /\ c.left \in Nat
  BY DEF IsCard
<1> QED
  BY <1>1, <1>2, CardFields

LEMMA CardBlank == IsCard(Blank)
<1> DEFINE r == Blank
           t == [x \in {} |-> 0]
<1>1. r = CardOf(t, 0, 0, 0, 0, TRUE)
  BY DEF Blank, CardOf
<1> HIDE DEF r, t
<1>2. r.tab = t /\ r.announced = 0 /\ r.entries = 0 /\ r.list = 0 /\ r.left = 0 /\ r.last = TRUE
  BY <1>1 DEF CardOf
<1>3. r = CardOf(r.tab, r.announced, r.entries, r.list, r.left, r.last)
  BY <1>1, <1>2, Zenon
<1>4. r.announced \in Nat /\ r.entries \in Nat /\ r.list \in Nat /\ r.left \in Nat
  BY <1>2
<1>5. r.last \in BOOLEAN
  BY <1>2
<1> QED
  BY <1>3, <1>4, <1>5, Zenon DEF r, IsCard

\* What the card has once it has read command u at place x.
TabWith(t, x, u, par) == [y \in DOMAIN t \cup {x} |-> IF y = x THEN [u |-> u, par |-> par] ELSE t[y]]

\* A copy of the copy list that is being read, or what is no copy of one.
LEMMA ReadCopy ==
    ASSUME NEW c, IsCard(c), NEW u, NEW idx, NEW r, r = Read(c, u, idx), is_copy(u), c.left > 0
    PROVE  /\ IsCard(r) /\ r.announced = c.announced /\ r.list = c.list
           /\ r.tab = TabWith(c.tab, <<c.list, idx + 1>>, u, cmd[u].par)
           /\ r.entries = c.entries /\ r.left = c.left - 1
<1> DEFINE T == TabWith(c.tab, <<c.list, idx + 1>>, u, cmd[u].par)
<1>1. c.announced \in Nat /\ c.entries \in Nat /\ c.list \in Nat /\ c.left \in Nat /\ c.last \in BOOLEAN
      /\ c.left - 1 \in Nat
  BY DEF IsCard, CardOf
<1>2. r = [c EXCEPT !.tab = T, !.entries = @, !.left = @ - 1]
  BY DEF Read, TabWith
<1> HIDE DEF T
<1>3. r = CardOf(T, c.announced, c.entries, c.list, c.left - 1, c.last)
  BY <1>2 DEF IsCard, CardOf
<1>4. IsCard(r) /\ r.announced = c.announced /\ r.list = c.list /\ r.last = c.last
      /\ r.tab = T /\ r.entries = c.entries /\ r.left = c.left - 1
  BY <1>1, <1>3, CardFields
<1> QED
  BY <1>4 DEF T

LEMMA ReadOwn ==
    ASSUME NEW c, IsCard(c), NEW u, NEW idx, NEW r, r = Read(c, u, idx), ~(is_copy(u) /\ c.left > 0)
    PROVE  /\ IsCard(r) /\ r.announced = c.announced /\ r.list = c.list
           /\ r.tab = TabWith(c.tab, <<idx, 0>>, u, cmd[u].par)
           /\ r.entries = c.entries + 1 /\ r.left = c.left
<1> DEFINE T == TabWith(c.tab, <<idx, 0>>, u, cmd[u].par)
<1>1. c.announced \in Nat /\ c.entries \in Nat /\ c.list \in Nat /\ c.left \in Nat /\ c.last \in BOOLEAN
      /\ c.entries + 1 \in Nat
  BY DEF IsCard, CardOf
<1>2. r = [c EXCEPT !.tab = T, !.entries = @ + 1, !.left = @]
  BY DEF Read, TabWith
<1> HIDE DEF T
<1>3. r = CardOf(T, c.announced, c.entries + 1, c.list, c.left, c.last)
  BY <1>2 DEF IsCard, CardOf
<1>4. IsCard(r) /\ r.announced = c.announced /\ r.list = c.list /\ r.last = c.last
      /\ r.tab = T /\ r.entries = c.entries + 1 /\ r.left = c.left
  BY <1>1, <1>3, CardFields
<1> QED
  BY <1>4 DEF T

LEMMA CardRead ==
    ASSUME NEW c, IsCard(c), NEW u, NEW idx, NEW r, r = Read(c, u, idx)
    PROVE  IsCard(r)
<1>1. CASE is_copy(u) /\ c.left > 0
  BY <1>1, ReadCopy
<1>2. CASE ~(is_copy(u) /\ c.left > 0)
  BY <1>2, ReadOwn
<1> QED
  BY <1>1, <1>2

-----------------------------------------------------------------------------
\* The bounds are numbers.
LEMMA EditBounds ==
    MaxCmds \in Nat /\ MaxOverwrites \in Nat /\ MaxSends \in Nat /\ MaxFailures \in Nat /\ MaxBatch \in Nat
    /\ MaxBatch >= 1 /\ PageSize \in Nat /\ PageSize >= 20
BY EditsAssumption

\* The parts of a shape that a step leaves alone.
LEMMA ListStays ==
    ASSUME EdListShape, UNCHANGED <<m_vec, new_list, cmd, want, m_num_edits, m_finalized, batch>>
    PROVE  EdListShape'
BY DEF EdListShape
LEMMA SendStays ==
    ASSUME EdSendShape, UNCHANGED <<start, snd, stage, pos, sub, used>>, Len(m_vec') = Len(m_vec)
    PROVE  EdSendShape'
BY DEF EdSendShape
LEMMA UserStays ==
    ASSUME EdUserShape, UNCHANGED <<append_kind, over>>, Len(cmd') = Len(cmd)
    PROVE  EdUserShape'
BY DEF EdUserShape
LEMMA CardStays ==
    ASSUME EdCardShape, UNCHANGED <<card, page_read>>
    PROVE  EdCardShape'
BY DEF EdCardShape
LEMMA BoundStays ==
    ASSUME EdBoundShape, UNCHANGED boundVars
    PROVE  EdBoundShape'
BY DEF EdBoundShape, boundVars

LEMMA AppendTestShape ==
    ASSUME EditShape, NEW kind \in Kinds, append_test(kind)
    PROVE  EditShape'
<1>1. EdListShape' /\ EdSendShape' /\ EdCardShape' /\ EdBoundShape'
  BY ListStays, SendStays, CardStays, BoundStays DEF EditShape, append_test, listParts, batchVars, sendVars
<1>2. EdUserShape'
  BY DEF EditShape, EdUserShape, append_test, listParts
<1> QED
  BY <1>1, <1>2 DEF EditShape

\* A command more, in an entry of its own.
LEMMA Appends ==
    ASSUME EditShape, NEW p \in Par, append(p)
    PROVE  /\ append_kind \in Kinds /\ Len(cmd) \in Nat /\ Len(m_vec) \in Nat
           /\ cmd' \in Seq(Command) /\ Len(cmd') = Len(cmd) + 1
           /\ DOMAIN cmd = 1 .. Len(cmd) /\ DOMAIN cmd' = 1 .. Len(cmd) + 1
           /\ \A u \in DOMAIN cmd : cmd'[u] = cmd[u]
           /\ cmd'[Len(cmd) + 1] = [kind |-> append_kind, par |-> p, edited |-> TRUE, idx |-> 0]
           /\ want' \in Seq(Par) /\ Len(want') = Len(cmd) + 1
           /\ \A u \in DOMAIN cmd : want'[u] = want[u]
           /\ want'[Len(cmd) + 1] = p
           /\ m_vec' \in Seq(Entry) /\ Len(m_vec') = Len(m_vec) + 1
           /\ DOMAIN m_vec = 1 .. Len(m_vec) /\ DOMAIN m_vec' = 1 .. Len(m_vec) + 1
           /\ \A i \in DOMAIN m_vec : m_vec'[i] = m_vec[i]
           /\ m_vec' = Append(m_vec, m_vec'[Len(m_vec) + 1])
           /\ m_vec'[Len(m_vec) + 1] \in Entry
           /\ m_vec'[Len(m_vec) + 1].type = IF append_kind = "infreq" THEN "INFREQ" ELSE "COPY"
           /\ m_vec'[Len(m_vec) + 1].subs = <<Len(cmd) + 1>>
           /\ m_vec'[Len(m_vec) + 1].idx = Len(m_vec) /\ m_vec'[Len(m_vec) + 1].num_edits = 0
<1>1. m_vec \in Seq(Entry) /\ cmd \in Seq(Command) /\ want \in Seq(Par) /\ Len(want) = Len(cmd)
      /\ append_kind \in Kinds
  BY DEF EditShape, EdListShape, EdUserShape, append
<1> DEFINE c == [kind |-> append_kind, par |-> p, edited |-> TRUE, idx |-> 0]
           e == [type |-> IF append_kind = "infreq" THEN "INFREQ" ELSE "COPY",
                 subs |-> <<Len(cmd) + 1>>, idx |-> Len(m_vec), edited |-> FALSE, num_edits |-> 0]
<1>2. c \in Command
  BY <1>1 DEF Command
<1>3. /\ e \in Entry /\ e.subs = <<Len(cmd) + 1>> /\ e.idx = Len(m_vec) /\ e.num_edits = 0
      /\ e.type = IF append_kind = "infreq" THEN "INFREQ" ELSE "COPY"
  BY <1>1 DEF Entry
<1>4. cmd' = Append(cmd, c) /\ m_vec' = Append(m_vec, e) /\ want' = Append(want, p)
  BY DEF append
<1> HIDE DEF c, e
<1>5. /\ Len(cmd) \in Nat /\ cmd' \in Seq(Command) /\ Len(cmd') = Len(cmd) + 1
      /\ DOMAIN cmd = 1 .. Len(cmd) /\ DOMAIN cmd' = 1 .. Len(cmd) + 1
      /\ (\A u \in DOMAIN cmd : cmd'[u] = cmd[u]) /\ cmd'[Len(cmd) + 1] = c
  BY <1>1, <1>2, <1>4
<1>6. /\ want' \in Seq(Par) /\ Len(want') = Len(cmd) + 1
      /\ (\A u \in DOMAIN cmd : want'[u] = want[u]) /\ want'[Len(cmd) + 1] = p
  BY <1>1, <1>4, <1>5
<1>7. /\ Len(m_vec) \in Nat /\ m_vec' \in Seq(Entry) /\ Len(m_vec') = Len(m_vec) + 1
      /\ DOMAIN m_vec = 1 .. Len(m_vec) /\ DOMAIN m_vec' = 1 .. Len(m_vec) + 1
      /\ (\A i \in DOMAIN m_vec : m_vec'[i] = m_vec[i]) /\ m_vec'[Len(m_vec) + 1] = e
  BY <1>1, <1>3, <1>4
<1> QED
  BY <1>1, <1>3, <1>4, <1>5, <1>6, <1>7 DEF c

LEMMA AppendShape ==
    ASSUME EditShape, NEW p \in Par, append(p)
    PROVE  EditShape'
<1>1. Len(cmd') = Len(cmd) + 1 /\ Len(m_vec') = Len(m_vec) + 1 /\ Len(cmd) \in Nat /\ Len(m_vec) \in Nat
      /\ cmd' \in Seq(Command) /\ m_vec' \in Seq(Entry) /\ want' \in Seq(Par) /\ Len(want') = Len(cmd) + 1
  BY Appends
<1>2. EdListShape'
  <2>1. new_list' \in Seq(Entry) /\ m_finalized' \in BOOLEAN /\ batch' \in BOOLEAN /\ m_num_edits' \in Nat
    BY DEF EditShape, EdListShape, append, batchVars
  <2>2. Len(cmd') <= MaxCmds
    <3>1. Len(cmd) < MaxCmds
      BY DEF append, EditShape, EdUserShape
    <3> QED
      BY <1>1, <3>1, EditBounds
  <2> QED
    BY <1>1, <2>1, <2>2 DEF EdListShape
<1>3. EdSendShape'
  <2>1. UNCHANGED <<start, snd, stage, pos, sub, used>>
    BY DEF append, batchVars, sendVars
  <2> QED
    BY <1>1, <2>1 DEF EditShape, EdSendShape
<1>4. EdUserShape'
  <2>1. append_kind' = "none" /\ over' = over /\ over \in [u : 0 .. Len(cmd), par : Par]
    BY DEF append, EditShape, EdUserShape
  <2>2. over \in [u : 0 .. Len(cmd'), par : Par]
    BY <1>1, <2>1
  <2> QED
    BY <2>1, <2>2 DEF EdUserShape
<1>5. EdCardShape'
  BY CardStays DEF append, EditShape, sendVars
<1>6. EdBoundShape'
  BY DEF append, EditShape, EdBoundShape
<1> QED
  BY <1>2, <1>3, <1>4, <1>5, <1>6 DEF EditShape

-----------------------------------------------------------------------------
LEMMA EditTypes ==
    ASSUME EditShape
    PROVE  /\ m_vec \in Seq(Entry) /\ new_list \in Seq(Entry) /\ cmd \in Seq(Command) /\ want \in Seq(Par)
           /\ Len(cmd) \in Nat /\ Len(m_vec) \in Nat /\ Len(want) = Len(cmd)
           /\ DOMAIN cmd = 1 .. Len(cmd) /\ DOMAIN m_vec = 1 .. Len(m_vec) /\ DOMAIN want = 1 .. Len(cmd)
           /\ m_num_edits \in Nat /\ overwrites \in Nat
           /\ pos \in Nat /\ 1 <= pos /\ pos <= Len(m_vec) + 1 /\ sub \in Nat /\ used \in Nat /\ start \in Nat
           /\ IsCard(card) /\ IsCard(page_read)
<1>1. m_vec \in Seq(Entry) /\ new_list \in Seq(Entry) /\ cmd \in Seq(Command) /\ want \in Seq(Par)
      /\ Len(want) = Len(cmd) /\ m_num_edits \in Nat
  BY DEF EditShape, EdListShape
<1>2. pos \in 1 .. Len(m_vec) + 1 /\ sub \in Nat /\ used \in Nat /\ start \in Nat
  BY DEF EditShape, EdSendShape
<1>3. overwrites \in Nat
  BY EditBounds DEF EditShape, EdBoundShape
<1>4. IsCard(card) /\ IsCard(page_read)
  BY DEF EditShape, EdCardShape
<1>5. Len(cmd) \in Nat /\ Len(m_vec) \in Nat
      /\ DOMAIN cmd = 1 .. Len(cmd) /\ DOMAIN m_vec = 1 .. Len(m_vec) /\ DOMAIN want = 1 .. Len(want)
  BY <1>1
<1>6. pos \in Nat /\ 1 <= pos /\ pos <= Len(m_vec) + 1
  BY <1>2, <1>5
<1> QED
  BY <1>1, <1>2, <1>3, <1>4, <1>5, <1>6

LEMMA StructureTypes ==
    ASSUME Structure
    PROVE  Chain(m_vec, Len(cmd)) /\ VecOK(m_vec, cmd, overwrites)
BY DEF Structure

\* Command k of entry i.
LEMMA PlaceCmd ==
    ASSUME EditShape, Structure, NEW i \in DOMAIN m_vec, NEW k \in DOMAIN m_vec[i].subs
    PROVE  m_vec[i].subs[k] \in DOMAIN cmd /\ i \in Nat /\ k \in Nat /\ k >= 1 /\ k <= Num(m_vec[i])
<1>1. m_vec \in Seq(Entry) /\ Len(cmd) \in Nat /\ DOMAIN cmd = 1 .. Len(cmd) /\ Chain(m_vec, Len(cmd))
      /\ DOMAIN m_vec = 1 .. Len(m_vec)
  BY EditTypes, StructureTypes
<1>2. m_vec[i].subs[k] \in 1 .. Len(cmd)
  BY <1>1, ChainIn
<1>3. DOMAIN m_vec[i].subs = 1 .. Num(m_vec[i]) /\ Num(m_vec[i]) \in Nat
  BY <1>1, ChainAt
<1> QED
  BY <1>1, <1>2, <1>3

\* What get_cmd_for_overwrite does to command k of entry i.
LEMMA Marks ==
    ASSUME EditShape, Structure, NEW i \in DOMAIN m_vec, NEW k \in DOMAIN m_vec[i].subs,
           NEW u, u = m_vec[i].subs[k], Mark(i, u)
    PROVE  /\ u \in DOMAIN cmd
           /\ KeepsEntries(m_vec, m_vec') /\ KeepsCmds(cmd, cmd')
           /\ cmd'[u].edited
           /\ \A w \in DOMAIN cmd : (w # u => cmd'[w] = cmd[w]) /\ cmd'[w].par = cmd[w].par
           /\ m_vec[i].type = "COPYLIST" /\ ~cmd[u].edited =>
                 /\ m_vec'[i].num_edits = m_vec[i].num_edits + 1 /\ m_vec'[i].edited
                 /\ \A j \in DOMAIN m_vec : j # i => m_vec'[j] = m_vec[j]
           /\ ~(m_vec[i].type = "COPYLIST" /\ ~cmd[u].edited) => m_vec' = m_vec
           /\ m_num_edits' = IF Ed(m_vec[i], cmd) THEN m_num_edits ELSE m_num_edits + 1
           /\ overwrites' = overwrites + 1
<1>1. m_vec \in Seq(Entry) /\ cmd \in Seq(Command)
  BY EditTypes
<1>2. u \in DOMAIN cmd
  BY PlaceCmd
<1>3. cmd' = MarkedCmd(cmd, u)
  BY DEF Mark, MarkedCmd
<1>4. KeepsCmds(cmd, cmd') /\ \A w \in DOMAIN cmd : (w # u => cmd'[w] = cmd[w]) /\ cmd'[w].par = cmd[w].par
  BY <1>1, <1>2, <1>3, MarkCmd
<1>5. cmd'[u].edited
  BY <1>1, <1>2, <1>3, MarkCmd
<1>6. ASSUME m_vec[i].type = "COPYLIST", ~cmd[u].edited
      PROVE  /\ KeepsEntries(m_vec, m_vec')
             /\ m_vec'[i].num_edits = m_vec[i].num_edits + 1 /\ m_vec'[i].edited
             /\ \A j \in DOMAIN m_vec : j # i => m_vec'[j] = m_vec[j]
  <2>1. m_vec' = MarkedIn(m_vec, i)
    BY <1>6 DEF Mark, MarkedIn
  <2> QED
    BY <1>1, <2>1, MarkEntry
<1>7. ASSUME ~(m_vec[i].type = "COPYLIST" /\ ~cmd[u].edited)
      PROVE  KeepsEntries(m_vec, m_vec') /\ m_vec' = m_vec
  <2>1. m_vec' = m_vec
    BY <1>7 DEF Mark
  <2> QED
    BY <1>1, <2>1 DEF KeepsEntries
<1>8. m_num_edits' = (IF Ed(m_vec[i], cmd) THEN m_num_edits ELSE m_num_edits + 1) /\ overwrites' = overwrites + 1
  BY DEF Mark, is_edited, Ed, Fst
<1> QED
  BY <1>2, <1>4, <1>5, <1>6, <1>7, <1>8

LEMMA MarkShape ==
    ASSUME EditShape, Structure, NEW i \in DOMAIN m_vec, NEW k \in DOMAIN m_vec[i].subs,
           NEW u, u = m_vec[i].subs[k], Mark(i, u)
    PROVE  /\ m_vec' \in Seq(Entry) /\ Len(m_vec') = Len(m_vec) /\ cmd' \in Seq(Command) /\ Len(cmd') = Len(cmd)
           /\ m_num_edits' \in Nat
           /\ EdSendShape' /\ EdCardShape' /\ EdBoundShape'
<1>1. m_vec' \in Seq(Entry) /\ Len(m_vec') = Len(m_vec) /\ cmd' \in Seq(Command) /\ Len(cmd') = Len(cmd)
  BY Marks DEF KeepsEntries, KeepsCmds
<1>2. m_num_edits' \in Nat
  <2>1. m_num_edits' = (IF Ed(m_vec[i], cmd) THEN m_num_edits ELSE m_num_edits + 1) /\ m_num_edits \in Nat
    BY Marks, EditTypes
  <2> QED
    BY <2>1
<1>3. EdSendShape' /\ EdCardShape'
  BY <1>1, SendStays, CardStays DEF Mark, EditShape, batchVars, sendVars
<1>4. EdBoundShape'
  BY EditBounds DEF Mark, EditShape, EdBoundShape, Sending
<1> QED
  BY <1>1, <1>2, <1>3, <1>4

LEMMA MarkedShape ==
    ASSUME EditShape, Structure, NEW usr_idx \in 0 .. Len(cmd) - 1, Mark(EntryOf(usr_idx), SubOf(usr_idx))
    PROVE  /\ SubOf(usr_idx) = usr_idx + 1
           /\ m_vec' \in Seq(Entry) /\ Len(m_vec') = Len(m_vec) /\ cmd' \in Seq(Command) /\ Len(cmd') = Len(cmd)
           /\ m_num_edits' \in Nat
           /\ EdSendShape' /\ EdCardShape' /\ EdBoundShape'
           /\ UNCHANGED <<m_finalized, batch, new_list, append_kind>>
<1>1. /\ EntryOf(usr_idx) \in DOMAIN m_vec
      /\ SubOf(usr_idx) = usr_idx + 1
      /\ \E k \in DOMAIN m_vec[EntryOf(usr_idx)].subs : m_vec[EntryOf(usr_idx)].subs[k] = usr_idx + 1
  BY Finds, EditTypes, StructureTypes
<1>2. PICK k \in DOMAIN m_vec[EntryOf(usr_idx)].subs : m_vec[EntryOf(usr_idx)].subs[k] = usr_idx + 1
  BY <1>1
<1>3. UNCHANGED <<m_finalized, batch, new_list, append_kind>>
  BY DEF Mark, batchVars
<1>4. Mark(EntryOf(usr_idx), usr_idx + 1)
  BY <1>1
<1> QED
  BY <1>1, <1>2, <1>3, <1>4, MarkShape

LEMMA OverwriteShape ==
    ASSUME EditShape, Structure, NEW usr_idx \in 0 .. Len(cmd) - 1, NEW p \in Par,
           get_cmd_for_overwrite(usr_idx, p)
    PROVE  EditShape'
<1>1. Mark(EntryOf(usr_idx), SubOf(usr_idx))
  BY DEF get_cmd_for_overwrite
<1>2. over' = [u |-> usr_idx + 1, par |-> p] /\ want' = [want EXCEPT ![usr_idx + 1] = p]
  BY <1>1, MarkedShape DEF get_cmd_for_overwrite
<1>3. want' \in Seq(Par) /\ Len(want') = Len(want)
  <2>1. want \in Seq(Par) /\ usr_idx + 1 \in DOMAIN want
    BY EditTypes
  <2> QED
    BY <1>2, <2>1
<1>4. EdListShape'
  BY <1>1, <1>3, MarkedShape DEF EditShape, EdListShape
<1>5. EdUserShape'
  <2>1. usr_idx + 1 \in 0 .. Len(cmd) /\ Len(cmd') = Len(cmd) /\ append_kind' = append_kind
    BY <1>1, MarkedShape, EditTypes
  <2>2. over' \in [u : 0 .. Len(cmd'), par : Par]
    BY <1>2, <2>1
  <2> QED
    BY <2>1, <2>2 DEF EditShape, EdUserShape
<1> QED
  BY <1>1, <1>4, <1>5, MarkedShape DEF EditShape

LEMMA RefusedShape ==
    ASSUME EditShape, Structure, NEW usr_idx \in 0 .. Len(cmd) - 1, overwrite_refused(usr_idx)
    PROVE  EditShape'
<1>1. Mark(EntryOf(usr_idx), SubOf(usr_idx)) /\ UNCHANGED <<over, want>>
  BY DEF overwrite_refused
<1>2. EdListShape' /\ EdUserShape'
  BY <1>1, MarkedShape, UserStays DEF EditShape, EdListShape
<1> QED
  BY <1>1, <1>2, MarkedShape DEF EditShape

\* What an overwrite does.
LEMMA Overwrites ==
    ASSUME EditShape, overwrite
    PROVE  /\ over.u \in DOMAIN cmd /\ over.par \in Par /\ Overwritten(over.u, over.par) \in Par
           /\ KeepsCmds(cmd, cmd')
           /\ cmd'[over.u].par = Overwritten(over.u, over.par)
           /\ \A w \in DOMAIN cmd : (w # over.u => cmd'[w] = cmd[w]) /\ cmd'[w].edited = cmd[w].edited
<1>1. over \in [u : 0 .. Len(cmd), par : Par] /\ cmd \in Seq(Command) /\ over.u # 0 /\ Len(cmd) \in Nat
      /\ DOMAIN cmd = 1 .. Len(cmd)
  BY EditTypes DEF EditShape, EdUserShape, overwrite
<1>2. over.u \in DOMAIN cmd /\ over.par \in Par
  BY <1>1
<1>3. cmd[over.u].par \in Par
  <2>1. cmd[over.u] \in Command
    BY <1>1, <1>2
  <2> QED
    BY <2>1 DEF Command
<1>4. Overwritten(over.u, over.par) \in Par
  BY <1>2, <1>3 DEF Overwritten, Par
<1>5. cmd' = ParOfCmd(cmd, over.u, Overwritten(over.u, over.par))
  BY DEF overwrite, ParOfCmd
<1> QED
  BY <1>1, <1>2, <1>4, <1>5, ParCmd

LEMMA OverwritingShape ==
    ASSUME EditShape, overwrite
    PROVE  EditShape'
<1>1. cmd' \in Seq(Command) /\ Len(cmd') = Len(cmd)
  BY Overwrites DEF KeepsCmds
<1>2. EdListShape' /\ EdSendShape' /\ EdCardShape'
  BY <1>1, SendStays, CardStays DEF EditShape, EdListShape, overwrite, batchVars, sendVars
<1>3. EdUserShape'
  <2>1. append_kind' = append_kind /\ over' = [u |-> 0, par |-> First] /\ First \in Par /\ Len(cmd) \in Nat
    BY EditTypes DEF overwrite, NoOver, First, Par
  <2>2. over' \in [u : 0 .. Len(cmd'), par : Par]
    BY <1>1, <2>1
  <2> QED
    BY <1>1, <2>1, <2>2 DEF EditShape, EdUserShape
<1>4. EdBoundShape'
  BY DEF EditShape, EdBoundShape, overwrite, Sending
<1> QED
  BY <1>2, <1>3, <1>4 DEF EditShape

-----------------------------------------------------------------------------
\* Steps that leave the list and what the card knows alone.
LEMMA BeginShape ==
    ASSUME EditShape, finalize_begin \/ schedule_sends
    PROVE  EditShape'
<1>1. UNCHANGED <<listParts, batchVars, stage, pos, sub, used, page_read, userParts, card, failed, overwrites>>
  BY DEF finalize_begin, schedule_sends
<1>2. EdListShape' /\ EdUserShape' /\ EdCardShape'
  BY <1>1, ListStays, UserStays, CardStays DEF EditShape, listParts, batchVars, userParts
<1>3. EdSendShape'
  <2>1. snd' \in {"batch", "create", "schedule"}
    BY DEF finalize_begin, schedule_sends
  <2> QED
    BY <1>1, <2>1 DEF EditShape, EdSendShape, listParts, batchVars
<1>4. EdBoundShape'
  <2>1. sends < MaxSends /\ sends' = sends + 1 /\ overlapped' = (overlapped \/ over.u # 0)
    BY DEF finalize_begin, schedule_sends
  <2>2. overlapped' \in BOOLEAN
    BY <2>1
  <2>3. sends' \in 0 .. MaxSends
    BY <2>1, EditBounds DEF EditShape, EdBoundShape
  <2> QED
    BY <1>1, <2>2, <2>3 DEF EditShape, EdBoundShape
<1> QED
  BY <1>2, <1>3, <1>4 DEF EditShape

LEMMA BareShape ==
    ASSUME EditShape, send_bare
    PROVE  EditShape'
<1>1. UNCHANGED <<listParts, batchVars, sub, used, page_read, userParts, boundVars>>
  BY DEF send_bare
<1>2. EdListShape' /\ EdUserShape' /\ EdBoundShape'
  BY <1>1, ListStays, UserStays, BoundStays DEF EditShape, listParts, batchVars, userParts
<1>3. EdSendShape'
  <2>1. snd' \in {"reply", "none"} /\ stage' = "first" /\ pos' = 1 /\ Len(m_vec') \in Nat
    BY <1>1, EditTypes DEF send_bare, Sent, listParts
  <2>2. pos' \in 1 .. Len(m_vec') + 1
    BY <2>1
  <2> QED
    BY <1>1, <2>1, <2>2 DEF EditShape, EdSendShape, batchVars
<1>4. EdCardShape'
  <2>1. card' = [card EXCEPT !.announced = 0, !.entries = 0, !.left = 0, !.last = TRUE]
    BY DEF send_bare
  <2>2. IsCard(card')
    BY <2>1, EditTypes, CardBare
  <2> QED
    BY <1>1, <2>2 DEF EditShape, EdCardShape
<1> QED
  BY <1>2, <1>3, <1>4 DEF EditShape

LEMMA PageShape ==
    ASSUME EditShape, page_begin
    PROVE  EditShape'
<1>1. UNCHANGED <<listParts, batchVars, snd, pos, sub, userParts, card, boundVars>>
  BY DEF page_begin
<1>2. EdListShape' /\ EdUserShape' /\ EdBoundShape'
  BY <1>1, ListStays, UserStays, BoundStays DEF EditShape, listParts, batchVars, userParts
<1>3. EdSendShape'
  <2>1. stage' = "page" /\ used' \in Nat
    BY DEF page_begin
  <2> QED
    BY <1>1, <2>1 DEF EditShape, EdSendShape, batchVars, listParts
<1>4. EdCardShape'
  <2>1. CASE stage = "first"
    <3>1. page_read' = [card EXCEPT !.announced = m_num_edits, !.entries = 0, !.left = 0]
      BY <2>1 DEF page_begin
    <3>2. IsCard(page_read')
      BY <3>1, EditTypes, CardBegin
    <3> QED
      BY <1>1, <3>2 DEF EditShape, EdCardShape
  <2>2. CASE stage # "first"
    BY <1>1, <2>2 DEF page_begin, EditShape, EdCardShape
  <2> QED
    BY <2>1, <2>2
<1> QED
  BY <1>2, <1>3, <1>4 DEF EditShape

LEMMA SentShape ==
    ASSUME EditShape, page_sent
    PROVE  EditShape'
<1>1. UNCHANGED <<m_vec, cmd, m_finalized, batch, batchVars, userParts, boundVars>>
      /\ page_read' = Blank /\ used' = 0 /\ sub' = 0
  BY DEF page_sent, page_end
<1>2. m_num_edits' \in Nat
  <2>1. m_num_edits' = 0 \/ m_num_edits' = m_num_edits
    BY DEF page_sent, page_end
  <2> QED
    BY <2>1, EditTypes
<1>3. EdListShape' /\ EdUserShape' /\ EdBoundShape'
  BY <1>1, <1>2, UserStays, BoundStays DEF EditShape, EdListShape, batchVars, userParts
<1>4. EdSendShape'
  <2>1. CASE pos > Len(m_vec)
    <3>1. snd' \in {"reply", "none"} /\ stage' = "first" /\ pos' = 1 /\ Len(m_vec') \in Nat
      BY <1>1, <2>1, EditTypes DEF page_sent, page_end, Sent
    <3>2. pos' \in 1 .. Len(m_vec') + 1
      BY <3>1
    <3> QED
      BY <1>1, <3>1, <3>2 DEF EditShape, EdSendShape, batchVars
  <2>2. CASE ~(pos > Len(m_vec))
    <3>1. stage' = "next" /\ snd' = snd /\ pos' = pos
      BY <2>2 DEF page_sent, page_end
    <3> QED
      BY <1>1, <3>1 DEF EditShape, EdSendShape, batchVars
  <2> QED
    BY <2>1, <2>2
<1>5. EdCardShape'
  <2>1. card' = [page_read EXCEPT !.last = (pos > Len(m_vec))]
    BY DEF page_sent, page_end
  <2>2. (pos > Len(m_vec)) \in BOOLEAN
    BY EditTypes
  <2>3. IsCard(card')
    BY <2>1, <2>2, EditTypes, CardSent, Zenon
  <2> QED
    BY <1>1, <2>3, CardBlank, Zenon DEF EditShape, EdCardShape
<1> QED
  BY <1>3, <1>4, <1>5 DEF EditShape

LEMMA RefuseShape ==
    ASSUME EditShape, send_refused
    PROVE  EditShape'
<1>1. UNCHANGED <<listParts, batchVars, stage, pos, sub, used, page_read, userParts, card, boundVars>> /\ snd' = "none"
  BY DEF send_refused
<1>2. EdListShape' /\ EdUserShape' /\ EdBoundShape' /\ EdCardShape'
  BY <1>1, ListStays, UserStays, BoundStays, CardStays DEF EditShape, listParts, batchVars, userParts
<1>3. EdSendShape'
  BY <1>1 DEF EditShape, EdSendShape, batchVars, listParts
<1> QED
  BY <1>2, <1>3 DEF EditShape

LEMMA ReplyShape ==
    ASSUME EditShape, NEW ok \in BOOLEAN, finalize_reply(ok)
    PROVE  EditShape'
<1>1. UNCHANGED <<m_vec, cmd, m_num_edits, batch, batchVars, stage, pos, sub, used, page_read>>
      /\ UNCHANGED <<userParts, card, overlapped, overwrites, sends>> /\ snd' = "none" /\ m_finalized' = ok
  BY DEF finalize_reply
<1>2. EdListShape' /\ EdUserShape' /\ EdCardShape'
  BY <1>1, UserStays, CardStays DEF EditShape, EdListShape, batchVars, userParts
<1>3. EdSendShape'
  BY <1>1 DEF EditShape, EdSendShape, batchVars
<1>4. EdBoundShape'
  <2>1. failed' \in 0 .. MaxFailures
    BY EditBounds DEF finalize_reply, EditShape, EdBoundShape
  <2> QED
    BY <1>1, <2>1 DEF EditShape, EdBoundShape
<1> QED
  BY <1>2, <1>3, <1>4 DEF EditShape

-----------------------------------------------------------------------------
\* Packing is at an entry.
LEMMA AtEntry ==
    ASSUME EditShape, Packing
    PROVE  pos \in DOMAIN m_vec /\ m_vec[pos] \in Entry /\ ~PageEnds /\ stage = "page" /\ InSend
<1>1. ~PageEnds /\ stage = "page" /\ InSend /\ ~(pos > Len(m_vec))
  BY DEF Packing, PageEnds
<1>2. pos \in DOMAIN m_vec
  BY <1>1, EditTypes
<1>3. m_vec \in Seq(Entry)
  BY EditTypes
<1> QED
  BY <1>1, <1>2, <1>3

\* Which command it is at.
LEMMA AtCmd ==
    ASSUME EditShape, Structure, Stages, Packing, ~AtHeader, sub <= Len(m_vec[pos].subs)
    PROVE  \E k \in DOMAIN m_vec[pos].subs :
              /\ k = (IF sub = 0 THEN 1 ELSE sub) /\ At = m_vec[pos].subs[k] /\ At \in DOMAIN cmd
              /\ sub = 0 <=> m_vec[pos].type # "COPYLIST"
<1> DEFINE k == IF sub = 0 THEN 1 ELSE sub
<1>1. pos \in DOMAIN m_vec
  BY AtEntry
<1>2. DOMAIN m_vec[pos].subs = 1 .. Num(m_vec[pos]) /\ Num(m_vec[pos]) \in Nat /\ Num(m_vec[pos]) > 0
  BY <1>1, ChainAt, EditTypes, StructureTypes
<1>3. sub <= Num(m_vec[pos]) /\ sub \in Nat
  BY EditTypes DEF Num
<1>4. k \in DOMAIN m_vec[pos].subs
  BY <1>2, <1>3
<1>5. At = m_vec[pos].subs[k]
  BY DEF At
<1>6. At \in DOMAIN cmd
  BY <1>1, <1>4, <1>5, PlaceCmd
<1>7. sub = 0 <=> m_vec[pos].type # "COPYLIST"
  BY <1>3 DEF AtHeader, Stages
<1> QED
  BY <1>4, <1>5, <1>6, <1>7

LEMMA EditedCmd ==
    ASSUME EditShape, Packing, AtEdited, ~AtHeader
    PROVE  sub <= Len(m_vec[pos].subs) /\ cmd[At].edited
BY DEF AtEdited

LEMMA Packs ==
    ASSUME EditShape, Structure, Stages, pack_command
    PROVE  /\ Packing /\ AtEdited /\ ~AtHeader /\ sub <= Len(m_vec[pos].subs)
           /\ At \in DOMAIN cmd /\ cmd[At].edited /\ ~cmd'[At].edited
           /\ KeepsCmds(cmd, cmd')
           /\ \A w \in DOMAIN cmd : (w # At => cmd'[w] = cmd[w]) /\ cmd'[w].par = cmd[w].par
<1>1. Packing /\ AtEdited /\ ~AtHeader
  BY DEF pack_command
<1>2. sub <= Len(m_vec[pos].subs) /\ cmd[At].edited
  BY <1>1, EditedCmd
<1>3. At \in DOMAIN cmd
  BY <1>1, <1>2, AtCmd
<1>4. cmd' = PackedCmd(cmd, At)
  BY DEF pack_command, PackedCmd
<1>5. cmd \in Seq(Command)
  BY EditTypes
<1> QED
  BY <1>1, <1>2, <1>3, <1>4, <1>5, PackCmd

\* Only what is packed changes.
LEMMA PackStays ==
    ASSUME EditShape, PackKeeps, m_vec' \in Seq(Entry), Len(m_vec') = Len(m_vec),
           cmd' \in Seq(Command), Len(cmd') = Len(cmd)
    PROVE  EdListShape' /\ EdUserShape' /\ EdBoundShape'
<1>1. UNCHANGED <<m_num_edits, m_finalized, batch, batchVars, userParts, boundVars>>
  BY DEF PackKeeps
<1> QED
  BY <1>1, UserStays, BoundStays DEF EditShape, EdListShape, batchVars, userParts

LEMMA PackMoves ==
    ASSUME EditShape, PackKeeps, pos \in DOMAIN m_vec, Len(m_vec') = Len(m_vec),
           pos' = pos \/ pos' = pos + 1, sub' \in Nat, used' \in Nat
    PROVE  EdSendShape'
<1>1. UNCHANGED <<start, snd, stage>>
  BY DEF PackKeeps, batchVars
<1>2. pos' \in 1 .. Len(m_vec') + 1
  BY EditTypes
<1> QED
  BY <1>1, <1>2 DEF EditShape, EdSendShape

LEMMA PackCommandShape ==
    ASSUME EditShape, Structure, Stages, pack_command
    PROVE  EditShape'
<1>1. /\ m_vec' = m_vec /\ PackKeeps /\ used' = used + Bytes
      /\ page_read' = Read(page_read, At, IF sub = 0 THEN m_vec[pos].idx ELSE cmd[At].idx)
      /\ sub = 0 => pos' = pos + 1 /\ sub' = sub
      /\ sub # 0 => sub' = sub + 1 /\ pos' = pos
  BY DEF pack_command
<1>2. cmd' \in Seq(Command) /\ Len(cmd') = Len(cmd)
  BY Packs DEF KeepsCmds
<1>3. m_vec' \in Seq(Entry) /\ Len(m_vec') = Len(m_vec)
  BY <1>1, EditTypes
<1>4. EdListShape' /\ EdUserShape' /\ EdBoundShape'
  BY <1>1, <1>2, <1>3, PackStays
<1>5. EdSendShape'
  <2>1. used' \in Nat
    <3>1. Bytes \in Nat
      BY DEF Bytes
    <3> QED
      BY <1>1, <3>1, EditTypes
  <2>2. sub' \in Nat /\ (pos' = pos \/ pos' = pos + 1)
    BY <1>1, EditTypes
  <2>3. pos \in DOMAIN m_vec
    BY AtEntry DEF pack_command
  <2> QED
    BY <1>1, <1>3, <2>1, <2>2, <2>3, PackMoves
<1>6. EdCardShape'
  <2>1. IsCard(page_read')
    BY <1>1, EditTypes, CardRead
  <2>2. card' = card
    BY <1>1 DEF PackKeeps
  <2> QED
    BY <2>1, <2>2 DEF EditShape, EdCardShape
<1> QED
  BY <1>4, <1>5, <1>6 DEF EditShape

\* The header of a copy list.
LEMMA PacksHeader ==
    ASSUME EditShape, pack_header
    PROVE  /\ Packing /\ AtEdited /\ AtHeader
           /\ pos \in DOMAIN m_vec /\ m_vec[pos].edited /\ sub = 0 /\ m_vec[pos].type = "COPYLIST"
           /\ KeepsEntries(m_vec, m_vec')
           /\ m_vec'[pos].num_edits = m_vec[pos].num_edits /\ ~m_vec'[pos].edited
           /\ \A j \in DOMAIN m_vec : j # pos => m_vec'[j] = m_vec[j]
           /\ m_vec[pos].idx \in Nat /\ m_vec[pos].num_edits \in Nat
           /\ cmd' = cmd /\ pos' = pos /\ sub' = 1 /\ used' = used + 7 /\ PackKeeps
<1>1. Packing /\ AtEdited /\ AtHeader /\ cmd' = cmd /\ pos' = pos /\ sub' = 1 /\ used' = used + 7 /\ PackKeeps
  BY DEF pack_header
<1>2. pos \in DOMAIN m_vec /\ m_vec \in Seq(Entry)
  BY <1>1, AtEntry, EditTypes
<1>3. m_vec' = HeaderOf(m_vec, pos)
  BY DEF pack_header, HeaderOf
<1>4. m_vec[pos].edited /\ sub = 0 /\ m_vec[pos].type = "COPYLIST"
  BY <1>1 DEF AtEdited, AtHeader
<1>5. m_vec[pos].idx \in Nat /\ m_vec[pos].num_edits \in Nat
  BY <1>2, EntryType
<1> QED
  BY <1>1, <1>2, <1>3, <1>4, <1>5, HeaderEntry

LEMMA PackHeaderShape ==
    ASSUME EditShape, pack_header
    PROVE  EditShape'
<1>1. m_vec' \in Seq(Entry) /\ Len(m_vec') = Len(m_vec) /\ cmd' \in Seq(Command) /\ Len(cmd') = Len(cmd)
  BY PacksHeader, EditTypes DEF KeepsEntries
<1>2. EdListShape' /\ EdUserShape' /\ EdBoundShape'
  BY <1>1, PackStays, PacksHeader
<1>3. EdSendShape'
  BY <1>1, PackMoves, PacksHeader, EditTypes
<1>4. EdCardShape'
  <2>1. page_read' = HeaderRead(page_read, m_vec[pos].idx, m_vec[pos].num_edits)
    BY DEF pack_header, HeaderRead
  <2>4. IsCard(page_read) /\ m_vec[pos].idx \in Nat /\ m_vec[pos].num_edits \in Nat
    BY PacksHeader, EditTypes
  <2>2. IsCard(page_read')
    BY <2>1, <2>4, CardHeader
  <2>3. card' = card
    BY PacksHeader DEF PackKeeps
  <2> QED
    BY <2>2, <2>3 DEF EditShape, EdCardShape
<1> QED
  BY <1>2, <1>3, <1>4 DEF EditShape

LEMMA PackOverShape ==
    ASSUME EditShape, pack_over
    PROVE  EditShape'
<1>1. /\ Packing /\ PackKeeps /\ UNCHANGED <<m_vec, cmd, used, page_read>>
      /\ \/ pos' = pos + 1 /\ sub' = sub
         \/ sub' = sub + 1 /\ pos' = pos
  BY DEF pack_over
<1>2. pos \in DOMAIN m_vec
  BY <1>1, AtEntry
<1>3. EdListShape' /\ EdUserShape' /\ EdBoundShape'
  BY <1>1, PackStays, EditTypes
<1>4. EdSendShape'
  BY <1>1, <1>2, PackMoves, EditTypes
<1>5. EdCardShape'
  BY <1>1, CardStays DEF EditShape, PackKeeps
<1> QED
  BY <1>3, <1>4, <1>5 DEF EditShape

\* The end of a copy list.
LEMMA PacksEnd ==
    ASSUME EditShape, pack_end
    PROVE  /\ Packing /\ pos \in DOMAIN m_vec
           /\ KeepsEntries(m_vec, m_vec')
           /\ m_vec'[pos].num_edits = 0 /\ m_vec'[pos].edited = m_vec[pos].edited
           /\ \A j \in DOMAIN m_vec : j # pos => m_vec'[j] = m_vec[j]
           /\ sub > Len(m_vec[pos].subs) /\ pos' = pos + 1 /\ sub' = 0 /\ PackKeeps
           /\ UNCHANGED <<cmd, used, page_read>>
<1>1. Packing /\ sub > Len(m_vec[pos].subs) /\ pos' = pos + 1 /\ sub' = 0 /\ PackKeeps
      /\ UNCHANGED <<cmd, used, page_read>>
  BY DEF pack_end
<1>2. pos \in DOMAIN m_vec /\ m_vec \in Seq(Entry)
  BY <1>1, AtEntry, EditTypes
<1>3. m_vec' = EndOf(m_vec, pos)
  BY DEF pack_end, EndOf
<1> QED
  BY <1>1, <1>2, <1>3, EndEntry

LEMMA PackEndShape ==
    ASSUME EditShape, pack_end
    PROVE  EditShape'
<1>1. m_vec' \in Seq(Entry) /\ Len(m_vec') = Len(m_vec) /\ cmd' \in Seq(Command) /\ Len(cmd') = Len(cmd)
  BY PacksEnd, EditTypes DEF KeepsEntries
<1>2. EdListShape' /\ EdUserShape' /\ EdBoundShape'
  BY <1>1, PackStays, PacksEnd
<1>3. EdSendShape'
  BY <1>1, PackMoves, PacksEnd, EditTypes
<1>4. EdCardShape'
  BY CardStays, PacksEnd DEF EditShape, PackKeeps
<1> QED
  BY <1>2, <1>3, <1>4 DEF EditShape

\* A send that fails: nothing counts as edited any more.
LEMMA Fails ==
    ASSUME EditShape, send_fail
    PROVE  /\ KeepsEntries(m_vec, m_vec') /\ (\A i \in DOMAIN m_vec : m_vec'[i].num_edits = 0 /\ ~m_vec'[i].edited)
           /\ KeepsCmds(cmd, cmd') /\ (\A u \in DOMAIN cmd : cmd'[u].par = cmd[u].par)
           /\ m_num_edits' = 0 /\ snd' = "none" /\ stage' = "first" /\ pos' = 1 /\ sub' = 0 /\ used' = 0
           /\ failed < MaxFailures /\ failed' = failed + 1 /\ page_read' = Blank /\ InSend
           /\ UNCHANGED <<m_finalized, batch, batchVars, userParts, card, overlapped, overwrites, sends>>
<1> DEFINE S == {u \in DOMAIN cmd : \E i \in DOMAIN m_vec :
                    /\ m_vec[i].type = "COPYLIST" /\ m_vec[i].num_edits = 0
                    /\ \E k \in DOMAIN m_vec[i].subs : m_vec[i].subs[k] = u}
<1>1. m_vec' = ClearedOf(m_vec)
  BY DEF send_fail, ClearedOf
<1>2. KeepsEntries(m_vec, m_vec') /\ (\A i \in DOMAIN m_vec : m_vec'[i].num_edits = 0 /\ ~m_vec'[i].edited)
  BY <1>1, EditTypes, ClearedEntries
<1>3. cmd' = UnmarkedCmds(cmd, S)
  BY DEF send_fail, UnmarkedCmds
<1>4. KeepsCmds(cmd, cmd') /\ (\A u \in DOMAIN cmd : cmd'[u].par = cmd[u].par)
  BY <1>3, EditTypes, ClearedCmds
<1>5. /\ m_num_edits' = 0 /\ snd' = "none" /\ stage' = "first" /\ pos' = 1 /\ sub' = 0 /\ used' = 0
      /\ failed < MaxFailures /\ failed' = failed + 1 /\ page_read' = Blank /\ InSend
      /\ UNCHANGED <<m_finalized, batch, batchVars, userParts, card, overlapped, overwrites, sends>>
  BY DEF send_fail
<1> QED
  BY <1>2, <1>4, <1>5

LEMMA FailShape ==
    ASSUME EditShape, send_fail
    PROVE  EditShape'
<1>1. m_vec' \in Seq(Entry) /\ Len(m_vec') = Len(m_vec) /\ cmd' \in Seq(Command) /\ Len(cmd') = Len(cmd)
  BY Fails DEF KeepsEntries, KeepsCmds
<1>2. EdListShape'
  BY <1>1, Fails DEF EditShape, EdListShape, batchVars, userParts
<1>3. EdSendShape'
  <2>1. pos' \in 1 .. Len(m_vec') + 1
    BY <1>1, Fails, EditTypes
  <2> QED
    BY <2>1, Fails DEF EditShape, EdSendShape, batchVars
<1>4. EdUserShape'
  BY <1>1, UserStays, Fails DEF EditShape, userParts
<1>5. EdCardShape'
  BY Fails, CardBlank, Zenon DEF EditShape, EdCardShape
<1>6. EdBoundShape'
  BY Fails, EditBounds DEF EditShape, EdBoundShape
<1> QED
  BY <1>2, <1>3, <1>4, <1>5, <1>6 DEF EditShape

-----------------------------------------------------------------------------
\* What the entries are, outside of the batching.
LEMMA EmptyChain == Chain(<<>>, 0) /\ \A c, o : VecOK(<<>>, c, o)
BY DEF Chain, VecOK

\* The commands of the entries before entry i.
LEMMA UptoIs ==
    ASSUME NEW vec \in Seq(Entry), NEW n \in Nat, Chain(vec, n), NEW i \in Nat, 1 <= i
    PROVE  Upto(vec, n, i) \in Nat /\ Upto(vec, n, i) <= n /\ Upto(vec, n, 1) = 0
<1>0. Len(vec) \in Nat /\ DOMAIN vec = 1 .. Len(vec)
  OBVIOUS
<1>1. Upto(vec, n, i) \in Nat /\ Upto(vec, n, i) <= n
  <2>1. CASE i > Len(vec)
    BY <2>1 DEF Upto
  <2>2. CASE ~(i > Len(vec))
    <3>1. i \in DOMAIN vec
      BY <1>0, <2>2
    <3>2. i <= Fst(vec[i]) /\ Fst(vec[i]) \in Nat /\ Num(vec[i]) \in Nat /\ Fst(vec[i]) + Num(vec[i]) <= n + 1
          /\ Num(vec[i]) > 0
      BY <3>1, ChainAt
    <3>3. Upto(vec, n, i) = Fst(vec[i]) - 1
      BY <2>2 DEF Upto
    <3> QED
      BY <3>2, <3>3
  <2> QED
    BY <2>1, <2>2
<1>2. Upto(vec, n, 1) = 0
  <2>1. CASE Len(vec) = 0
    BY <1>0, <2>1 DEF Upto, Chain
  <2>2. CASE Len(vec) # 0
    <3>1. 1 \in DOMAIN vec /\ ~(1 > Len(vec))
      BY <1>0, <2>2
    <3>2. Fst(vec[1]) = 1
      BY <3>1, ChainAt
    <3> QED
      BY <3>1, <3>2 DEF Upto
  <2> QED
    BY <2>1, <2>2
<1> QED
  BY <1>1, <1>2

LEMMA StructOut ==
    ASSUME EditShape', Chain(m_vec', Len(cmd')), VecOK(m_vec', cmd', overwrites'),
           m_num_edits' <= Len(m_vec') + overwrites',
           new_list' = <<>>, start' = 0, snd' = "batch" => pos' = 1
    PROVE  Structure'
<1>1. m_vec' \in Seq(Entry) /\ Len(cmd') \in Nat
  BY DEF EditShape, EdListShape
<1>2. Chain(new_list', IF snd' = "batch" THEN Upto(m_vec', Len(cmd'), From') ELSE 0)
  <2>1. CASE snd' = "batch"
    <3>1. From' = 1
      BY <2>1 DEF From
    <3>2. Upto(m_vec', Len(cmd'), 1) = 0
      BY <1>1, UptoIs
    <3> QED
      BY <2>1, <3>1, <3>2, EmptyChain
  <2>2. CASE snd' # "batch"
    BY <2>2, EmptyChain
  <2> QED
    BY <2>1, <2>2
<1>3. VecOK(new_list', cmd', overwrites')
  BY EmptyChain
<1>4. Run(m_vec', cmd', start', pos')
  BY DEF Run
<1> QED
  BY <1>2, <1>3, <1>4 DEF Structure

\* A step outside of the batching that leaves the entries what they are.
LEMMA StructKeeps ==
    ASSUME EditShape, EditShape', Structure, Stages, snd # "batch", UNCHANGED batchVars, snd' = "batch" => pos' = 1,
           KeepsEntries(m_vec, m_vec'), KeepsCmds(cmd, cmd'),
           \A i \in DOMAIN m_vec :
               \/ (m_vec'[i].num_edits = m_vec[i].num_edits /\ overwrites <= overwrites')
               \/ m_vec'[i].num_edits = 0
               \/ (m_vec[i].type = "COPYLIST" /\ m_vec'[i].num_edits = m_vec[i].num_edits + 1
                   /\ overwrites' = overwrites + 1),
           m_num_edits' <= Len(m_vec) + overwrites'
    PROVE  Structure'
<1>1. m_vec \in Seq(Entry) /\ cmd \in Seq(Command) /\ Len(cmd) \in Nat /\ overwrites \in Nat /\ Len(cmd) <= Len(cmd)
  BY EditTypes
<1>2. overwrites' \in Nat
  BY EditBounds DEF EditShape, EdBoundShape
<1>3. Chain(m_vec, Len(cmd)) /\ VecOK(m_vec, cmd, overwrites)
  BY StructureTypes
<1>4. Chain(m_vec', Len(cmd)) /\ VecOK(m_vec', cmd', overwrites')
  BY <1>1, <1>2, <1>3, VecKeeps
<1>5. Len(cmd') = Len(cmd) /\ Len(m_vec') = Len(m_vec)
  BY DEF KeepsEntries, KeepsCmds
<1>6. new_list' = <<>> /\ start' = 0
  BY DEF Stages, batchVars
<1> QED
  BY <1>4, <1>5, <1>6, StructOut

LEMMA KeepsSame ==
    ASSUME EditShape
    PROVE  (m_vec' = m_vec => KeepsEntries(m_vec, m_vec')) /\ (cmd' = cmd => KeepsCmds(cmd, cmd'))
<1>1. m_vec \in Seq(Entry) /\ cmd \in Seq(Command)
  BY EditTypes
<1> QED
  BY <1>1 DEF KeepsEntries, KeepsCmds

LEMMA SendStructure ==
    ASSUME EditShape, EditShape', Structure, Stages,
           finalize_begin \/ schedule_sends \/ send_bare \/ page_begin \/ page_sent \/ send_refused
           \/ (\E ok \in BOOLEAN : finalize_reply(ok)) \/ pack_over
    PROVE  Structure'
<1>1. UNCHANGED <<m_vec, cmd, batchVars, overwrites>> /\ (m_num_edits' = m_num_edits \/ m_num_edits' = 0)
  BY DEF finalize_begin, schedule_sends, send_bare, page_begin, page_sent, page_end, send_refused, finalize_reply,
         pack_over, PackKeeps, listParts, boundVars
<1>2. snd # "batch"
  BY DEF finalize_begin, schedule_sends, send_bare, page_begin, page_sent, page_end, send_refused, finalize_reply,
         pack_over, Packing, InSend, Sending
<1>3. snd' = "batch" => pos' = 1
  <2>1. CASE finalize_begin
    BY <2>1 DEF finalize_begin, Stages, Sending, InSend
  <2>2. CASE ~finalize_begin
    <3>1. snd' # "batch"
      BY <1>2, <2>2 DEF schedule_sends, send_bare, page_begin, page_sent, page_end, send_refused, finalize_reply,
         pack_over, PackKeeps, Sent
    <3> QED
      BY <3>1
  <2> QED
    BY <2>1, <2>2
<1>4. KeepsEntries(m_vec, m_vec') /\ KeepsCmds(cmd, cmd')
  BY <1>1, KeepsSame
<1>5. m_num_edits' <= Len(m_vec) + overwrites'
  <2>1. m_num_edits <= Len(m_vec) + overwrites /\ Len(m_vec) \in Nat /\ overwrites \in Nat
    BY EditTypes DEF Structure
  <2>2. overwrites' = overwrites
    BY <1>1
  <2>3. 0 <= Len(m_vec) + overwrites
    BY <2>1
  <2> QED
    BY <1>1, <2>1, <2>2, <2>3
<1>6. \A i \in DOMAIN m_vec : m_vec'[i].num_edits = m_vec[i].num_edits /\ overwrites <= overwrites'
  BY <1>1, EditTypes
<1> QED
  BY <1>1, <1>2, <1>3, <1>4, <1>5, <1>6, StructKeeps

LEMMA PackStructure ==
    ASSUME EditShape, EditShape', Structure, Stages, pack_command \/ pack_header \/ pack_end \/ send_fail
    PROVE  Structure'
<1>1. UNCHANGED <<batchVars, overwrites>> /\ (m_num_edits' = m_num_edits \/ m_num_edits' = 0)
  BY DEF pack_command, pack_header, pack_end, PackKeeps, send_fail, boundVars
<1>2. snd # "batch" /\ snd' # "batch"
  BY DEF pack_command, pack_header, pack_end, PackKeeps, send_fail, Packing, InSend
<1>3. KeepsEntries(m_vec, m_vec') /\ KeepsCmds(cmd, cmd')
  <2>1. CASE pack_command
    BY <2>1, Packs, KeepsSame DEF pack_command
  <2>2. CASE pack_header
    BY <2>2, PacksHeader, KeepsSame
  <2>3. CASE pack_end
    BY <2>3, PacksEnd, KeepsSame
  <2>4. CASE send_fail
    BY <2>4, Fails
  <2> QED
    BY <2>1, <2>2, <2>3, <2>4
<1>4. \A i \in DOMAIN m_vec : m_vec'[i].num_edits = m_vec[i].num_edits \/ m_vec'[i].num_edits = 0
  <2>1. CASE pack_command
    BY <2>1 DEF pack_command
  <2>2. CASE pack_header
    BY <2>2, PacksHeader
  <2>3. CASE pack_end
    BY <2>3, PacksEnd
  <2>4. CASE send_fail
    BY <2>4, Fails
  <2> QED
    BY <2>1, <2>2, <2>3, <2>4
<1>5. m_num_edits' <= Len(m_vec) + overwrites'
  <2>1. m_num_edits <= Len(m_vec) + overwrites /\ Len(m_vec) \in Nat /\ overwrites \in Nat
    BY EditTypes DEF Structure
  <2>2. overwrites' = overwrites
    BY <1>1
  <2>3. 0 <= Len(m_vec) + overwrites
    BY <2>1
  <2> QED
    BY <1>1, <2>1, <2>2, <2>3
<1>6. overwrites <= overwrites'
  BY <1>1, EditTypes
<1> QED
  BY <1>1, <1>2, <1>3, <1>4, <1>5, <1>6, StructKeeps

LEMMA MarkStructure ==
    ASSUME EditShape, EditShape', Structure, Stages, NEW usr_idx \in 0 .. Len(cmd) - 1,
           Mark(EntryOf(usr_idx), SubOf(usr_idx))
    PROVE  Structure'
<1> DEFINE i == EntryOf(usr_idx)
           u == usr_idx + 1
<1>1. i \in DOMAIN m_vec /\ SubOf(usr_idx) = u /\ \E k \in DOMAIN m_vec[i].subs : m_vec[i].subs[k] = u
  BY Finds, EditTypes, StructureTypes
<1>2. PICK k \in DOMAIN m_vec[i].subs : m_vec[i].subs[k] = u
  BY <1>1
<1>3. Mark(i, u)
  BY <1>1
<1> HIDE DEF i, u
<1>4. /\ KeepsEntries(m_vec, m_vec') /\ KeepsCmds(cmd, cmd')
      /\ m_vec[i].type = "COPYLIST" /\ ~cmd[u].edited =>
            /\ m_vec'[i].num_edits = m_vec[i].num_edits + 1
            /\ \A j \in DOMAIN m_vec : j # i => m_vec'[j] = m_vec[j]
      /\ ~(m_vec[i].type = "COPYLIST" /\ ~cmd[u].edited) => m_vec' = m_vec
      /\ m_num_edits' = IF Ed(m_vec[i], cmd) THEN m_num_edits ELSE m_num_edits + 1
      /\ overwrites' = overwrites + 1
  BY <1>1, <1>2, <1>3, Marks
<1>5. snd # "batch" /\ snd' = snd /\ UNCHANGED batchVars
  BY DEF Mark, Locked, sendVars
<1>6. m_num_edits' <= Len(m_vec) + overwrites'
  <2>1. m_num_edits <= Len(m_vec) + overwrites /\ Len(m_vec) \in Nat /\ overwrites \in Nat /\ m_num_edits \in Nat
    BY EditTypes DEF Structure
  <2>2. m_num_edits' = m_num_edits \/ m_num_edits' = m_num_edits + 1
    BY <1>4
  <2> QED
    BY <1>4, <2>1, <2>2
<1>7. overwrites <= overwrites'
  BY <1>4, EditTypes
<1>8. \A j \in DOMAIN m_vec :
         \/ m_vec'[j].num_edits = m_vec[j].num_edits
         \/ (m_vec[j].type = "COPYLIST" /\ m_vec'[j].num_edits = m_vec[j].num_edits + 1)
  BY <1>4
<1> QED
  BY <1>4, <1>5, <1>6, <1>7, <1>8, StructKeeps

LEMMA AppendStructure ==
    ASSUME EditShape, EditShape', Structure, Stages, NEW p \in Par, append(p)
    PROVE  Structure'
<1> DEFINE n == Len(cmd)
           e == m_vec'[Len(m_vec) + 1]
<1>1. m_vec \in Seq(Entry) /\ n \in Nat /\ Chain(m_vec, n) /\ VecOK(m_vec, cmd, overwrites)
      /\ DOMAIN cmd = 1 .. n
  BY EditTypes, StructureTypes
<1>2. /\ e \in Entry /\ e.subs = <<n + 1>> /\ e.idx = Len(m_vec) /\ e.num_edits = 0
      /\ e.type = IF append_kind = "infreq" THEN "INFREQ" ELSE "COPY"
      /\ m_vec' = Append(m_vec, e)
      /\ cmd'[n + 1] = [kind |-> append_kind, par |-> p, edited |-> TRUE, idx |-> 0]
      /\ Len(cmd') = n + 1 /\ \A u \in DOMAIN cmd : cmd'[u] = cmd[u]
  BY Appends
<1> HIDE DEF e
<1>3. Num(e) = 1 /\ Fst(e) = n + 1 /\ Consecutive(e)
  BY <1>1, <1>2 DEF Num, Fst, Consecutive
<1>4. Chain(m_vec', n + Num(e))
  BY <1>1, <1>2, <1>3, ChainAppend
<1>5. Chain(m_vec', Len(cmd'))
  BY <1>2, <1>3, <1>4
<1>6. /\ DOMAIN m_vec = 1 .. Len(m_vec) /\ DOMAIN m_vec' = 1 .. Len(m_vec) + 1 /\ Len(m_vec) \in Nat
      /\ \A i \in DOMAIN m_vec : m_vec'[i] = m_vec[i]
      /\ Len(m_vec') = Len(m_vec) + 1
  BY Appends
<1>7. overwrites' = overwrites /\ overwrites \in Nat /\ m_num_edits' = m_num_edits + 1 /\ m_num_edits \in Nat
      /\ snd # "batch" /\ snd' = snd /\ UNCHANGED batchVars
  BY EditTypes DEF append, Locked, sendVars
<1>8. ASSUME NEW i \in DOMAIN m_vec' PROVE EntryOK(m_vec'[i], cmd', overwrites')
  <2>1. CASE i \in DOMAIN m_vec
    <3>1. EntryOK(m_vec[i], cmd, overwrites) /\ m_vec'[i] = m_vec[i]
      BY <1>1, <1>6, <2>1 DEF VecOK
    <3>2. \A k \in DOMAIN m_vec[i].subs : cmd'[m_vec[i].subs[k]] = cmd[m_vec[i].subs[k]]
      BY <1>2, <2>1, PlaceCmd
    <3>3. /\ Num(m_vec[i]) \in Nat /\ Num(m_vec[i]) > 0 /\ DOMAIN m_vec[i].subs = 1 .. Num(m_vec[i])
      BY <1>1, <2>1, ChainAt
    <3>4. m_vec[i].type # "COPYLIST" => 1 \in DOMAIN m_vec[i].subs /\ m_vec[i].num_edits = 0
      BY <3>1, <3>3 DEF EntryOK
    <3>5. m_vec[i].type = "COPYLIST" => m_vec[i].num_edits <= Num(m_vec[i]) + overwrites
      BY <3>1 DEF EntryOK
    <3>6. EntryOK(m_vec[i], cmd', overwrites)
      BY <3>1, <3>2, <3>4, <3>5, EntrySame
    <3> QED
      BY <1>7, <3>1, <3>6
  <2>2. CASE i = Len(m_vec) + 1
    <3>1. m_vec'[i] = e
      BY <2>2 DEF e
    <3>2. cmd'[n + 1].kind = append_kind
      BY <1>2
    <3>3. e.type # "COPYLIST" /\ (e.type = "COPY" <=> append_kind # "infreq")
      BY <1>2
    <3> QED
      BY <1>2, <1>3, <3>1, <3>2, <3>3 DEF EntryOK
  <2> QED
    BY <1>6, <2>1, <2>2
<1>9. VecOK(m_vec', cmd', overwrites')
  BY <1>8 DEF VecOK
<1>10. m_num_edits' <= Len(m_vec') + overwrites'
  <2>1. m_num_edits <= Len(m_vec) + overwrites
    BY DEF Structure
  <2> QED
    BY <1>6, <1>7, <2>1
<1>11. new_list' = <<>> /\ start' = 0
  BY <1>7 DEF Stages, batchVars
<1> QED
  BY <1>5, <1>7, <1>9, <1>10, <1>11, StructOut

-----------------------------------------------------------------------------
\* Where a batch stands.
LEMMA FromIs ==
    ASSUME EditShape, Structure
    PROVE  From \in Nat /\ 1 <= From
           /\ Upto(m_vec, Len(cmd), From) \in Nat /\ Upto(m_vec, Len(cmd), From) <= Len(cmd)
<1>1. From \in Nat /\ 1 <= From
  BY EditTypes DEF From
<1> QED
  BY <1>1, UptoIs, EditTypes, StructureTypes

LEMMA RunSame ==
    ASSUME NEW vec \in Seq(Entry), NEW c, NEW d, NEW s \in Nat, NEW p \in Nat, Run(vec, c, s, p), KeepsCmds(c, d),
           \A i \in DOMAIN vec : Fst(vec[i]) \in DOMAIN c
    PROVE  Run(vec, d, s, p)
<1> SUFFICES ASSUME s # 0 PROVE Run(vec, d, s, p)
  BY DEF Run
<1>1. /\ s < p /\ p <= Len(vec) /\ p - s <= MaxBatch
      /\ \A k \in s .. p - 1 : vec[k].type = "COPY" /\ Fst(vec[k]) = Fst(vec[s]) + k - s
  BY DEF Run
<1>2. PICK kind \in {"h2c", "c2h"} : \A k \in s .. p - 1 : c[Fst(vec[k])].kind = kind
  BY DEF Run
<1>3. \A k \in s .. p - 1 : k \in DOMAIN vec
  BY <1>1
<1>4. \A k \in s .. p - 1 : d[Fst(vec[k])].kind = kind
  BY <1>2, <1>3 DEF KeepsCmds
<1>5. \E kd \in {"h2c", "c2h"} : \A k \in s .. p - 1 : d[Fst(vec[k])].kind = kd
  BY <1>4
<1> QED
  BY <1>1, <1>5 DEF Run

\* The first command of an entry.
LEMMA FirstCmd ==
    ASSUME EditShape, Structure, NEW i \in DOMAIN m_vec
    PROVE  Fst(m_vec[i]) \in DOMAIN cmd /\ 1 \in DOMAIN m_vec[i].subs /\ Fst(m_vec[i]) = m_vec[i].subs[1]
<1>1. Num(m_vec[i]) \in Nat /\ Num(m_vec[i]) > 0 /\ DOMAIN m_vec[i].subs = 1 .. Num(m_vec[i])
  BY ChainAt, EditTypes, StructureTypes
<1>2. 1 \in DOMAIN m_vec[i].subs
  BY <1>1
<1> QED
  BY <1>2, PlaceCmd DEF Fst

LEMMA OverwriteStructure ==
    ASSUME EditShape, EditShape', Structure, overwrite
    PROVE  Structure'
<1>1. UNCHANGED <<m_vec, m_num_edits, new_list, start, snd, pos, overwrites>>
  BY DEF overwrite, batchVars, sendVars
<1>2. KeepsCmds(cmd, cmd') /\ Len(cmd') = Len(cmd)
  BY Overwrites DEF KeepsCmds
<1>3. m_vec \in Seq(Entry) /\ new_list \in Seq(Entry) /\ cmd \in Seq(Command) /\ Len(cmd) \in Nat
      /\ overwrites \in Nat /\ Len(cmd) <= Len(cmd) /\ overwrites <= overwrites /\ start \in Nat /\ pos \in Nat
  BY EditTypes
<1>4. KeepsEntries(m_vec, m_vec) /\ KeepsEntries(new_list, new_list)
  BY <1>3 DEF KeepsEntries
<1>5. Chain(m_vec, Len(cmd)) /\ VecOK(m_vec, cmd', overwrites)
  BY <1>2, <1>3, <1>4, StructureTypes, VecKeeps
<1> DEFINE n == IF snd = "batch" THEN Upto(m_vec, Len(cmd), From) ELSE 0
<1>6. n \in Nat /\ n <= Len(cmd)
  BY <1>3, FromIs
<1>7. Chain(new_list, n) /\ VecOK(new_list, cmd, overwrites) /\ Run(m_vec, cmd, start, pos)
      /\ m_num_edits <= Len(m_vec) + overwrites
  BY DEF Structure
<1> HIDE DEF n
<1>8. VecOK(new_list, cmd', overwrites)
  BY <1>2, <1>3, <1>4, <1>6, <1>7, VecKeeps
<1>9. Run(m_vec, cmd', start, pos)
  BY <1>2, <1>3, <1>7, FirstCmd, RunSame
<1>10. Chain(new_list, IF snd = "batch" THEN Upto(m_vec, Len(cmd'), IF start = 0 THEN pos ELSE start) ELSE 0)
  BY <1>2, <1>7 DEF n, From
<1> QED
  BY <1>1, <1>2, <1>5, <1>7, <1>8, <1>9, <1>10 DEF Structure, From

LEMMA AppendTestStructure ==
    ASSUME Structure, NEW kind, append_test(kind)
    PROVE  Structure'
<1>1. UNCHANGED <<m_vec, cmd, m_num_edits, new_list, start, snd, pos, overwrites>>
  BY DEF append_test, listParts, batchVars, sendVars, boundVars
<1> QED
  BY <1>1 DEF Structure, From

-----------------------------------------------------------------------------
\* The stages, outside of the batching.
StageFlags ==
    /\ snd \in {"batch", "create", "reply"} => ~m_finalized
    /\ snd = "schedule" => m_finalized
    /\ snd # "batch" => new_list = <<>> /\ start = 0
StageFirst ==
    /\ stage # "first" => InSend
    /\ stage = "first" /\ snd # "batch" => pos = 1
StagePage ==
    /\ stage # "page" => sub = 0 /\ used = 0
    /\ used <= PageSize
StageSub == sub > 0 => pos <= Len(m_vec) /\ m_vec[pos].type = "COPYLIST" /\ sub <= Len(m_vec[pos].subs) + 1
LEMMA StageParts == Stages <=> StageFlags /\ StageFirst /\ StagePage /\ StageSub
BY DEF Stages, StageFlags, StageFirst, StagePage, StageSub

LEMMA StagesKeep ==
    ASSUME EditShape, Stages, KeepsEntries(m_vec, m_vec') \/ (\E e : m_vec' = Append(m_vec, e)),
           UNCHANGED <<snd, stage, pos, sub, used, batchVars, m_finalized>>
    PROVE  Stages'
<1>1. StageFlags' /\ StageFirst' /\ StagePage'
  BY StageParts DEF StageFlags, StageFirst, StagePage, InSend, batchVars
<1>2. StageSub'
  <2> SUFFICES ASSUME sub > 0
               PROVE  pos <= Len(m_vec') /\ m_vec'[pos].type = "COPYLIST" /\ sub <= Len(m_vec'[pos].subs) + 1
    BY DEF StageSub
  <2>1. pos <= Len(m_vec) /\ m_vec[pos].type = "COPYLIST" /\ sub <= Len(m_vec[pos].subs) + 1
    BY StageParts DEF StageSub
  <2>2. m_vec \in Seq(Entry) /\ pos \in DOMAIN m_vec /\ pos \in Nat /\ Len(m_vec) \in Nat
    BY <2>1, EditTypes
  <2>3. CASE KeepsEntries(m_vec, m_vec')
    BY <2>1, <2>2, <2>3 DEF KeepsEntries
  <2>4. ASSUME NEW e, m_vec' = Append(m_vec, e) PROVE pos <= Len(m_vec') /\ m_vec'[pos] = m_vec[pos]
    BY <2>1, <2>2, <2>4
  <2> QED
    BY <2>1, <2>3, <2>4
<1> QED
  BY <1>1, <1>2, StageParts, PTL

\* Nothing is being packed.
LEMMA StagesOut ==
    ASSUME StageFlags', StageFirst', sub' = 0, used' = 0
    PROVE  Stages'
<1>1. StagePage' /\ StageSub'
  BY EditBounds DEF StagePage, StageSub
<1> QED
  BY <1>1, StageParts, PTL

LEMMA SendStages ==
    ASSUME EditShape, Stages,
           finalize_begin \/ schedule_sends \/ send_bare \/ send_refused \/ (\E ok \in BOOLEAN : finalize_reply(ok))
           \/ send_fail
    PROVE  Stages'
<1>1. snd # "batch" /\ new_list = <<>> /\ start = 0 /\ UNCHANGED batchVars
  BY DEF finalize_begin, schedule_sends, send_bare, send_refused, finalize_reply, send_fail, Stages, Sending, InSend
<1>2. CASE finalize_begin \/ schedule_sends
  <2>1. UNCHANGED <<m_finalized, stage, pos, sub, used>> /\ ~InSend
    BY <1>2 DEF finalize_begin, schedule_sends, listParts, Sending, InSend
  <2>2. stage = "first" /\ pos = 1 /\ sub = 0 /\ used = 0
    BY <1>1, <2>1 DEF Stages, InSend
  <2>3. StageFlags'
    BY <1>1, <1>2, <2>1 DEF StageFlags, batchVars, finalize_begin, schedule_sends
  <2>4. StageFirst'
    BY <2>1, <2>2 DEF StageFirst
  <2> QED
    BY <2>1, <2>2, <2>3, <2>4, StagesOut
<1>3. CASE send_bare \/ send_refused
  <2>1. /\ UNCHANGED <<m_finalized, sub, used>> /\ stage = "first" /\ stage' = "first" /\ InSend
        /\ pos' = 1 \/ pos' = pos
        /\ snd' = "none" \/ (snd = "create" /\ snd' = "reply")
    BY <1>3 DEF send_bare, send_refused, Sent, listParts
  <2>2. pos = 1 /\ sub = 0 /\ used = 0
    BY <1>1, <2>1 DEF Stages
  <2>3. StageFlags'
    BY <1>1, <2>1 DEF StageFlags, batchVars, Stages
  <2>4. StageFirst'
    BY <2>1, <2>2 DEF StageFirst
  <2> QED
    BY <2>1, <2>2, <2>3, <2>4, StagesOut
<1>4. CASE \E ok \in BOOLEAN : finalize_reply(ok)
  <2>1. UNCHANGED <<stage, pos, sub, used>> /\ snd = "reply" /\ snd' = "none"
    BY <1>4 DEF finalize_reply
  <2>2. stage = "first" /\ pos = 1 /\ sub = 0 /\ used = 0
    BY <1>1, <2>1 DEF Stages, InSend
  <2>3. StageFlags'
    BY <1>1, <2>1 DEF StageFlags, batchVars
  <2>4. StageFirst'
    BY <2>1, <2>2 DEF StageFirst
  <2> QED
    BY <2>1, <2>2, <2>3, <2>4, StagesOut
<1>5. CASE send_fail
  <2>1. snd' = "none" /\ stage' = "first" /\ pos' = 1 /\ sub' = 0 /\ used' = 0
    BY <1>5 DEF send_fail
  <2>2. StageFlags'
    BY <1>1, <2>1 DEF StageFlags, batchVars
  <2>3. StageFirst'
    BY <2>1 DEF StageFirst
  <2> QED
    BY <2>1, <2>2, <2>3, StagesOut
<1> QED
  BY <1>2, <1>3, <1>4, <1>5

LEMMA PageStages ==
    ASSUME EditShape, Stages, page_begin \/ page_sent
    PROVE  Stages'
<1>1. snd # "batch" /\ new_list = <<>> /\ start = 0 /\ UNCHANGED <<batchVars, m_finalized, m_vec>> /\ InSend
  BY DEF page_begin, page_sent, page_end, Stages, InSend, listParts
<1>2. StageFlags'
  <2>1. snd' = snd \/ snd' = "none" \/ (snd = "create" /\ snd' = "reply")
    BY DEF page_begin, page_sent, page_end, Sent
  <2> QED
    BY <1>1, <2>1 DEF StageFlags, batchVars, Stages
<1>3. CASE page_begin
  <2>1. snd' = snd /\ stage' = "page" /\ stage # "page" /\ pos' = pos /\ sub' = sub /\ (used' = 4 \/ used' = 0)
    BY <1>3 DEF page_begin
  <2>2. sub = 0
    BY <2>1 DEF Stages
  <2>3. StageFirst' /\ StagePage' /\ StageSub'
    BY <1>1, <2>1, <2>2, EditBounds DEF StageFirst, StagePage, StageSub, InSend
  <2> QED
    BY <1>2, <2>3, StageParts, PTL
<1>4. CASE page_sent
  <2>1. sub' = 0 /\ used' = 0 /\ ((stage' = "first" /\ pos' = 1) \/ (stage' = "next" /\ snd' = snd))
    BY <1>4 DEF page_sent, page_end, Sent
  <2>2. StageFirst'
    BY <1>1, <2>1 DEF StageFirst, InSend
  <2> QED
    BY <1>2, <2>1, <2>2, StagesOut
<1> QED
  BY <1>3, <1>4

LEMMA PackStages ==
    ASSUME EditShape, Structure, Stages, Pack
    PROVE  Stages'
<1>1. /\ UNCHANGED <<batchVars, m_finalized, snd, stage>> /\ stage = "page" /\ InSend /\ Packing
      /\ pos \in DOMAIN m_vec /\ m_vec \in Seq(Entry) /\ used <= PageSize
  BY AtEntry, EditTypes DEF Pack, pack_command, pack_header, pack_over, pack_end, PackKeeps, Stages
<1>2. StageFlags' /\ StageFirst'
  BY <1>1 DEF StageFlags, StageFirst, Stages, batchVars, InSend
<1>3. KeepsEntries(m_vec, m_vec')
  BY <1>1, PacksHeader, PacksEnd, KeepsSame DEF Pack, pack_command, pack_over
<1>4. pos \in Nat /\ sub \in Nat /\ used \in Nat /\ pos <= Len(m_vec)
  BY <1>1, EditTypes
<1>5. StagePage'
  <2>1. used' <= PageSize
    <3>1. CASE used' = used
      BY <1>1, <3>1
    <3>2. CASE used' # used
      <4>1. AtEdited /\ ~PageEnds /\ used' = used + Bytes
        BY <1>1, <3>2, AtEntry DEF Pack, pack_command, pack_header, pack_over, pack_end, Bytes
      <4>2. ~(used + Bytes > PageSize) /\ Bytes \in Nat
        BY <4>1 DEF PageEnds, Bytes
      <4> QED
        BY <1>4, <4>1, <4>2, EditBounds
    <3> QED
      BY <3>1, <3>2
  <2> QED
    BY <1>1, <2>1 DEF StagePage
<1>6. StageSub'
  <2> SUFFICES ASSUME sub' > 0
               PROVE  pos' <= Len(m_vec') /\ m_vec'[pos'].type = "COPYLIST" /\ sub' <= Len(m_vec'[pos'].subs) + 1
    BY DEF StageSub
  <2>1. sub' > 0 => pos' = pos /\ m_vec[pos].type = "COPYLIST" /\ sub' <= Len(m_vec[pos].subs) + 1
    <3>0. Num(m_vec[pos]) \in Nat /\ Num(m_vec[pos]) = Len(m_vec[pos].subs)
      BY <1>1, EntryType DEF Num
    <3>1. CASE pack_command
      BY <1>4, <3>0, <3>1, Packs DEF pack_command, Stages
    <3>2. CASE pack_header
      BY <3>0, <3>2, PacksHeader
    <3>3. CASE pack_over
      BY <1>4, <3>0, <3>3 DEF pack_over, Stages, AtHeader
    <3>4. CASE pack_end
      BY <3>4 DEF pack_end
    <3> QED
      BY <3>1, <3>2, <3>3, <3>4 DEF Pack
  <2>2. Len(m_vec') = Len(m_vec) /\ m_vec'[pos].type = m_vec[pos].type /\ m_vec'[pos].subs = m_vec[pos].subs
    BY <1>1, <1>3 DEF KeepsEntries
  <2> QED
    BY <1>4, <2>1, <2>2
<1> QED
  BY <1>2, <1>5, <1>6, StageParts, PTL

-----------------------------------------------------------------------------
(***************************************************************************)
(* A round of optimize_batch_copies.                                       *)
(***************************************************************************)
\* Entries s to t are copies that one batch may hold.
RunOf(vec, c, s, t) ==
    /\ s \in Nat /\ t \in Nat /\ 1 <= s /\ s <= t /\ t <= Len(vec) /\ t - s < MaxBatch
    /\ \A k \in s .. t : vec[k].type = "COPY" /\ Fst(vec[k]) = Fst(vec[s]) + k - s
    /\ \E kind \in {"h2c", "c2h"} : \A k \in s .. t : c[Fst(vec[k])].kind = kind

LEMMA RunIs ==
    ASSUME EditShape, Structure, start # 0
    PROVE  RunOf(m_vec, cmd, start, pos - 1) /\ pos <= Len(m_vec)
<1>1. start \in Nat /\ pos \in Nat /\ Len(m_vec) \in Nat /\ MaxBatch \in Nat
  BY EditTypes, EditBounds
<1>2. /\ start < pos /\ pos <= Len(m_vec) /\ pos - start <= MaxBatch
      /\ \A k \in start .. pos - 1 : m_vec[k].type = "COPY" /\ Fst(m_vec[k]) = Fst(m_vec[start]) + k - start
      /\ \E kind \in {"h2c", "c2h"} : \A k \in start .. pos - 1 : cmd[Fst(m_vec[k])].kind = kind
  BY DEF Structure, Run
<1>3. pos - 1 \in Nat /\ 1 <= start /\ start <= pos - 1 /\ pos - 1 <= Len(m_vec) /\ pos - 1 - start < MaxBatch
  BY <1>1, <1>2
<1> QED
  BY <1>1, <1>2, <1>3 DEF RunOf

\* A copy that is in no copy list.
LEMMA CopyIs ==
    ASSUME EditShape, Structure, NEW i \in DOMAIN m_vec, m_vec[i].type = "COPY"
    PROVE  Num(m_vec[i]) = 1 /\ cmd[Fst(m_vec[i])].kind \in {"h2c", "c2h", "d2d"}
<1>1. EntryOK(m_vec[i], cmd, overwrites)
  BY StructureTypes DEF VecOK
<1>2. Num(m_vec[i]) = 1 /\ cmd[Fst(m_vec[i])].kind # "infreq"
  BY <1>1 DEF EntryOK
<1>3. cmd[Fst(m_vec[i])] \in Command
  <2>1. cmd \in Seq(Command) /\ Fst(m_vec[i]) \in DOMAIN cmd
    BY EditTypes, FirstCmd
  <2> QED
    BY <2>1
<1>4. cmd[Fst(m_vec[i])].kind \in Kinds
  BY <1>3 DEF Command
<1>5. cmd[Fst(m_vec[i])].kind \in {"h2c", "c2h", "d2d", "infreq"}
  BY <1>4, EditsAssumption
<1> QED
  BY <1>2, <1>5

LEMMA RunOn ==
    ASSUME EditShape, Structure, pos <= Len(m_vec), InBatch(pos, start)
    PROVE  RunOf(m_vec, cmd, From, pos)
<1>1. start \in Nat /\ pos \in DOMAIN m_vec /\ pos \in Nat /\ 1 <= pos /\ MaxBatch \in Nat /\ MaxBatch >= 1
      /\ Len(m_vec) \in Nat /\ DOMAIN m_vec = 1 .. Len(m_vec)
  BY EditTypes, EditBounds
<1>2. /\ m_vec[pos].type = "COPY" /\ cmd[Fst(m_vec[pos])].kind # "d2d"
      /\ start # 0 => cmd[Fst(m_vec[pos])].kind = cmd[Fst(m_vec[start])].kind /\ pos - start < MaxBatch
  BY DEF InBatch, Fst
<1>3. Fst(m_vec[pos]) \in Nat
  BY <1>1, ChainAt, EditTypes, StructureTypes
<1>4. cmd[Fst(m_vec[pos])].kind \in {"h2c", "c2h"}
  BY <1>1, <1>2, CopyIs
<1>5. CASE start = 0
  <2>1. From = pos /\ pos .. pos = {pos}
    BY <1>1, <1>5 DEF From
  <2>2. \A k \in pos .. pos : m_vec[k].type = "COPY" /\ Fst(m_vec[k]) = Fst(m_vec[pos]) + k - pos
    BY <1>1, <1>2, <1>3, <2>1
  <2>3. \E kind \in {"h2c", "c2h"} : \A k \in pos .. pos : cmd[Fst(m_vec[k])].kind = kind
    BY <1>4, <2>1
  <2>4. pos - pos < MaxBatch /\ pos <= pos
    BY <1>1
  <2> QED
    BY <1>1, <2>1, <2>2, <2>3, <2>4 DEF RunOf
<1>6. CASE start # 0
  <2>1. RunOf(m_vec, cmd, start, pos - 1)
    BY <1>6, RunIs
  <2> DEFINE q == pos - 1
  <2>2. /\ 1 <= start /\ start <= q /\ q \in Nat /\ pos = q + 1
        /\ \A k \in start .. q : m_vec[k].type = "COPY" /\ Fst(m_vec[k]) = Fst(m_vec[start]) + k - start
        /\ \E kind \in {"h2c", "c2h"} : \A k \in start .. q : cmd[Fst(m_vec[k])].kind = kind
    BY <1>1, <2>1 DEF RunOf
  <2> HIDE DEF q
  <2>3. q \in DOMAIN m_vec /\ q \in start .. q /\ start \in DOMAIN m_vec /\ start \in start .. q /\ q + 1 \in DOMAIN m_vec
    BY <1>1, <2>2
  <2>4. Num(m_vec[q]) = 1
    BY <2>2, <2>3, CopyIs
  <2>5. Fst(m_vec[pos]) = Fst(m_vec[q]) + 1
    BY <2>2, <2>3, <2>4, ChainNext, EditTypes, StructureTypes
  <2>6. Fst(m_vec[q]) = Fst(m_vec[start]) + q - start /\ Fst(m_vec[start]) \in Nat
    BY <2>2, <2>3, ChainAt, EditTypes, StructureTypes
  <2>7. Fst(m_vec[pos]) = Fst(m_vec[start]) + pos - start
    BY <1>1, <2>2, <2>5, <2>6
  <2>8. \A k \in start .. pos : k \in start .. q \/ k = pos
    BY <1>1, <2>2
  <2>9. \A k \in start .. pos : m_vec[k].type = "COPY" /\ Fst(m_vec[k]) = Fst(m_vec[start]) + k - start
    BY <1>2, <2>2, <2>7, <2>8
  <2>10. \E kind \in {"h2c", "c2h"} : \A k \in start .. pos : cmd[Fst(m_vec[k])].kind = kind
    <3>1. PICK kind \in {"h2c", "c2h"} : \A k \in start .. q : cmd[Fst(m_vec[k])].kind = kind
      BY <2>2
    <3>2. cmd[Fst(m_vec[pos])].kind = kind
      BY <1>2, <1>6, <2>3, <3>1
    <3>3. \A k \in start .. pos : cmd[Fst(m_vec[k])].kind = kind
      BY <2>8, <3>1, <3>2
    <3> QED
      BY <3>3
  <2>11. From = start /\ start <= pos /\ pos - start < MaxBatch
    BY <1>1, <1>2, <1>6, <2>2 DEF From
  <2> QED
    BY <1>1, <2>2, <2>9, <2>10, <2>11 DEF RunOf
<1> QED
  BY <1>5, <1>6

\* The entry that a batch becomes.
LEMMA BatchIs ==
    ASSUME EditShape, Structure, NEW s, NEW t, RunOf(m_vec, cmd, s, t)
    PROVE  /\ Batch(s, t) \in Entry /\ Num(Batch(s, t)) = t - s + 1 /\ Fst(Batch(s, t)) = Fst(m_vec[s])
           /\ Consecutive(Batch(s, t))
           /\ s = t => Batch(s, t) = m_vec[s]
           /\ s # t => /\ Batch(s, t).type = "COPYLIST" /\ Batch(s, t).num_edits = t - s + 1
                       /\ Batch(s, t).edited
                       /\ \A k \in 1 .. t - s + 1 : Batch(s, t).subs[k] = Fst(m_vec[s + k - 1])
<1>1. /\ s \in Nat /\ t \in Nat /\ 1 <= s /\ s <= t /\ t <= Len(m_vec)
      /\ \A k \in s .. t : m_vec[k].type = "COPY" /\ Fst(m_vec[k]) = Fst(m_vec[s]) + k - s
  BY DEF RunOf
<1>2. m_vec \in Seq(Entry) /\ Len(m_vec) \in Nat /\ DOMAIN m_vec = 1 .. Len(m_vec)
  BY EditTypes
<1>3. \A k \in s .. t : k \in DOMAIN m_vec
  BY <1>1, <1>2
<1>4. s \in s .. t
  BY <1>1
<1>5. CASE s = t
  <2>1. Batch(s, t) = m_vec[s]
    BY <1>5 DEF Batch
  <2>2. Num(m_vec[s]) = 1 /\ m_vec[s] \in Entry /\ Consecutive(m_vec[s])
    BY <1>1, <1>3, <1>4, CopyIs, ChainAt, EditTypes, StructureTypes
  <2>3. t - s + 1 = 1
    BY <1>1, <1>5
  <2> QED
    BY <1>5, <2>1, <2>2, <2>3
<1>6. CASE s # t
  <2> DEFINE m == t - s + 1
             f == [k \in 1 .. m |-> Fst(m_vec[s + k - 1])]
             e == [type |-> "COPYLIST", subs |-> f, idx |-> 0, edited |-> TRUE, num_edits |-> m]
  <2>1. Batch(s, t) = e
    BY <1>6 DEF Batch, Fst
  <2>2. m \in Nat /\ m >= 1
    BY <1>1
  <2>3. Fst(m_vec[s]) \in Nat
    BY <1>3, <1>4, ChainAt, EditTypes, StructureTypes
  <2>4. ASSUME NEW k \in 1 .. m
        PROVE  Fst(m_vec[s + k - 1]) = Fst(m_vec[s]) + k - 1 /\ Fst(m_vec[s + k - 1]) \in Nat
    <3>1. s + k - 1 \in s .. t
      BY <1>1
    <3>2. Fst(m_vec[s + k - 1]) = Fst(m_vec[s]) + (s + k - 1) - s
      BY <1>1, <3>1
    <3>3. Fst(m_vec[s]) + (s + k - 1) - s = Fst(m_vec[s]) + k - 1 /\ Fst(m_vec[s]) + k - 1 \in Nat
      BY <1>1, <2>3
    <3> QED
      BY <3>2, <3>3
  <2> HIDE DEF m
  <2>5. f \in [1 .. m -> Nat]
    BY <2>4
  <2>6. f \in Seq(Nat) /\ Len(f) = m /\ DOMAIN f = 1 .. m
    BY <2>2, <2>5
  <2>7. f[1] = Fst(m_vec[s])
    <3>1. 1 \in 1 .. m /\ s + 1 - 1 = s
      BY <1>1, <2>2
    <3> QED
      BY <3>1
  <2>8. \A k \in 1 .. m : f[k] = Fst(m_vec[s]) + k - 1 /\ f[k] = Fst(m_vec[s + k - 1])
    BY <2>4
  <2> HIDE DEF f
  <2>9. e \in Entry
    BY <2>2, <2>6 DEF Entry
  <2>10. e.type = "COPYLIST" /\ e.num_edits = m /\ e.subs = f
    OBVIOUS
  <2>11. e.edited
    OBVIOUS
  <2> HIDE DEF e
  <2>12. Num(e) = m /\ Fst(e) = Fst(m_vec[s])
    BY <2>6, <2>7, <2>10 DEF Num, Fst
  <2>13. Consecutive(e)
    BY <2>6, <2>8, <2>10, <2>12 DEF Consecutive
  <2> QED
    BY <1>6, <2>1, <2>8, <2>9, <2>10, <2>11, <2>12, <2>13 DEF m
<1> QED
  BY <1>5, <1>6

-----------------------------------------------------------------------------
\* push_back and set_index.
IndexOf(e, m) == [e EXCEPT !.idx = m]
LEMMA IndexEntry ==
    ASSUME NEW e \in Entry, NEW m \in Nat
    PROVE  /\ IndexOf(e, m) \in Entry /\ IndexOf(e, m).type = e.type /\ IndexOf(e, m).subs = e.subs
           /\ IndexOf(e, m).idx = m
           /\ IndexOf(e, m).edited = e.edited /\ IndexOf(e, m).num_edits = e.num_edits
BY DEF Entry, IndexOf
LEMMA PushedIs ==
    ASSUME NEW vec \in Seq(Entry), NEW e \in Entry
    PROVE  /\ Pushed(vec, e) = Append(vec, IndexOf(e, Len(vec)))
           /\ Pushed(vec, e) \in Seq(Entry) /\ Len(Pushed(vec, e)) = Len(vec) + 1
           /\ DOMAIN vec = 1 .. Len(vec) /\ DOMAIN Pushed(vec, e) = 1 .. Len(vec) + 1 /\ Len(vec) \in Nat
           /\ \A i \in DOMAIN vec : Pushed(vec, e)[i] = vec[i]
           /\ Pushed(vec, e)[Len(vec) + 1] = IndexOf(e, Len(vec))
<1> DEFINE f == IndexOf(e, Len(vec))
<1>1. Pushed(vec, e) = Append(vec, f)
  BY DEF Pushed, IndexOf
<1>2. f \in Entry
  BY IndexEntry
<1> HIDE DEF f
<1>3. /\ Append(vec, f) \in Seq(Entry) /\ Len(Append(vec, f)) = Len(vec) + 1
      /\ DOMAIN vec = 1 .. Len(vec) /\ DOMAIN Append(vec, f) = 1 .. Len(vec) + 1 /\ Len(vec) \in Nat
      /\ \A i \in DOMAIN vec : Append(vec, f)[i] = vec[i]
      /\ Append(vec, f)[Len(vec) + 1] = f
  BY <1>2
<1> QED
  BY <1>1, <1>3 DEF f

\* An entry with the next commands is pushed.
LEMMA PushOK ==
    ASSUME NEW vec \in Seq(Entry), NEW n \in Nat, Chain(vec, n), NEW c, NEW o, VecOK(vec, c, o),
           NEW e \in Entry, Num(e) > 0, Fst(e) = n + 1, Consecutive(e), EntryOK(e, c, o)
    PROVE  Pushed(vec, e) \in Seq(Entry) /\ Chain(Pushed(vec, e), n + Num(e)) /\ VecOK(Pushed(vec, e), c, o)
<1> DEFINE f == IndexOf(e, Len(vec))
           v == Pushed(vec, e)
<1>1. /\ v = Append(vec, f) /\ v \in Seq(Entry) /\ Len(vec) \in Nat
      /\ DOMAIN vec = 1 .. Len(vec) /\ DOMAIN v = 1 .. Len(vec) + 1
      /\ \A i \in DOMAIN vec : v[i] = vec[i]
      /\ v[Len(vec) + 1] = f
  BY PushedIs
<1>2. f \in Entry /\ f.type = e.type /\ f.subs = e.subs /\ f.idx = Len(vec) /\ f.num_edits = e.num_edits
  BY <1>1, IndexEntry
<1> HIDE DEF f, v
<1>3. Num(f) = Num(e) /\ Fst(f) = Fst(e) /\ Consecutive(f)
  BY <1>2 DEF Num, Fst, Consecutive
<1>4. Chain(v, n + Num(e))
  BY <1>1, <1>2, <1>3, ChainAppend
<1>5. EntryOK(f, c, o)
  BY <1>2, <1>3 DEF EntryOK
<1>6. VecOK(v, c, o)
  BY <1>1, <1>5 DEF VecOK
<1> QED
  BY <1>1, <1>4, <1>6 DEF v

\* The constructor of a copy list numbers its copies.
NumberOf(c, m) == [c EXCEPT !.idx = m]
LEMMA NumberCmd ==
    ASSUME NEW c \in Command, NEW m \in Nat
    PROVE  /\ NumberOf(c, m) \in Command /\ NumberOf(c, m).kind = c.kind /\ NumberOf(c, m).par = c.par
           /\ NumberOf(c, m).edited = c.edited /\ NumberOf(c, m).idx = m
BY DEF Command, NumberOf

LEMMA IndexedIs ==
    ASSUME EditShape, Structure, NEW s, NEW t, RunOf(m_vec, cmd, s, t), NEW d, d = Indexed(s, t)
    PROVE  /\ d \in Seq(Command) /\ Len(d) = Len(cmd) /\ DOMAIN d = DOMAIN cmd
           /\ \A u \in DOMAIN cmd : d[u].kind = cmd[u].kind /\ d[u].par = cmd[u].par /\ d[u].edited = cmd[u].edited
           /\ \A u \in DOMAIN cmd : (\A k \in s .. t : Fst(m_vec[k]) # u) => d[u] = cmd[u]
           /\ s # t => \A k \in s .. t : d[Fst(m_vec[k])].idx = k - s
<1>1. /\ s \in Nat /\ t \in Nat /\ 1 <= s /\ s <= t /\ t <= Len(m_vec)
      /\ cmd \in Seq(Command) /\ m_vec \in Seq(Entry) /\ DOMAIN m_vec = 1 .. Len(m_vec) /\ Len(m_vec) \in Nat
      /\ Chain(m_vec, Len(cmd)) /\ Len(cmd) \in Nat
  BY EditTypes, StructureTypes DEF RunOf
<1>2. CASE s = t
  <2>1. d = cmd
    BY <1>2 DEF Indexed
  <2> QED
    BY <1>1, <1>2, <2>1
<1>3. CASE s # t
  <2>1. \A k \in s .. t : k \in DOMAIN m_vec
    BY <1>1
  <2> DEFINE At_(u) == CHOOSE k \in s .. t : Fst(m_vec[k]) = u
  <2>2. ASSUME NEW k \in s .. t, NEW l \in s .. t, Fst(m_vec[k]) = Fst(m_vec[l]) PROVE k = l
    <3>1. k \in DOMAIN m_vec /\ l \in DOMAIN m_vec
      BY <2>1
    <3>2. /\ 1 \in DOMAIN m_vec[k].subs /\ Fst(m_vec[k]) = m_vec[k].subs[1]
          /\ 1 \in DOMAIN m_vec[l].subs /\ Fst(m_vec[l]) = m_vec[l].subs[1]
      BY <3>1, FirstCmd
    <3> QED
      BY <1>1, <2>2, <3>1, <3>2, ChainOnce
  <2>3. ASSUME NEW k \in s .. t PROVE At_(Fst(m_vec[k])) = k
    <3> DEFINE w == Fst(m_vec[k])
    <3>1. \E l \in s .. t : Fst(m_vec[l]) = w
      OBVIOUS
    <3>2. At_(w) \in s .. t /\ Fst(m_vec[At_(w)]) = w
      BY <3>1
    <3> HIDE DEF At_
    <3> QED
      BY <2>2, <3>2
  <2>4. ASSUME NEW u \in DOMAIN cmd
        PROVE  /\ d[u] \in Command /\ d[u].kind = cmd[u].kind /\ d[u].par = cmd[u].par /\ d[u].edited = cmd[u].edited
               /\ (\A k \in s .. t : Fst(m_vec[k]) # u) => d[u] = cmd[u]
    <3>1. cmd[u] \in Command
      BY <1>1
    <3>2. CASE \E k \in s .. t : Fst(m_vec[k]) = u
      <4>1. d[u] = NumberOf(cmd[u], At_(u) - s)
        BY <1>3, <3>2 DEF Indexed, Fst, NumberOf
      <4>2. At_(u) - s \in Nat
        <5>1. At_(u) \in s .. t
          BY <3>2
        <5> QED
          BY <1>1, <5>1
      <4> HIDE DEF At_
      <4> QED
        BY <3>1, <3>2, <4>1, <4>2, NumberCmd
    <3>3. CASE ~\E k \in s .. t : Fst(m_vec[k]) = u
      <4>1. d[u] = cmd[u]
        BY <1>3, <3>3 DEF Indexed, Fst
      <4> QED
        BY <3>1, <4>1
    <3> QED
      BY <3>2, <3>3
  <2>5. ASSUME NEW k \in s .. t PROVE d[Fst(m_vec[k])].idx = k - s
    <3> DEFINE w == Fst(m_vec[k])
    <3>1. w \in DOMAIN cmd /\ cmd[w] \in Command
      BY <1>1, <2>1, FirstCmd
    <3>2. d[w] = NumberOf(cmd[w], At_(w) - s)
      BY <1>3, <3>1 DEF Indexed, Fst, NumberOf
    <3>3. At_(w) = k /\ k - s \in Nat
      BY <1>1, <2>3
    <3> HIDE DEF At_, w
    <3>4. d[w].idx = k - s
      BY <3>1, <3>2, <3>3, NumberCmd
    <3> QED
      BY <3>4 DEF w
  <2>6. d \in Seq(Command) /\ Len(d) = Len(cmd) /\ DOMAIN d = DOMAIN cmd
    <3>1. DOMAIN d = DOMAIN cmd /\ d = [u \in DOMAIN d |-> d[u]]
      BY <1>3 DEF Indexed
    <3>2. \A u \in DOMAIN cmd : d[u] \in Command
      BY <2>4
    <3> QED
      BY <1>1, <3>1, <3>2, SameSeq
  <2> QED
    BY <2>4, <2>5, <2>6
<1> QED
  BY <1>2, <1>3

-----------------------------------------------------------------------------
LEMMA UptoNext ==
    ASSUME NEW vec \in Seq(Entry), NEW n \in Nat, Chain(vec, n), NEW i \in DOMAIN vec
    PROVE  Upto(vec, n, i) = Fst(vec[i]) - 1 /\ Upto(vec, n, i + 1) = Fst(vec[i]) + Num(vec[i]) - 1
<1>1. /\ i \in Int /\ 1 <= i /\ i <= Len(vec) /\ Len(vec) \in Nat /\ DOMAIN vec = 1 .. Len(vec)
      /\ Num(vec[i]) \in Nat /\ Fst(vec[i]) \in Nat
      /\ i = Len(vec) => Fst(vec[i]) + Num(vec[i]) = n + 1
  BY ChainAt
<1>2. Upto(vec, n, i) = Fst(vec[i]) - 1
  BY <1>1 DEF Upto
<1>3. CASE i = Len(vec)
  <2>1. Upto(vec, n, i + 1) = n
    BY <1>1, <1>3 DEF Upto
  <2>2. n = Fst(vec[i]) + Num(vec[i]) - 1
    BY <1>1, <1>3
  <2> QED
    BY <1>2, <2>1, <2>2
<1>4. CASE i # Len(vec)
  <2>1. i + 1 \in DOMAIN vec /\ ~(i + 1 > Len(vec))
    BY <1>1, <1>4
  <2>2. Upto(vec, n, i + 1) = Fst(vec[i + 1]) - 1
    BY <2>1 DEF Upto
  <2>3. Fst(vec[i + 1]) = Fst(vec[i]) + Num(vec[i])
    BY <2>1, ChainNext
  <2> QED
    BY <1>1, <1>2, <2>2, <2>3
<1> QED
  BY <1>3, <1>4

\* The commands of the entries up to the end of a batch.
LEMMA RunUpto ==
    ASSUME EditShape, Structure, NEW s, NEW t, RunOf(m_vec, cmd, s, t)
    PROVE  /\ s \in DOMAIN m_vec /\ t \in DOMAIN m_vec
           /\ Upto(m_vec, Len(cmd), s) = Fst(m_vec[s]) - 1
           /\ Upto(m_vec, Len(cmd), t + 1) = Fst(m_vec[s]) + t - s
           /\ Fst(m_vec[s]) \in Nat
<1>1. /\ s \in Nat /\ t \in Nat /\ 1 <= s /\ s <= t /\ t <= Len(m_vec)
      /\ \A k \in s .. t : m_vec[k].type = "COPY" /\ Fst(m_vec[k]) = Fst(m_vec[s]) + k - s
      /\ m_vec \in Seq(Entry) /\ DOMAIN m_vec = 1 .. Len(m_vec) /\ Len(m_vec) \in Nat
      /\ Chain(m_vec, Len(cmd)) /\ Len(cmd) \in Nat
  BY EditTypes, StructureTypes DEF RunOf
<1>2. s \in DOMAIN m_vec /\ t \in DOMAIN m_vec /\ t \in s .. t
  BY <1>1
<1>3. m_vec[t].type = "COPY" /\ Fst(m_vec[t]) = Fst(m_vec[s]) + t - s
  BY <1>1, <1>2
<1>4. Num(m_vec[t]) = 1
  BY <1>2, <1>3, CopyIs
<1>5. Upto(m_vec, Len(cmd), s) = Fst(m_vec[s]) - 1 /\ Upto(m_vec, Len(cmd), t + 1) = Fst(m_vec[t]) + Num(m_vec[t]) - 1
  BY <1>1, <1>2, UptoNext
<1>6. Fst(m_vec[s]) \in Nat
  BY <1>1, <1>2, ChainAt
<1>7. Fst(m_vec[t]) + Num(m_vec[t]) - 1 = Fst(m_vec[s]) + t - s
  BY <1>1, <1>3, <1>4, <1>6
<1> QED
  BY <1>2, <1>5, <1>6, <1>7

\* The entries of a list that are not of the batch are as they were.
LEMMA IndexedVec ==
    ASSUME EditShape, Structure, NEW s, NEW t, RunOf(m_vec, cmd, s, t), NEW d, d = Indexed(s, t)
    PROVE  VecOK(m_vec, d, overwrites)
<1> SUFFICES ASSUME NEW i \in DOMAIN m_vec PROVE EntryOK(m_vec[i], d, overwrites)
  BY DEF VecOK
<1>1. /\ s \in Nat /\ t \in Nat /\ 1 <= s /\ s <= t /\ t <= Len(m_vec)
      /\ \A k \in s .. t : m_vec[k].type = "COPY"
      /\ m_vec \in Seq(Entry) /\ DOMAIN m_vec = 1 .. Len(m_vec) /\ Len(m_vec) \in Nat
      /\ Chain(m_vec, Len(cmd)) /\ Len(cmd) \in Nat /\ overwrites \in Nat
  BY EditTypes, StructureTypes DEF RunOf
<1>2. EntryOK(m_vec[i], cmd, overwrites)
  BY StructureTypes DEF VecOK
<1>3. /\ \A u \in DOMAIN cmd : d[u].kind = cmd[u].kind
      /\ \A u \in DOMAIN cmd : (\A k \in s .. t : Fst(m_vec[k]) # u) => d[u] = cmd[u]
  BY IndexedIs
<1>4. /\ Num(m_vec[i]) \in Nat /\ Num(m_vec[i]) > 0 /\ DOMAIN m_vec[i].subs = 1 .. Num(m_vec[i])
  BY <1>1, ChainAt
<1>5. ASSUME NEW k \in DOMAIN m_vec[i].subs
      PROVE  /\ d[m_vec[i].subs[k]].kind = cmd[m_vec[i].subs[k]].kind
             /\ m_vec[i].type = "COPYLIST" => d[m_vec[i].subs[k]].idx = cmd[m_vec[i].subs[k]].idx
  <2> DEFINE u == m_vec[i].subs[k]
  <2>1. u \in DOMAIN cmd
    BY PlaceCmd
  <2>2. ASSUME m_vec[i].type = "COPYLIST" PROVE \A j \in s .. t : Fst(m_vec[j]) # u
    <3> SUFFICES ASSUME NEW j \in s .. t, Fst(m_vec[j]) = u PROVE FALSE
      OBVIOUS
    <3>1. j \in DOMAIN m_vec /\ m_vec[j].type = "COPY"
      BY <1>1
    <3>2. 1 \in DOMAIN m_vec[j].subs /\ Fst(m_vec[j]) = m_vec[j].subs[1]
      BY <3>1, FirstCmd
    <3>3. i = j
      BY <1>1, <3>1, <3>2, ChainOnce
    <3> QED
      BY <2>2, <3>1, <3>3
  <2> HIDE DEF u
  <2>3. d[u].kind = cmd[u].kind /\ (m_vec[i].type = "COPYLIST" => d[u].idx = cmd[u].idx)
    BY <1>3, <2>1, <2>2
  <2> QED
    BY <2>3 DEF u
<1>6. m_vec[i].type # "COPYLIST" => 1 \in DOMAIN m_vec[i].subs /\ m_vec[i].num_edits = 0
  BY <1>2, <1>4 DEF EntryOK
<1>7. m_vec[i].type = "COPYLIST" => m_vec[i].num_edits <= Num(m_vec[i]) + overwrites
  BY <1>2 DEF EntryOK
<1> QED
  BY <1>2, <1>5, <1>6, <1>7, EntrySame

LEMMA IndexedNew ==
    ASSUME EditShape, Structure, snd = "batch", NEW t, RunOf(m_vec, cmd, From, t), NEW d, d = Indexed(From, t)
    PROVE  VecOK(new_list, d, overwrites)
<1> DEFINE s == From
           n == Upto(m_vec, Len(cmd), From)
<1>1. /\ new_list \in Seq(Entry) /\ n \in Nat /\ n <= Len(cmd) /\ Chain(new_list, n)
      /\ VecOK(new_list, cmd, overwrites) /\ overwrites \in Nat
      /\ DOMAIN cmd = 1 .. Len(cmd) /\ Len(cmd) \in Nat
  BY EditTypes, FromIs DEF Structure
<1>2. /\ s \in Nat /\ t \in Nat /\ \A k \in s .. t : Fst(m_vec[k]) = Fst(m_vec[s]) + k - s
  BY DEF RunOf
<1>3. n = Fst(m_vec[s]) - 1 /\ Fst(m_vec[s]) \in Nat
  BY RunUpto
<1>4. /\ \A u \in DOMAIN cmd : d[u].kind = cmd[u].kind
      /\ \A u \in DOMAIN cmd : (\A k \in s .. t : Fst(m_vec[k]) # u) => d[u] = cmd[u]
  BY IndexedIs
<1> HIDE DEF s, n
<1>5. ASSUME NEW u \in 1 .. n PROVE u \in DOMAIN cmd /\ d[u] = cmd[u]
  <2>1. u \in DOMAIN cmd
    BY <1>1
  <2>2. ASSUME NEW k \in s .. t PROVE Fst(m_vec[k]) # u
    <3>1. Fst(m_vec[k]) = Fst(m_vec[s]) + k - s
      BY <1>2
    <3> QED
      BY <1>1, <1>2, <1>3, <3>1
  <2> QED
    BY <1>4, <2>1, <2>2
<1>6. ASSUME NEW i \in DOMAIN new_list PROVE EntryOK(new_list[i], d, overwrites)
  <2>1. EntryOK(new_list[i], cmd, overwrites)
    BY <1>1 DEF VecOK
  <2>2. \A k \in DOMAIN new_list[i].subs : new_list[i].subs[k] \in 1 .. n
    BY <1>1, ChainIn
  <2>3. \A k \in DOMAIN new_list[i].subs : d[new_list[i].subs[k]].kind = cmd[new_list[i].subs[k]].kind
           /\ (new_list[i].type = "COPYLIST" => d[new_list[i].subs[k]].idx = cmd[new_list[i].subs[k]].idx)
    BY <1>5, <2>2
  <2>4. /\ Num(new_list[i]) \in Nat /\ Num(new_list[i]) > 0 /\ DOMAIN new_list[i].subs = 1 .. Num(new_list[i])
    BY <1>1, ChainAt
  <2>5. new_list[i].type # "COPYLIST" => 1 \in DOMAIN new_list[i].subs /\ new_list[i].num_edits = 0
    BY <2>1, <2>4 DEF EntryOK
  <2>6. new_list[i].type = "COPYLIST" => new_list[i].num_edits <= Num(new_list[i]) + overwrites
    BY <2>1 DEF EntryOK
  <2> QED
    BY <2>1, <2>3, <2>5, <2>6, EntrySame
<1> QED
  BY <1>6 DEF VecOK

\* The batch is an entry as it should be.
LEMMA BatchOK ==
    ASSUME EditShape, Structure, NEW s, NEW t, RunOf(m_vec, cmd, s, t), NEW d, d = Indexed(s, t)
    PROVE  EntryOK(Batch(s, t), d, overwrites)
<1>1. /\ s \in Nat /\ t \in Nat /\ 1 <= s /\ s <= t /\ t <= Len(m_vec) /\ t - s < MaxBatch
      /\ overwrites \in Nat /\ MaxBatch \in Nat
      /\ \A k \in s .. t : k \in DOMAIN m_vec
  BY EditTypes, EditBounds DEF RunOf
<1>2. PICK kind \in {"h2c", "c2h"} : \A k \in s .. t : cmd[Fst(m_vec[k])].kind = kind
  BY DEF RunOf
<1>3. CASE s = t
  <2>1. Batch(s, t) = m_vec[s] /\ s \in DOMAIN m_vec
    BY <1>1, <1>3, BatchIs
  <2> QED
    BY <2>1, IndexedVec DEF VecOK
<1>4. CASE s # t
  <2> DEFINE e == Batch(s, t)
             m == t - s + 1
  <2>1. e \in Entry /\ Num(e) = m /\ e.type = "COPYLIST" /\ e.num_edits = m
    BY <1>4, BatchIs
  <2>2. \A k \in 1 .. m : e.subs[k] = Fst(m_vec[s + k - 1])
    BY <1>4, BatchIs
  <2>3. DOMAIN e.subs = 1 .. m
    BY <2>1, EntryType
  <2>4. /\ \A u \in DOMAIN cmd : d[u].kind = cmd[u].kind
        /\ \A k \in s .. t : d[Fst(m_vec[k])].idx = k - s
    BY <1>4, IndexedIs
  <2>5. m \in 2 .. MaxBatch
    BY <1>1, <1>4
  <2>6. m <= m + overwrites
    BY <1>1
  <2>9. \A k \in 1 .. m : s + k - 1 \in s .. t /\ (s + k - 1) - s = k - 1
    BY <1>1
  <2> HIDE DEF e, m
  <2>7. \A k \in DOMAIN e.subs : d[e.subs[k]].kind = kind /\ d[e.subs[k]].idx = k - 1
    <3> SUFFICES ASSUME NEW k \in 1 .. m PROVE d[e.subs[k]].kind = kind /\ d[e.subs[k]].idx = k - 1
      BY <2>3
    <3> DEFINE j == s + k - 1
    <3>1. j \in s .. t /\ j - s = k - 1 /\ e.subs[k] = Fst(m_vec[j])
      BY <2>2, <2>9
    <3> HIDE DEF j
    <3>2. Fst(m_vec[j]) \in DOMAIN cmd
      BY <1>1, <3>1, FirstCmd
    <3>3. d[Fst(m_vec[j])].kind = kind /\ d[Fst(m_vec[j])].idx = j - s
      BY <1>2, <2>4, <3>1, <3>2
    <3> QED
      BY <3>1, <3>3
  <2>8. \E kd \in {"h2c", "c2h"} : \A k \in DOMAIN e.subs : d[e.subs[k]].kind = kd
    BY <2>7
  <2> QED
    BY <2>1, <2>5, <2>6, <2>7, <2>8 DEF EntryOK, e
<1> QED
  BY <1>3, <1>4

-----------------------------------------------------------------------------
\* What every round leaves alone.
LEMMA Rounds ==
    ASSUME EditShape, Structure, Stages, Round
    PROVE  /\ snd = "batch" /\ snd' = "batch" /\ pos \in DOMAIN m_vec /\ pos' = pos + 1
           /\ m_vec' = m_vec /\ overwrites' = overwrites /\ m_num_edits' = m_num_edits
           /\ m_finalized' = m_finalized /\ ~m_finalized
           /\ stage = "first" /\ stage' = "first" /\ sub' = 0 /\ used' = 0
           /\ EdUserShape /\ EdCardShape' /\ EdBoundShape'
           /\ UNCHANGED <<batch, snd, userParts, card, page_read, boundVars>>
<1>1. /\ snd = "batch" /\ snd' = "batch" /\ pos <= Len(m_vec) /\ pos' = pos + 1
      /\ UNCHANGED <<m_vec, m_num_edits, m_finalized, batch, snd, stage, sub, used, page_read>>
      /\ UNCHANGED <<userParts, card, boundVars>>
  BY DEF Round
<1>2. pos \in DOMAIN m_vec
  BY <1>1, EditTypes
<1>3. stage = "first" /\ ~m_finalized
  BY <1>1 DEF Stages, InSend
<1>4. sub = 0 /\ used = 0
  BY <1>3 DEF Stages
<1>5. EdUserShape /\ EdCardShape' /\ EdBoundShape'
  BY <1>1, CardStays, BoundStays DEF EditShape
<1> QED
  BY <1>1, <1>2, <1>3, <1>4, <1>5 DEF boundVars

\* What has to be shown of a round.
LEMMA RoundInv ==
    ASSUME EditShape, Structure, Stages, Round, new_list' \in Seq(Entry),
           cmd' \in Seq(Command), Len(cmd') = Len(cmd), start' \in Nat,
           VecOK(m_vec, cmd', overwrites),
           Chain(new_list', Upto(m_vec, Len(cmd), IF start' = 0 THEN pos + 1 ELSE start')),
           VecOK(new_list', cmd', overwrites), Run(m_vec, cmd', start', pos + 1)
    PROVE  EditShape' /\ Structure' /\ Stages'
<1>1. /\ snd = "batch" /\ snd' = "batch" /\ pos \in DOMAIN m_vec /\ pos' = pos + 1
      /\ m_vec' = m_vec /\ overwrites' = overwrites /\ m_num_edits' = m_num_edits
      /\ m_finalized' = m_finalized /\ ~m_finalized
      /\ stage = "first" /\ stage' = "first" /\ sub' = 0 /\ used' = 0
      /\ EdUserShape /\ EdCardShape' /\ EdBoundShape'
      /\ UNCHANGED <<batch, snd, userParts>>
  BY Rounds
<1>2. EditShape'
  <2>1. EdListShape'
    BY <1>1 DEF EditShape, EdListShape, userParts
  <2>2. EdSendShape'
    <3>1. pos' \in 1 .. Len(m_vec') + 1
      BY <1>1, EditTypes
    <3> QED
      BY <1>1, <3>1 DEF EdSendShape
  <2>3. EdUserShape'
    BY <1>1, UserStays DEF userParts
  <2> QED
    BY <1>1, <2>1, <2>2, <2>3 DEF EditShape
<1>3. Structure'
  <2>1. Chain(m_vec, Len(cmd)) /\ m_num_edits <= Len(m_vec) + overwrites
    BY DEF Structure
  <2>2. From' = IF start' = 0 THEN pos + 1 ELSE start'
    BY <1>1 DEF From
  <2>3. Chain(m_vec', Len(cmd')) /\ VecOK(m_vec', cmd', overwrites')
    BY <1>1, <2>1
  <2>4. Chain(new_list', IF snd' = "batch" THEN Upto(m_vec', Len(cmd'), From') ELSE 0)
    BY <1>1, <2>2
  <2>5. VecOK(new_list', cmd', overwrites') /\ Run(m_vec', cmd', start', pos')
    BY <1>1
  <2>6. m_num_edits' <= Len(m_vec') + overwrites'
    BY <1>1, <2>1
  <2> QED
    BY <2>3, <2>4, <2>5, <2>6 DEF Structure
<1>4. Stages'
  <2>1. StageFlags' /\ StageFirst'
    BY <1>1 DEF StageFlags, StageFirst
  <2> QED
    BY <1>1, <2>1, StagesOut
<1> QED
  BY <1>2, <1>3, <1>4

\* What the lists are before a round.
LEMMA BeforeRound ==
    ASSUME EditShape, Structure, snd = "batch"
    PROVE  /\ m_vec \in Seq(Entry) /\ new_list \in Seq(Entry) /\ cmd \in Seq(Command) /\ Len(cmd) \in Nat
           /\ start \in Nat /\ pos \in Nat /\ 1 <= pos
           /\ Chain(m_vec, Len(cmd)) /\ VecOK(m_vec, cmd, overwrites)
           /\ Upto(m_vec, Len(cmd), From) \in Nat /\ Upto(m_vec, Len(cmd), From) <= Len(cmd)
           /\ Chain(new_list, Upto(m_vec, Len(cmd), From)) /\ VecOK(new_list, cmd, overwrites)
           /\ Run(m_vec, cmd, start, pos)
BY EditTypes, FromIs DEF Structure

LEMMA BatchNone ==
    ASSUME EditShape, Structure, Stages, batch_none
    PROVE  EditShape' /\ Structure' /\ Stages'
<1> DEFINE e == m_vec[pos]
           n == Upto(m_vec, Len(cmd), pos)
<1>1. Round /\ start = 0 /\ new_list' = Pushed(new_list, e) /\ cmd' = cmd /\ start' = 0
  BY DEF batch_none
<1>2. pos \in DOMAIN m_vec /\ snd = "batch" /\ From = pos
  BY <1>1, Rounds DEF From
<1>3. /\ m_vec \in Seq(Entry) /\ new_list \in Seq(Entry) /\ cmd \in Seq(Command) /\ Len(cmd) \in Nat
      /\ Chain(m_vec, Len(cmd)) /\ VecOK(m_vec, cmd, overwrites) /\ n \in Nat
      /\ Chain(new_list, n) /\ VecOK(new_list, cmd, overwrites)
  BY <1>2, BeforeRound
<1>4. e \in Entry /\ Num(e) > 0 /\ Num(e) \in Nat /\ Fst(e) \in Nat /\ Consecutive(e) /\ EntryOK(e, cmd, overwrites)
  BY <1>2, <1>3, ChainAt DEF VecOK
<1>5. n = Fst(e) - 1 /\ Upto(m_vec, Len(cmd), pos + 1) = Fst(e) + Num(e) - 1
  BY <1>2, <1>3, UptoNext
<1> HIDE DEF e, n
<1>6. Fst(e) = n + 1 /\ Upto(m_vec, Len(cmd), pos + 1) = n + Num(e)
  BY <1>3, <1>4, <1>5
<1>7. new_list' \in Seq(Entry) /\ Chain(new_list', n + Num(e)) /\ VecOK(new_list', cmd, overwrites)
  BY <1>1, <1>3, <1>4, <1>6, PushOK
<1>8. Run(m_vec, cmd', start', pos + 1)
  BY <1>1 DEF Run
<1>9. Chain(new_list', Upto(m_vec, Len(cmd), IF start' = 0 THEN pos + 1 ELSE start'))
  BY <1>1, <1>6, <1>7
<1>10. cmd' \in Seq(Command) /\ Len(cmd') = Len(cmd) /\ start' \in Nat
       /\ VecOK(m_vec, cmd', overwrites) /\ VecOK(new_list', cmd', overwrites)
  BY <1>1, <1>3, <1>7
<1> QED
  BY <1>1, <1>7, <1>8, <1>9, <1>10, RoundInv

LEMMA BatchOn ==
    ASSUME EditShape, Structure, Stages, batch_on
    PROVE  EditShape' /\ Structure' /\ Stages'
<1>1. Round /\ InBatch(pos, start) /\ pos < Len(m_vec) /\ start' = From /\ cmd' = cmd /\ new_list' = new_list
  BY DEF batch_on
<1>2. pos \in DOMAIN m_vec /\ snd = "batch" /\ Len(m_vec) \in Nat /\ pos \in Nat /\ pos <= Len(m_vec)
  BY <1>1, Rounds, EditTypes
<1>3. RunOf(m_vec, cmd, From, pos)
  BY <1>1, <1>2, RunOn
<1>4. Run(m_vec, cmd, From, pos + 1)
  <2> DEFINE s == From
  <2>1. /\ s \in Nat /\ 1 <= s /\ s <= pos /\ pos - s < MaxBatch
        /\ \A k \in s .. pos : m_vec[k].type = "COPY" /\ Fst(m_vec[k]) = Fst(m_vec[s]) + k - s
        /\ \E kind \in {"h2c", "c2h"} : \A k \in s .. pos : cmd[Fst(m_vec[k])].kind = kind
    BY <1>3 DEF RunOf
  <2> HIDE DEF s
  <2>2. (pos + 1) - 1 = pos /\ s < pos + 1 /\ pos + 1 <= Len(m_vec) /\ (pos + 1) - s <= MaxBatch
    BY <1>1, <1>2, <2>1, EditBounds
  <2>3. Run(m_vec, cmd, s, pos + 1)
    BY <2>1, <2>2 DEF Run
  <2> QED
    BY <2>3 DEF s
<1>5. /\ m_vec \in Seq(Entry) /\ new_list \in Seq(Entry) /\ cmd \in Seq(Command) /\ Len(cmd) \in Nat
      /\ VecOK(m_vec, cmd, overwrites)
      /\ Chain(new_list, Upto(m_vec, Len(cmd), From)) /\ VecOK(new_list, cmd, overwrites)
      /\ From \in Nat /\ From # 0
  BY <1>2, BeforeRound, FromIs
<1>6. Chain(new_list', Upto(m_vec, Len(cmd), IF start' = 0 THEN pos + 1 ELSE start'))
  BY <1>1, <1>5
<1>7. /\ new_list' \in Seq(Entry) /\ cmd' \in Seq(Command) /\ Len(cmd') = Len(cmd) /\ start' \in Nat
      /\ VecOK(m_vec, cmd', overwrites) /\ VecOK(new_list', cmd', overwrites) /\ Run(m_vec, cmd', start', pos + 1)
  BY <1>1, <1>4, <1>5
<1> QED
  BY <1>1, <1>6, <1>7, RoundInv

\* A batch is pushed.
LEMMA PushBatch ==
    ASSUME EditShape, Structure, snd = "batch", NEW t, RunOf(m_vec, cmd, From, t),
           NEW d, d = Indexed(From, t), NEW v, v = Pushed(new_list, Batch(From, t))
    PROVE  /\ d \in Seq(Command) /\ Len(d) = Len(cmd)
           /\ v \in Seq(Entry) /\ Chain(v, Upto(m_vec, Len(cmd), t + 1)) /\ VecOK(v, d, overwrites)
           /\ VecOK(m_vec, d, overwrites) /\ t \in DOMAIN m_vec
<1> DEFINE e == Batch(From, t)
           n == Upto(m_vec, Len(cmd), From)
<1>1. new_list \in Seq(Entry) /\ n \in Nat /\ Chain(new_list, n) /\ VecOK(new_list, d, overwrites)
  BY BeforeRound, IndexedNew
<1>2. /\ e \in Entry /\ Num(e) = t - From + 1 /\ Fst(e) = Fst(m_vec[From]) /\ Consecutive(e)
      /\ EntryOK(e, d, overwrites)
  BY BatchIs, BatchOK
<1>3. /\ n = Fst(m_vec[From]) - 1 /\ Upto(m_vec, Len(cmd), t + 1) = Fst(m_vec[From]) + t - From
      /\ Fst(m_vec[From]) \in Nat /\ t \in DOMAIN m_vec
  BY RunUpto
<1>4. From \in Nat /\ t \in Nat /\ From <= t
  BY DEF RunOf
<1> HIDE DEF e, n
<1>5. Num(e) > 0 /\ Fst(e) = n + 1 /\ Upto(m_vec, Len(cmd), t + 1) = n + Num(e)
  BY <1>1, <1>2, <1>3, <1>4
<1>6. v \in Seq(Entry) /\ Chain(v, n + Num(e)) /\ VecOK(v, d, overwrites)
  <2>1. v = Pushed(new_list, e)
    BY DEF e
  <2> QED
    BY <1>1, <1>2, <1>5, <2>1, PushOK
<1>7. d \in Seq(Command) /\ Len(d) = Len(cmd) /\ VecOK(m_vec, d, overwrites)
  BY IndexedIs, IndexedVec
<1> QED
  BY <1>3, <1>5, <1>6, <1>7

LEMMA BatchLast ==
    ASSUME EditShape, Structure, Stages, batch_last
    PROVE  EditShape' /\ Structure' /\ Stages'
<1>1. /\ Round /\ InBatch(pos, start) /\ new_list' = Pushed(new_list, Batch(From, pos)) /\ cmd' = Indexed(From, pos)
      /\ start' = 0
  BY DEF batch_last
<1>2. pos \in DOMAIN m_vec /\ snd = "batch" /\ pos <= Len(m_vec)
  BY <1>1, Rounds, EditTypes
<1>3. RunOf(m_vec, cmd, From, pos)
  BY <1>1, <1>2, RunOn
<1>4. /\ cmd' \in Seq(Command) /\ Len(cmd') = Len(cmd)
      /\ new_list' \in Seq(Entry) /\ Chain(new_list', Upto(m_vec, Len(cmd), pos + 1))
      /\ VecOK(new_list', cmd', overwrites) /\ VecOK(m_vec, cmd', overwrites)
  BY <1>1, <1>2, <1>3, PushBatch
<1>5. Run(m_vec, cmd', start', pos + 1) /\ start' \in Nat
  BY <1>1 DEF Run
<1>6. Chain(new_list', Upto(m_vec, Len(cmd), IF start' = 0 THEN pos + 1 ELSE start'))
  BY <1>1, <1>4
<1> QED
  BY <1>1, <1>4, <1>5, <1>6, RoundInv

LEMMA BatchBreak ==
    ASSUME EditShape, Structure, Stages, batch_break
    PROVE  EditShape' /\ Structure' /\ Stages'
<1> DEFINE v == Pushed(new_list, Batch(start, pos - 1))
           e == m_vec[pos]
           n == Upto(m_vec, Len(cmd), pos)
<1>1. /\ Round /\ start # 0 /\ new_list' = Pushed(v, e) /\ cmd' = Indexed(start, pos - 1) /\ start' = 0
  BY DEF batch_break
<1>2. pos \in DOMAIN m_vec /\ snd = "batch" /\ From = start /\ pos \in Nat /\ (pos - 1) + 1 = pos
  BY <1>1, Rounds, EditTypes DEF From
<1>3. RunOf(m_vec, cmd, start, pos - 1)
  BY <1>1, RunIs
<1>4. /\ cmd' \in Seq(Command) /\ Len(cmd') = Len(cmd)
      /\ v \in Seq(Entry) /\ Chain(v, n)
      /\ VecOK(v, cmd', overwrites) /\ VecOK(m_vec, cmd', overwrites)
  BY <1>1, <1>2, <1>3, PushBatch
<1>5. m_vec \in Seq(Entry) /\ Chain(m_vec, Len(cmd)) /\ Len(cmd) \in Nat
  BY <1>2, BeforeRound
<1>6. e \in Entry /\ Num(e) > 0 /\ Num(e) \in Nat /\ Fst(e) \in Nat /\ Consecutive(e) /\ EntryOK(e, cmd', overwrites)
  BY <1>2, <1>4, <1>5, ChainAt DEF VecOK
<1>7. n = Fst(e) - 1 /\ Upto(m_vec, Len(cmd), pos + 1) = Fst(e) + Num(e) - 1 /\ n \in Nat
  BY <1>2, <1>5, UptoNext, UptoIs, EditTypes
<1> HIDE DEF e, n, v
<1>8. Fst(e) = n + 1 /\ Upto(m_vec, Len(cmd), pos + 1) = n + Num(e)
  BY <1>6, <1>7
<1>9. new_list' \in Seq(Entry) /\ Chain(new_list', n + Num(e)) /\ VecOK(new_list', cmd', overwrites)
  BY <1>1, <1>4, <1>6, <1>7, <1>8, PushOK
<1>10. Run(m_vec, cmd', start', pos + 1) /\ start' \in Nat
  BY <1>1 DEF Run
<1>11. Chain(new_list', Upto(m_vec, Len(cmd), IF start' = 0 THEN pos + 1 ELSE start'))
  BY <1>1, <1>8, <1>9
<1> QED
  BY <1>1, <1>4, <1>9, <1>10, <1>11, RoundInv

\* The new list takes the place of the old one.
LEMMA Batched ==
    ASSUME EditShape, Structure, snd = "batch", pos > Len(m_vec)
    PROVE  start = 0 /\ Chain(new_list, Len(cmd)) /\ VecOK(new_list, cmd, overwrites)
<1>1. start = 0
  BY EditTypes DEF Structure, Run
<1>2. From = pos /\ Upto(m_vec, Len(cmd), pos) = Len(cmd)
  BY <1>1 DEF From, Upto
<1>3. Chain(new_list, Upto(m_vec, Len(cmd), From)) /\ VecOK(new_list, cmd, overwrites)
  BY BeforeRound
<1> QED
  BY <1>1, <1>2, <1>3

LEMMA BatchDone ==
    ASSUME EditShape, Structure, Stages, batch_done
    PROVE  EditShape' /\ Structure' /\ Stages'
<1>1. /\ snd = "batch" /\ pos > Len(m_vec) /\ m_vec' = new_list /\ m_num_edits' = Len(new_list)
      /\ new_list' = <<>> /\ snd' = "create" /\ pos' = 1
      /\ UNCHANGED <<cmd, m_finalized, batch, start, stage, sub, used, page_read, userParts, card, boundVars>>
  BY DEF batch_done
<1>2. start = 0 /\ Chain(new_list, Len(cmd)) /\ VecOK(new_list, cmd, overwrites)
  BY <1>1, Batched
<1>3. stage = "first" /\ ~m_finalized
  BY <1>1 DEF Stages, InSend
<1>4. sub = 0 /\ used = 0
  BY <1>3 DEF Stages
<1>5. new_list \in Seq(Entry) /\ Len(new_list) \in Nat /\ cmd \in Seq(Command) /\ overwrites \in Nat
  <2>1. new_list \in Seq(Entry) /\ cmd \in Seq(Command) /\ overwrites \in Nat
    BY EditTypes
  <2> QED
    BY <2>1
<1>6. EditShape'
  <2>1. EdListShape'
    <3>1. <<>> \in Seq(Entry)
      OBVIOUS
    <3> QED
      BY <1>1, <1>5, <3>1 DEF EditShape, EdListShape, userParts
  <2>2. EdSendShape'
    <3>1. pos' \in 1 .. Len(m_vec') + 1
      BY <1>1, <1>5
    <3> QED
      BY <1>1, <1>2, <1>3, <1>4, <3>1 DEF EdSendShape
  <2>3. EdUserShape' /\ EdCardShape' /\ EdBoundShape'
    BY <1>1, UserStays, CardStays, BoundStays DEF EditShape, userParts
  <2> QED
    BY <2>1, <2>2, <2>3 DEF EditShape
<1>7. Structure'
  <2>1. Chain(m_vec', Len(cmd')) /\ VecOK(m_vec', cmd', overwrites') /\ overwrites' = overwrites
    BY <1>1, <1>2 DEF boundVars
  <2>2. m_num_edits' <= Len(m_vec') + overwrites'
    BY <1>1, <1>5, <2>1
  <2> QED
    BY <1>1, <1>2, <1>6, <2>1, <2>2, StructOut
<1>8. Stages'
  <2>1. StageFlags' /\ StageFirst'
    BY <1>1, <1>2, <1>3 DEF StageFlags, StageFirst, InSend
  <2> QED
    BY <1>1, <1>4, <2>1, StagesOut
<1> QED
  BY <1>6, <1>7, <1>8

-----------------------------------------------------------------------------
\* The list is well formed, whatever failed and whatever overlapped.
StructInv == EditShape /\ Structure /\ Stages

LEMMA StructStarts == EditsInit => StructInv
<1> SUFFICES ASSUME EditsInit PROVE StructInv
  OBVIOUS
<1>1. /\ m_vec = <<>> /\ cmd = <<>> /\ m_num_edits = 0 /\ m_finalized = FALSE
      /\ batch \in BOOLEAN /\ new_list = <<>> /\ start = 0
      /\ snd = "none" /\ stage = "first" /\ pos = 1 /\ sub = 0 /\ used = 0
      /\ append_kind = "none" /\ over = NoOver /\ want = <<>>
      /\ card = Blank /\ page_read = Blank
      /\ overlapped = FALSE /\ failed = 0 /\ overwrites = 0 /\ sends = 0
  BY DEF EditsInit
<1>2. <<>> \in Seq(Entry) /\ <<>> \in Seq(Command) /\ <<>> \in Seq(Par) /\ Len(<<>>) = 0
  OBVIOUS
<1>3. EditShape
  <2>1. EdListShape
    <3>1. m_vec \in Seq(Entry) /\ new_list \in Seq(Entry) /\ cmd \in Seq(Command) /\ want \in Seq(Par)
          /\ Len(cmd) = 0 /\ Len(want) = 0
      BY <1>1, <1>2
    <3>2. 0 <= MaxCmds
      BY EditBounds
    <3> QED
      BY <1>1, <3>1, <3>2 DEF EdListShape
  <2>4. EdSendShape
    <3>1. pos \in 1 .. Len(m_vec) + 1
      BY <1>1, <1>2
    <3> QED
      BY <1>1, <3>1 DEF EdSendShape
  <2>5. EdBoundShape
    <3>1. 0 \in 0 .. MaxFailures /\ 0 \in 0 .. MaxOverwrites /\ 0 \in 0 .. MaxSends
      BY EditBounds
    <3>2. overlapped \in BOOLEAN
      BY <1>1
    <3>3. failed \in 0 .. MaxFailures /\ overwrites \in 0 .. MaxOverwrites /\ sends \in 0 .. MaxSends
      BY <1>1, <3>1
    <3> QED
      BY <3>2, <3>3 DEF EdBoundShape
  <2>2. EdUserShape
    <3>1. over \in [u : 0 .. Len(cmd), par : Par]
      BY <1>1, <1>2 DEF NoOver, First, Par
    <3> QED
      BY <1>1, <3>1 DEF EdUserShape
  <2>3. EdCardShape
    BY <1>1, CardBlank, Zenon DEF EdCardShape
  <2> QED
    BY <2>1, <2>2, <2>3, <2>4, <2>5 DEF EditShape
<1>4. Structure
  <2>1. Chain(m_vec, Len(cmd)) /\ VecOK(m_vec, cmd, overwrites) /\ VecOK(new_list, cmd, overwrites) /\ Chain(new_list, 0)
    BY <1>1, <1>2, EmptyChain
  <2>2. Run(m_vec, cmd, start, pos) /\ m_num_edits <= Len(m_vec) + overwrites
    BY <1>1, <1>2 DEF Run
  <2> QED
    BY <1>1, <2>1, <2>2 DEF Structure
<1>5. Stages
  BY <1>1, EditBounds DEF Stages
<1> QED
  BY <1>3, <1>4, <1>5 DEF StructInv

LEMMA ParOfPar == \A kind : ParOf(kind) \subseteq Par
<1>1. First \in Par /\ Other \in Par /\ NoPar \in Par
  BY DEF Par, First, Other, NoPar
<1> QED
  BY <1>1 DEF ParOf

\* What overwriting does not move.
LEMMA MarkStages ==
    ASSUME EditShape, Structure, Stages, NEW usr_idx \in 0 .. Len(cmd) - 1,
           Mark(EntryOf(usr_idx), SubOf(usr_idx))
    PROVE  Stages'
<1> DEFINE i == EntryOf(usr_idx)
           u == usr_idx + 1
<1>1. i \in DOMAIN m_vec /\ SubOf(usr_idx) = u /\ \E k \in DOMAIN m_vec[i].subs : m_vec[i].subs[k] = u
  BY Finds, EditTypes, StructureTypes
<1>2. PICK k \in DOMAIN m_vec[i].subs : m_vec[i].subs[k] = u
  BY <1>1
<1>3. Mark(i, u)
  BY <1>1
<1> HIDE DEF i, u
<1>4. KeepsEntries(m_vec, m_vec')
  BY <1>1, <1>2, <1>3, Marks
<1>5. UNCHANGED <<snd, stage, pos, sub, used, batchVars, m_finalized>>
  BY <1>3 DEF Mark, sendVars
<1> QED
  BY <1>4, <1>5, StagesKeep

LEMMA StructEdits ==
    ASSUME StructInv,
           \/ \E kind \in Kinds : append_test(kind)
           \/ \E p \in ParOf(append_kind) \ {Other} : append(p)
           \/ \E usr_idx \in 0 .. Len(cmd) - 1 : \E p \in ParOf(cmd[usr_idx + 1].kind) \ {want[usr_idx + 1]} :
                 get_cmd_for_overwrite(usr_idx, p)
           \/ \E usr_idx \in 0 .. Len(cmd) - 1 : overwrite_refused(usr_idx)
           \/ overwrite
    PROVE  StructInv'
<1>0. EditShape /\ Structure /\ Stages
  BY DEF StructInv
<1>1. ASSUME NEW kind \in Kinds, append_test(kind) PROVE StructInv'
  <2>1. EditShape' /\ Structure'
    BY <1>0, <1>1, AppendTestShape, AppendTestStructure
  <2>2. KeepsEntries(m_vec, m_vec') /\ UNCHANGED <<snd, stage, pos, sub, used, batchVars, m_finalized>>
    BY <1>0, <1>1, KeepsSame DEF append_test, listParts, sendVars
  <2>3. Stages'
    BY <1>0, <2>2, StagesKeep
  <2> QED
    BY <2>1, <2>3 DEF StructInv
<1>2. ASSUME NEW p \in ParOf(append_kind) \ {Other}, append(p) PROVE StructInv'
  <2>1. p \in Par
    BY ParOfPar
  <2>2. EditShape'
    BY <1>0, <1>2, <2>1, AppendShape
  <2>3. Structure'
    BY <1>0, <1>2, <2>1, <2>2, AppendStructure
  <2>4. \E e : m_vec' = Append(m_vec, e)
    BY <1>2 DEF append
  <2>5. UNCHANGED <<snd, stage, pos, sub, used, batchVars, m_finalized>>
    BY <1>2 DEF append, sendVars
  <2>6. Stages'
    BY <1>0, <2>4, <2>5, StagesKeep
  <2> QED
    BY <2>2, <2>3, <2>6 DEF StructInv
<1>3. ASSUME NEW usr_idx \in 0 .. Len(cmd) - 1, NEW p \in ParOf(cmd[usr_idx + 1].kind) \ {want[usr_idx + 1]},
             get_cmd_for_overwrite(usr_idx, p)
      PROVE  StructInv'
  <2>1. p \in Par /\ Mark(EntryOf(usr_idx), SubOf(usr_idx))
    BY <1>3, ParOfPar DEF get_cmd_for_overwrite
  <2>2. EditShape'
    BY <1>0, <1>3, <2>1, OverwriteShape
  <2>3. Structure' /\ Stages'
    BY <1>0, <2>1, <2>2, MarkStructure, MarkStages
  <2> QED
    BY <2>2, <2>3 DEF StructInv
<1>4. ASSUME NEW usr_idx \in 0 .. Len(cmd) - 1, overwrite_refused(usr_idx) PROVE StructInv'
  <2>1. Mark(EntryOf(usr_idx), SubOf(usr_idx))
    BY <1>4 DEF overwrite_refused
  <2>2. EditShape'
    BY <1>0, <1>4, RefusedShape
  <2>3. Structure' /\ Stages'
    BY <1>0, <2>1, <2>2, MarkStructure, MarkStages
  <2> QED
    BY <2>2, <2>3 DEF StructInv
<1>5. ASSUME overwrite PROVE StructInv'
  <2>1. EditShape'
    BY <1>0, <1>5, OverwritingShape
  <2>2. Structure'
    BY <1>0, <1>5, <2>1, OverwriteStructure
  <2>3. KeepsEntries(m_vec, m_vec') /\ UNCHANGED <<snd, stage, pos, sub, used, batchVars, m_finalized>>
    BY <1>0, <1>5, KeepsSame DEF overwrite, sendVars
  <2>4. Stages'
    BY <1>0, <2>3, StagesKeep
  <2> QED
    BY <2>1, <2>2, <2>4 DEF StructInv
<1> QED
  BY <1>1, <1>2, <1>3, <1>4, <1>5

LEMMA StructBatches ==
    ASSUME StructInv, batch_none \/ batch_on \/ batch_last \/ batch_break \/ batch_done
    PROVE  StructInv'
BY BatchNone, BatchOn, BatchLast, BatchBreak, BatchDone DEF StructInv

LEMMA StructSends ==
    ASSUME StructInv,
           \/ finalize_begin \/ schedule_sends \/ send_bare \/ send_refused
           \/ \E ok \in BOOLEAN : finalize_reply(ok)
    PROVE  StructInv'
<1>0. EditShape /\ Structure /\ Stages
  BY DEF StructInv
<1>1. EditShape'
  BY <1>0, BeginShape, BareShape, RefuseShape, ReplyShape
<1>2. Structure'
  BY <1>0, <1>1, SendStructure
<1>3. Stages'
  BY <1>0, SendStages
<1> QED
  BY <1>1, <1>2, <1>3 DEF StructInv

LEMMA StructPages ==
    ASSUME StructInv, page_begin \/ Pack \/ page_sent \/ send_fail
    PROVE  StructInv'
<1>0. EditShape /\ Structure /\ Stages
  BY DEF StructInv
<1>1. EditShape'
  BY <1>0, PageShape, PackCommandShape, PackHeaderShape, PackOverShape, PackEndShape, SentShape, FailShape DEF Pack
<1>2. Structure'
  BY <1>0, <1>1, SendStructure, PackStructure DEF Pack
<1>3. Stages'
  BY <1>0, PageStages, PackStages, SendStages
<1> QED
  BY <1>1, <1>2, <1>3 DEF StructInv

LEMMA StructSteps == StructInv /\ [EditsNext]_editsVars => StructInv'
<1> SUFFICES ASSUME StructInv, [EditsNext]_editsVars PROVE StructInv'
  OBVIOUS
<1>1. CASE EditsNext
  BY <1>1, StructEdits, StructBatches, StructSends, StructPages DEF EditsNext
<1>2. CASE UNCHANGED editsVars
  <2>1. UNCHANGED <<listParts, batchVars, sendVars, userParts, card, boundVars>>
    BY <1>2 DEF editsVars
  <2>2. EditShape /\ Structure /\ Stages
    BY DEF StructInv
  <2>3. EditShape'
    BY <2>1, <2>2, ListStays, SendStays, UserStays, CardStays, BoundStays
       DEF EditShape, listParts, batchVars, sendVars, userParts
  <2>4. Structure'
    BY <2>1, <2>2 DEF Structure, From, listParts, batchVars, sendVars, boundVars
  <2>5. KeepsEntries(m_vec, m_vec')
    BY <2>1, <2>2, KeepsSame DEF listParts
  <2>6. Stages'
    BY <2>1, <2>2, <2>5, StagesKeep DEF listParts, sendVars
  <2> QED
    BY <2>3, <2>4, <2>6 DEF StructInv
<1> QED
  BY <1>1, <1>2

\* Whatever fails or overlaps: in every step of optimize_batch_copies and
\* send_to_card the entries and the new list have the commands in order, each
\* entry is what its type says, and no page overflows.
THEOREM ListWellFormed == EditsSpec => []StructInv
<1>1. EditsInit => StructInv
  BY StructStarts
<1>2. StructInv /\ [EditsNext]_editsVars => StructInv'
  BY StructSteps
<1> QED
  BY <1>1, <1>2, PTL DEF EditsSpec

LEMMA ChainInOrder ==
    ASSUME NEW vec \in Seq(Entry), NEW n \in Nat, Chain(vec, n)
    PROVE  InOrder(vec, n) /\ Len(vec) <= n
<1>1. ASSUME NEW i \in DOMAIN vec
      PROVE  /\ vec[i].subs # <<>>
             /\ vec[i].subs[1] = IF i = 1 THEN 1 ELSE After(vec[i - 1])
             /\ \A k \in DOMAIN vec[i].subs : vec[i].subs[k] = vec[i].subs[1] + k - 1
  <2>1. Num(vec[i]) > 0 /\ Consecutive(vec[i]) /\ Fst(vec[i]) = IF i = 1 THEN 1 ELSE After(vec[i - 1])
    BY DEF Chain
  <2>2. vec[i].subs # <<>>
    BY <2>1 DEF Num
  <2> QED
    BY <2>1, <2>2 DEF Consecutive, Fst
<1>2. n = IF vec = <<>> THEN 0 ELSE After(vec[Len(vec)]) - 1
  BY DEF Chain
<1>3. Len(vec) <= n
  <2>1. CASE Len(vec) = 0
    BY <2>1
  <2>2. CASE Len(vec) # 0
    <3>1. Len(vec) \in DOMAIN vec /\ Len(vec) \in Nat
      BY <2>2
    <3>2. /\ Len(vec) <= Fst(vec[Len(vec)]) /\ Fst(vec[Len(vec)]) + Num(vec[Len(vec)]) <= n + 1
          /\ Num(vec[Len(vec)]) > 0 /\ Num(vec[Len(vec)]) \in Nat /\ Fst(vec[Len(vec)]) \in Nat
      BY <3>1, ChainAt
    <3> QED
      BY <3>1, <3>2
  <2> QED
    BY <2>1, <2>2
<1> QED
  BY <1>1, <1>2, <1>3 DEF InOrder

LEMMA StructBatchesRight == StructInv => BatchesRight
<1> SUFFICES ASSUME StructInv PROVE BatchesRight
  OBVIOUS
<1>1. /\ m_vec \in Seq(Entry) /\ Len(cmd) \in Nat /\ Chain(m_vec, Len(cmd)) /\ VecOK(m_vec, cmd, overwrites)
  BY EditTypes, StructureTypes DEF StructInv
<1>2. InOrder(m_vec, Len(cmd))
  BY <1>1, ChainInOrder
<1>3. ASSUME NEW i \in DOMAIN m_vec, m_vec[i].type = "COPYLIST"
      PROVE  /\ Len(m_vec[i].subs) \in 2 .. MaxBatch
             /\ \E kind \in {"h2c", "c2h"} : \A k \in DOMAIN m_vec[i].subs : cmd[m_vec[i].subs[k]].kind = kind
  BY <1>1, <1>3 DEF VecOK, EntryOK, Num
<1> QED
  BY <1>2, <1>3 DEF BatchesRight

\* BatchesRight: optimize_batch_copies keeps every command of the list and their
\* order, and makes only copy lists that the card takes.
THEOREM EditsBatchesRight == EditsSpec => []BatchesRight
BY ListWellFormed, StructBatchesRight, PTL

LEMMA StructTypeOK == StructInv => EditsTypeOK
<1> SUFFICES ASSUME StructInv PROVE EditsTypeOK
  OBVIOUS
<1>1. EditShape /\ Structure
  BY DEF StructInv
<1>2. /\ m_vec \in Seq(Entry) /\ Len(cmd) \in Nat /\ Len(m_vec) \in Nat /\ overwrites \in Nat /\ m_num_edits \in Nat
      /\ Chain(m_vec, Len(cmd)) /\ VecOK(m_vec, cmd, overwrites)
      /\ start \in Nat /\ pos \in Nat /\ 1 <= pos /\ pos <= Len(m_vec) + 1
  BY <1>1, EditTypes, StructureTypes
<1>3. overwrites <= MaxOverwrites /\ Len(cmd) <= MaxCmds
  BY <1>1, EditBounds DEF EditShape, EdBoundShape, EdListShape
<1>4. ASSUME NEW i \in DOMAIN m_vec PROVE m_vec[i].num_edits <= MaxBatch + MaxOverwrites
  <2>1. EntryOK(m_vec[i], cmd, overwrites)
    BY <1>2 DEF VecOK
  <2>2. CASE m_vec[i].type = "COPYLIST"
    <3>1. m_vec[i].num_edits <= Num(m_vec[i]) + overwrites /\ Num(m_vec[i]) \in 2 .. MaxBatch
      BY <2>1, <2>2 DEF EntryOK
    <3>2. m_vec[i].num_edits \in Nat
      BY <1>2, EntryType
    <3> QED
      BY <1>2, <1>3, <3>1, <3>2, EditBounds
  <2>3. CASE m_vec[i].type # "COPYLIST"
    <3>1. m_vec[i].num_edits = 0
      BY <2>1, <2>3 DEF EntryOK
    <3> QED
      BY <3>1, EditBounds
  <2> QED
    BY <2>2, <2>3
<1>5. m_num_edits \in 0 .. MaxCmds + MaxOverwrites
  <2>1. Len(m_vec) <= Len(cmd)
    BY <1>2, ChainInOrder
  <2>2. m_num_edits <= Len(m_vec) + overwrites
    BY <1>1 DEF Structure
  <2> QED
    BY <1>2, <1>3, <2>1, <2>2, EditBounds
<1>6. start \in 0 .. Len(m_vec)
  <2>1. start # 0 => start < pos /\ pos <= Len(m_vec)
    BY <1>1 DEF Structure, Run
  <2> QED
    BY <1>2, <2>1
<1>7. card.last \in BOOLEAN
  BY <1>1, EditTypes DEF IsCard
<1>8. /\ cmd \in Seq(Command) /\ new_list \in Seq(Entry) /\ m_finalized \in BOOLEAN /\ batch \in BOOLEAN
      /\ want \in Seq(Par) /\ Len(want) = Len(cmd)
  BY <1>1 DEF EditShape, EdListShape
<1>9. /\ snd \in {"none", "batch", "create", "schedule", "reply"}
      /\ stage \in {"first", "page", "next"} /\ pos \in 1 .. Len(m_vec) + 1 /\ sub \in Nat /\ used \in Nat
  BY <1>1 DEF EditShape, EdSendShape
<1>10. /\ append_kind \in Kinds \cup {"none"} /\ over \in [u : 0 .. Len(cmd), par : Par]
  BY <1>1 DEF EditShape, EdUserShape
<1>11. /\ overlapped \in BOOLEAN /\ failed \in 0 .. MaxFailures
       /\ overwrites \in 0 .. MaxOverwrites /\ sends \in 0 .. MaxSends
  BY <1>1 DEF EditShape, EdBoundShape
<1> QED
  BY <1>2, <1>3, <1>4, <1>5, <1>6, <1>7, <1>8, <1>9, <1>10, <1>11 DEF EditsTypeOK

-----------------------------------------------------------------------------
(***************************************************************************)
(* Counting the edits.                                                     *)
(***************************************************************************)
\* An entry whose marks and count are as they were.
SameEntry(e, f, c, d) ==
    /\ f.type = e.type /\ f.subs = e.subs /\ f.num_edits = e.num_edits /\ (f.edited <=> e.edited)
    /\ \A k \in DOMAIN e.subs : d[e.subs[k]].edited <=> c[e.subs[k]].edited

LEMMA SubsSame ==
    ASSUME NEW e, NEW f, NEW c, NEW d, f.subs = e.subs,
           \A k \in DOMAIN e.subs : d[e.subs[k]].edited <=> c[e.subs[k]].edited
    PROVE  EdSubs(f, d) = EdSubs(e, c)
BY DEF EdSubs

LEMMA EntryEdits ==
    ASSUME NEW e, NEW f, NEW c, NEW d, SameEntry(e, f, c, d), 1 \in DOMAIN e.subs
    PROVE  /\ Ed(f, d) <=> Ed(e, c)
           /\ EdSubs(f, d) = EdSubs(e, c)
           /\ ListOK(f, d) <=> ListOK(e, c)
           /\ Through(f, d) <=> Through(e, c)
<1>1. EdSubs(f, d) = EdSubs(e, c)
  BY SubsSame DEF SameEntry
<1>2. Ed(f, d) <=> Ed(e, c)
  BY DEF SameEntry, Ed, Fst
<1>3. ListOK(f, d) <=> ListOK(e, c)
  BY <1>1 DEF SameEntry, ListOK
<1>4. Through(f, d) <=> Through(e, c)
  BY <1>1, <1>2 DEF SameEntry, Through
<1> QED
  BY <1>1, <1>2, <1>3, <1>4

\* The numbers of edited entries and of edited copies.
LEMMA EntriesFinite ==
    ASSUME NEW vec \in Seq(Entry), NEW c
    PROVE  /\ IsFiniteSet(EdEntries(vec, c)) /\ Cardinality(EdEntries(vec, c)) \in Nat
           /\ Cardinality(EdEntries(vec, c)) = 0 <=> EdEntries(vec, c) = {}
<1>1. EdEntries(vec, c) \subseteq 1 .. Len(vec) /\ Len(vec) \in Nat
  BY DEF EdEntries
<1>2. IsFiniteSet(EdEntries(vec, c))
  BY <1>1, FirstNumbers, FS_Subset
<1> QED
  BY <1>2, FS_CardinalityType, FS_EmptySet

LEMMA SubsFinite ==
    ASSUME NEW e \in Entry, NEW c
    PROVE  /\ IsFiniteSet(EdSubs(e, c)) /\ Cardinality(EdSubs(e, c)) \in Nat
           /\ Cardinality(EdSubs(e, c)) = 0 <=> EdSubs(e, c) = {}
<1>1. EdSubs(e, c) \subseteq 1 .. Num(e) /\ Num(e) \in Nat
  BY EntryType DEF EdSubs
<1>2. IsFiniteSet(EdSubs(e, c))
  BY <1>1, FirstNumbers, FS_Subset
<1> QED
  BY <1>2, FS_CardinalityType, FS_EmptySet

\* One edit more, or one less.
LEMMA OneMore ==
    ASSUME NEW S, IsFiniteSet(S), NEW x, NEW T, T = S \cup {x}, x \notin S
    PROVE  Cardinality(T) = Cardinality(S) + 1
BY FS_AddElement
LEMMA OneLess ==
    ASSUME NEW S, IsFiniteSet(S), NEW x, NEW T, T = S \ {x}, x \in S
    PROVE  Cardinality(T) = Cardinality(S) - 1 /\ Cardinality(S) >= 1 /\ Cardinality(S) \in Nat /\ Cardinality(T) \in Nat
<1>1. Cardinality(T) = Cardinality(S) - 1 /\ IsFiniteSet(T)
  BY FS_RemoveElement
<1>2. Cardinality(S) \in Nat /\ Cardinality(T) \in Nat
  BY <1>1, FS_CardinalityType
<1> QED
  BY <1>1, <1>2

\* All of the entries, or of the copies of a copy list.
LEMMA AllCounted ==
    ASSUME NEW vec \in Seq(Entry), NEW n \in Nat, Chain(vec, n), NEW c,
           \A u \in 1 .. n : c[u].edited, FullyEdited(vec)
    PROVE  /\ Cardinality(EdEntries(vec, c)) = Len(vec)
           /\ \A i \in DOMAIN vec : Ed(vec[i], c) /\ ListOK(vec[i], c)
<1>1. ASSUME NEW i \in DOMAIN vec PROVE Ed(vec[i], c) /\ ListOK(vec[i], c)
  <2>1. /\ Num(vec[i]) \in Nat /\ Num(vec[i]) > 0 /\ DOMAIN vec[i].subs = 1 .. Num(vec[i])
    BY ChainAt
  <2>2. \A k \in DOMAIN vec[i].subs : c[vec[i].subs[k]].edited
    BY ChainIn
  <2>3. 1 \in DOMAIN vec[i].subs
    BY <2>1
  <2>4. EdSubs(vec[i], c) = 1 .. Num(vec[i])
    BY <2>1, <2>2 DEF EdSubs
  <2>5. Cardinality(EdSubs(vec[i], c)) = Num(vec[i])
    BY <2>1, <2>4, FirstNumbers
  <2>6. vec[i].type = "COPYLIST" => vec[i].edited /\ vec[i].num_edits = Num(vec[i])
    BY DEF FullyEdited
  <2>7. Ed(vec[i], c)
    BY <2>2, <2>3, <2>6 DEF Ed, Fst
  <2>8. ListOK(vec[i], c)
    BY <2>1, <2>5, <2>6 DEF ListOK
  <2> QED
    BY <2>7, <2>8
<1>2. EdEntries(vec, c) = 1 .. Len(vec) /\ Len(vec) \in Nat
  BY <1>1 DEF EdEntries
<1>3. Cardinality(EdEntries(vec, c)) = Len(vec)
  BY <1>2, FirstNumbers
<1> QED
  BY <1>1, <1>3

\* Nothing is edited when the counts say so.
LEMMA NoneCounted ==
    ASSUME NEW vec \in Seq(Entry), NEW n \in Nat, Chain(vec, n), NEW c, NEW o, VecOK(vec, c, o),
           Cardinality(EdEntries(vec, c)) = 0, \A i \in DOMAIN vec : ListOK(vec[i], c)
    PROVE  /\ \A u \in 1 .. n : ~c[u].edited
           /\ \A i \in DOMAIN vec : Through(vec[i], c)
<1>1. ASSUME NEW i \in DOMAIN vec PROVE Through(vec[i], c)
  <2>1. /\ vec[i] \in Entry /\ DOMAIN vec[i].subs = 1 .. Num(vec[i]) /\ ListOK(vec[i], c) /\ EntryOK(vec[i], c, o)
    BY ChainAt DEF VecOK
  <2>2. ~Ed(vec[i], c)
    BY EntriesFinite DEF EdEntries
  <2>3. CASE vec[i].type = "COPYLIST"
    <3>1. ~vec[i].edited
      BY <2>2, <2>3 DEF Ed
    <3>2. vec[i].num_edits = 0
      BY <2>1, <2>3, <3>1, EntryType DEF ListOK
    <3>3. EdSubs(vec[i], c) = {}
      BY <2>1, <2>3, <3>2, SubsFinite DEF ListOK
    <3> QED
      BY <2>2, <3>2, <3>3 DEF Through
  <2>4. CASE vec[i].type # "COPYLIST"
    <3>1. Num(vec[i]) = 1 /\ vec[i].num_edits = 0
      BY <2>1, <2>4 DEF EntryOK
    <3>2. ~c[vec[i].subs[1]].edited
      BY <2>2, <2>4 DEF Ed, Fst
    <3>3. EdSubs(vec[i], c) = {}
      BY <2>1, <3>1, <3>2 DEF EdSubs
    <3> QED
      BY <2>2, <3>1, <3>3 DEF Through
  <2> QED
    BY <2>3, <2>4
<1>2. ASSUME NEW u \in 1 .. n PROVE ~c[u].edited
  <2>1. PICK i \in DOMAIN vec : \E k \in DOMAIN vec[i].subs : vec[i].subs[k] = u
    BY ChainHas
  <2> QED
    BY <1>1, <2>1 DEF Through, EdSubs
<1> QED
  BY <1>1, <1>2

\* A command of one entry is in no other.
LEMMA OtherEntry ==
    ASSUME NEW vec \in Seq(Entry), NEW n \in Nat, Chain(vec, n), NEW i \in DOMAIN vec, NEW k \in DOMAIN vec[i].subs,
           NEW j \in DOMAIN vec, j # i
    PROVE  /\ 1 \in DOMAIN vec[j].subs
           /\ \A l \in DOMAIN vec[j].subs : vec[j].subs[l] \in 1 .. n /\ vec[j].subs[l] # vec[i].subs[k]
<1>1. ASSUME NEW l \in DOMAIN vec[j].subs PROVE vec[j].subs[l] \in 1 .. n /\ vec[j].subs[l] # vec[i].subs[k]
  BY ChainIn, ChainOnce
<1>2. Num(vec[j]) \in Nat /\ Num(vec[j]) > 0 /\ DOMAIN vec[j].subs = 1 .. Num(vec[j])
  BY ChainAt
<1> QED
  BY <1>1, <1>2

\* One entry is disturbed.
LEMMA OthersCounted ==
    ASSUME NEW vec, NEW v, NEW c, NEW d, DOMAIN v = DOMAIN vec, NEW i \in DOMAIN vec,
           \A j \in DOMAIN vec : j # i => SameEntry(vec[j], v[j], c, d) /\ 1 \in DOMAIN vec[j].subs
    PROVE  /\ (Ed(v[i], d) <=> Ed(vec[i], c)) => EdEntries(v, d) = EdEntries(vec, c)
           /\ Ed(v[i], d) => EdEntries(v, d) = EdEntries(vec, c) \cup {i}
           /\ ~Ed(v[i], d) => EdEntries(v, d) = EdEntries(vec, c) \ {i}
           /\ \A j \in DOMAIN vec : j # i => /\ ListOK(v[j], d) <=> ListOK(vec[j], c)
                                             /\ Through(v[j], d) <=> Through(vec[j], c)
<1>1. \A j \in DOMAIN vec : j # i =>
         /\ Ed(v[j], d) <=> Ed(vec[j], c)
         /\ ListOK(v[j], d) <=> ListOK(vec[j], c)
         /\ Through(v[j], d) <=> Through(vec[j], c)
  BY EntryEdits
<1>2. (Ed(v[i], d) <=> Ed(vec[i], c)) => EdEntries(v, d) = EdEntries(vec, c)
  BY <1>1 DEF EdEntries
<1>3. Ed(v[i], d) => EdEntries(v, d) = EdEntries(vec, c) \cup {i}
  BY <1>1 DEF EdEntries
<1>4. ~Ed(v[i], d) => EdEntries(v, d) = EdEntries(vec, c) \ {i}
  BY <1>1 DEF EdEntries
<1> QED
  BY <1>1, <1>2, <1>3, <1>4

\* None is.
LEMMA AllSame ==
    ASSUME NEW vec, NEW v, NEW c, NEW d, DOMAIN v = DOMAIN vec,
           \A j \in DOMAIN vec : SameEntry(vec[j], v[j], c, d) /\ 1 \in DOMAIN vec[j].subs
    PROVE  /\ EdEntries(v, d) = EdEntries(vec, c)
           /\ \A j \in DOMAIN vec : ListOK(v[j], d) <=> ListOK(vec[j], c)
<1>1. \A j \in DOMAIN vec :
         /\ Ed(v[j], d) <=> Ed(vec[j], c)
         /\ ListOK(v[j], d) <=> ListOK(vec[j], c)
  BY EntryEdits
<1>2. EdEntries(v, d) = EdEntries(vec, c)
  BY <1>1 DEF EdEntries
<1> QED
  BY <1>1, <1>2

-----------------------------------------------------------------------------
(***************************************************************************)
(* What the card knows.                                                    *)
(***************************************************************************)
\* A command that loses no mark and keeps its parameters unless it is marked.
LEMMA KnownKeeps ==
    ASSUME NEW t, NEW vec, NEW c, NEW fin, KnownIn(t, vec, c, fin), NEW v, NEW d,
           DOMAIN v = DOMAIN vec, \A i \in DOMAIN vec : v[i].type = vec[i].type /\ v[i].subs = vec[i].subs,
           \A i \in DOMAIN vec : \A k \in DOMAIN vec[i].subs :
               ~d[vec[i].subs[k]].edited => /\ ~c[vec[i].subs[k]].edited
                                            /\ d[vec[i].subs[k]].par = c[vec[i].subs[k]].par
    PROVE  KnownIn(t, v, d, fin)
<1> SUFFICES ASSUME NEW i \in DOMAIN v, NEW k \in DOMAIN v[i].subs
             PROVE  /\ fin \/ ~d[v[i].subs[k]].edited =>
                          PlaceIn(v, i, k) \in DOMAIN t /\ t[PlaceIn(v, i, k)].u = v[i].subs[k]
                    /\ ~d[v[i].subs[k]].edited => t[PlaceIn(v, i, k)].par = d[v[i].subs[k]].par
  BY DEF KnownIn
<1>1. i \in DOMAIN vec /\ k \in DOMAIN vec[i].subs /\ v[i].subs = vec[i].subs
  OBVIOUS
<1> DEFINE u == vec[i].subs[k]
           x == PlaceIn(vec, i, k)
<1>2. PlaceIn(v, i, k) = x
  BY <1>1 DEF PlaceIn
<1>3. /\ fin \/ ~c[u].edited => x \in DOMAIN t /\ t[x].u = u
      /\ ~c[u].edited => t[x].par = c[u].par
  BY <1>1 DEF KnownIn
<1>4. ~d[u].edited => ~c[u].edited /\ d[u].par = c[u].par
  BY <1>1
<1> HIDE DEF u, x
<1>5. /\ fin \/ ~d[u].edited => x \in DOMAIN t /\ t[x].u = u
      /\ ~d[u].edited => t[x].par = d[u].par
  BY <1>3, <1>4
<1> QED
  BY <1>1, <1>2, <1>5 DEF u

\* Nothing is sent before all of it is.
LEMMA KnownFresh ==
    ASSUME NEW t, NEW vec \in Seq(Entry), NEW n \in Nat, Chain(vec, n), NEW c, \A u \in 1 .. n : c[u].edited
    PROVE  KnownIn(t, vec, c, FALSE)
<1>1. \A i \in DOMAIN vec : \A k \in DOMAIN vec[i].subs : c[vec[i].subs[k]].edited
  BY ChainIn
<1> QED
  BY <1>1 DEF KnownIn

\* The list is finalized with nothing left to send.
LEMMA KnownWhole ==
    ASSUME NEW t, NEW vec \in Seq(Entry), NEW n \in Nat, Chain(vec, n), NEW c, \A u \in 1 .. n : ~c[u].edited,
           NEW f, NEW g, KnownIn(t, vec, c, f)
    PROVE  KnownIn(t, vec, c, g)
<1>1. \A i \in DOMAIN vec : \A k \in DOMAIN vec[i].subs : ~c[vec[i].subs[k]].edited
  BY ChainIn
<1> QED
  BY <1>1 DEF KnownIn

\* No two commands have the same place.
LEMMA PlaceOnce ==
    ASSUME NEW vec \in Seq(Entry), NEW n \in Nat, Chain(vec, n), NEW c, NEW o, VecOK(vec, c, o),
           NEW i \in DOMAIN vec, NEW k \in DOMAIN vec[i].subs,
           NEW j \in DOMAIN vec, NEW l \in DOMAIN vec[j].subs, PlaceIn(vec, i, k) = PlaceIn(vec, j, l)
    PROVE  vec[i].subs[k] = vec[j].subs[l]
<1>1. i \in Int /\ j \in Int /\ DOMAIN vec[i].subs = 1 .. Num(vec[i]) /\ DOMAIN vec[j].subs = 1 .. Num(vec[j])
  BY ChainAt
<1>2. i - 1 = j - 1 /\ (IF vec[i].type = "COPYLIST" THEN k ELSE 0) = (IF vec[j].type = "COPYLIST" THEN l ELSE 0)
  BY DEF PlaceIn
<1>3. i = j
  BY <1>1, <1>2
<1>4. CASE vec[i].type = "COPYLIST"
  BY <1>2, <1>3, <1>4
<1>5. CASE vec[i].type # "COPYLIST"
  <2>1. Num(vec[i]) = 1
    BY <1>5 DEF VecOK, EntryOK
  <2>2. k = 1 /\ l = 1
    BY <1>1, <1>3, <2>1
  <2> QED
    BY <1>3, <2>2
<1> QED
  BY <1>4, <1>5

\* The card reads a command.
LEMMA TabIs ==
    ASSUME NEW t, NEW x, NEW u, NEW par, NEW r, r = TabWith(t, x, u, par)
    PROVE  /\ x \in DOMAIN r /\ r[x].u = u /\ r[x].par = par
           /\ \A y \in DOMAIN t : y \in DOMAIN r /\ (y # x => r[y] = t[y])
           /\ \A y : y \in DOMAIN t => y \in DOMAIN r
           /\ \A y : y \notin DOMAIN t /\ y # x => y \notin DOMAIN r
BY DEF TabWith

LEMMA KnownReads ==
    ASSUME NEW vec \in Seq(Entry), NEW n \in Nat, Chain(vec, n), NEW c, NEW o, VecOK(vec, c, o), DOMAIN c = 1 .. n,
           NEW t, NEW fin, KnownIn(t, vec, c, fin),
           NEW i \in DOMAIN vec, NEW k \in DOMAIN vec[i].subs, NEW u, u = vec[i].subs[k],
           NEW d, \A w \in DOMAIN c : (w # u => d[w] = c[w]) /\ d[w].par = c[w].par, ~d[u].edited,
           NEW r, r = TabWith(t, PlaceIn(vec, i, k), u, c[u].par)
    PROVE  KnownIn(r, vec, d, fin)
<1> SUFFICES ASSUME NEW j \in DOMAIN vec, NEW l \in DOMAIN vec[j].subs
             PROVE  /\ fin \/ ~d[vec[j].subs[l]].edited =>
                          PlaceIn(vec, j, l) \in DOMAIN r /\ r[PlaceIn(vec, j, l)].u = vec[j].subs[l]
                    /\ ~d[vec[j].subs[l]].edited => r[PlaceIn(vec, j, l)].par = d[vec[j].subs[l]].par
  BY DEF KnownIn
<1> DEFINE w == vec[j].subs[l]
           x == PlaceIn(vec, i, k)
           y == PlaceIn(vec, j, l)
<1>1. w \in DOMAIN c /\ u \in DOMAIN c
  BY ChainIn
<1>2. y = x => w = u
  BY PlaceOnce
<1>3. /\ fin \/ ~c[w].edited => y \in DOMAIN t /\ t[y].u = w
      /\ ~c[w].edited => t[y].par = c[w].par
  BY DEF KnownIn
<1>4. w = u => y = x
  <2>1. ASSUME w = u PROVE i = j /\ k = l
    BY <2>1, ChainOnce
  <2> QED
    BY <2>1
<1>5. /\ x \in DOMAIN r /\ r[x].u = u /\ r[x].par = c[u].par
      /\ \A z : z \in DOMAIN t => z \in DOMAIN r
      /\ \A z \in DOMAIN t : z # x => r[z] = t[z]
  BY TabIs
<1>6. (w # u => d[w] = c[w]) /\ d[w].par = c[w].par
  BY <1>1
<1> HIDE DEF w, x, y
<1>7. CASE w = u
  <2>1. y \in DOMAIN r /\ r[y].u = w /\ r[y].par = d[w].par
    BY <1>4, <1>5, <1>6, <1>7
  <2> QED
    BY <2>1 DEF w, y
<1>8. CASE w # u
  <2>1. y # x /\ d[w] = c[w]
    BY <1>2, <1>6, <1>8
  <2>2. fin \/ ~d[w].edited => y \in DOMAIN r /\ r[y].u = w
    BY <1>3, <1>5, <2>1
  <2>3. ASSUME ~d[w].edited PROVE r[y].par = d[w].par
    <3>1. y \in DOMAIN t /\ t[y].par = c[w].par
      BY <1>3, <2>1, <2>3
    <3> QED
      BY <1>5, <2>1, <3>1
  <2> QED
    BY <2>2, <2>3 DEF w, y
<1> QED
  BY <1>7, <1>8 DEF w, y

-----------------------------------------------------------------------------
(***************************************************************************)
(* The counts, the messages and the card, step by step.                    *)
(***************************************************************************)
Bookkept == AllEdited /\ Counted /\ Progress /\ Replied /\ AnnouncedIsPacked /\ Known

LEMMA Disturbed == ~Undisturbed => Bookkept
BY DEF Bookkept, AllEdited, Fresh, Counted, Progress, Replied, AnnouncedIsPacked, Known

\* Between sends.
LEMMA Quiet ==
    ASSUME StructInv, snd # "create", snd # "schedule"
    PROVE  stage = "first" /\ sub = 0 /\ Cur = card
BY DEF StructInv, Stages, InSend, Cur

\* As long as nothing was sent, everything is edited and so all of it counts.
LEMMA FreshBook == StructInv /\ Fresh /\ AllEdited /\ AnnouncedIsPacked => Bookkept
<1> SUFFICES ASSUME StructInv, Fresh, AllEdited, AnnouncedIsPacked PROVE Bookkept
  OBVIOUS
<1>1. /\ m_vec \in Seq(Entry) /\ Len(cmd) \in Nat /\ Chain(m_vec, Len(cmd)) /\ DOMAIN cmd = 1 .. Len(cmd)
  BY EditTypes, StructureTypes DEF StructInv
<1>2. /\ \A u \in 1 .. Len(cmd) : cmd[u].edited
      /\ FullyEdited(m_vec) /\ m_num_edits = Len(m_vec)
  BY <1>1 DEF AllEdited
<1>3. Counted
  BY <1>1, <1>2, AllCounted DEF Counted
<1>4. stage = "first" /\ snd # "reply" /\ ~m_finalized
  BY Quiet DEF Fresh
<1>5. Progress /\ Replied
  BY <1>4 DEF Progress, Replied
<1>6. Known
  <2>1. KnownIn(Cur.tab, m_vec, cmd, FALSE)
    BY <1>1, <1>2, KnownFresh
  <2> QED
    BY <1>4, <2>1 DEF Known, KnownIn
<1> QED
  BY <1>3, <1>5, <1>6 DEF Bookkept

\* A step that leaves the list and the card alone.
LEMMA SameBook ==
    ASSUME Bookkept, Undisturbed, UNCHANGED <<m_vec, cmd, m_num_edits, stage, pos, sub, card, page_read>>
    PROVE  /\ Counted' /\ Progress' /\ AnnouncedIsPacked'
           /\ m_finalized' = m_finalized => Known'
<1>1. Counted'
  BY DEF Bookkept, Counted
<1>2. Progress'
  BY DEF Bookkept, Progress, Cur
<1>3. AnnouncedIsPacked'
  BY DEF Bookkept, AnnouncedIsPacked
<1>4. m_finalized' = m_finalized => Known'
  BY DEF Bookkept, Known, Cur
<1> QED
  BY <1>1, <1>2, <1>3, <1>4

LEMMA IdleBook ==
    ASSUME Bookkept, UNCHANGED <<m_vec, cmd, m_num_edits, stage, pos, sub, card, page_read>>,
           UNCHANGED <<snd, m_finalized, new_list, overlapped, failed>>
    PROVE  Bookkept'
<1> SUFFICES ASSUME Undisturbed' PROVE Bookkept'
  BY Disturbed, PTL
<1>1. Undisturbed
  BY DEF Undisturbed
<1>2. Counted' /\ Progress' /\ AnnouncedIsPacked' /\ Known'
  BY <1>1, SameBook
<1>3. AllEdited'
  BY <1>1 DEF Bookkept, AllEdited, Fresh
<1>4. Replied'
  BY <1>1 DEF Bookkept, Replied
<1> QED
  BY <1>2, <1>3, <1>4 DEF Bookkept

LEMMA BeginBook ==
    ASSUME StructInv, Bookkept, finalize_begin \/ schedule_sends
    PROVE  Bookkept'
<1> SUFFICES ASSUME Undisturbed' PROVE Bookkept'
  BY Disturbed, PTL
<1>1. /\ UNCHANGED <<m_vec, cmd, m_num_edits, stage, pos, sub, card, page_read, m_finalized, new_list, failed>>
      /\ overlapped' = (overlapped \/ over.u # 0) /\ snd = "none"
      /\ (snd' \in {"batch", "create"} /\ ~m_finalized) \/ (snd' = "schedule" /\ m_finalized)
  BY DEF finalize_begin, schedule_sends, listParts, batchVars, Sending
<1>2. Undisturbed
  BY <1>1 DEF Undisturbed
<1>3. Counted' /\ Progress' /\ AnnouncedIsPacked' /\ Known'
  BY <1>1, <1>2, SameBook
<1>4. AllEdited'
  <2>1. Fresh' => Fresh
    BY <1>1, <1>2 DEF Fresh
  <2> QED
    BY <1>1, <2>1 DEF Bookkept, AllEdited
<1>5. Replied'
  BY <1>1 DEF Replied
<1> QED
  BY <1>3, <1>4, <1>5 DEF Bookkept

LEMMA RefuseBook ==
    ASSUME StructInv, Bookkept, send_refused
    PROVE  Bookkept'
<1> SUFFICES ASSUME Undisturbed' PROVE Bookkept'
  BY Disturbed, PTL
<1>1. /\ UNCHANGED <<m_vec, cmd, m_num_edits, stage, pos, sub, card, page_read, m_finalized, new_list, failed, overlapped>>
      /\ stage = "first" /\ snd' = "none" /\ snd \in {"create", "schedule"}
  BY DEF send_refused, listParts, batchVars, boundVars, InSend
<1>2. Undisturbed
  BY <1>1 DEF Undisturbed
<1>3. Counted' /\ Progress' /\ AnnouncedIsPacked' /\ Known'
  BY <1>1, <1>2, SameBook
<1>4. AllEdited'
  <2>1. Fresh' => Fresh
    BY <1>1, <1>2 DEF Fresh, StructInv, Stages
  <2> QED
    BY <1>1, <2>1 DEF Bookkept, AllEdited
<1>5. Replied'
  BY <1>1 DEF Replied
<1> QED
  BY <1>3, <1>4, <1>5 DEF Bookkept

LEMMA ReplyBook ==
    ASSUME StructInv, Bookkept, NEW ok \in BOOLEAN, finalize_reply(ok)
    PROVE  Bookkept'
<1> SUFFICES ASSUME Undisturbed' PROVE Bookkept'
  BY Disturbed, PTL
<1>1. /\ UNCHANGED <<m_vec, cmd, m_num_edits, stage, pos, sub, card, page_read, new_list, overlapped>>
      /\ m_finalized' = ok /\ failed' = IF ok THEN failed ELSE failed + 1
      /\ snd = "reply" /\ snd' = "none"
  BY DEF finalize_reply, batchVars
<1>2. ok /\ Undisturbed
  <2>1. failed \in Nat
    BY EditBounds DEF StructInv, EditShape, EdBoundShape
  <2> QED
    BY <1>1, <2>1 DEF Undisturbed
<1>3. Counted' /\ Progress' /\ AnnouncedIsPacked'
  BY <1>1, <1>2, SameBook
<1>4. AllEdited' /\ Replied'
  BY <1>1, <1>2 DEF AllEdited, Fresh, Replied
<1>5. Known'
  <2>1. /\ m_vec \in Seq(Entry) /\ Len(cmd) \in Nat /\ Chain(m_vec, Len(cmd)) /\ DOMAIN cmd = 1 .. Len(cmd)
    BY EditTypes, StructureTypes DEF StructInv
  <2>2. \A u \in 1 .. Len(cmd) : ~cmd[u].edited
    BY <1>1, <1>2, <2>1 DEF Bookkept, Replied
  <2>3. KnownIn(Cur.tab, m_vec, cmd, m_finalized)
    BY <1>2 DEF Bookkept, Known
  <2>4. KnownIn(Cur.tab, m_vec, cmd, m_finalized')
    BY <2>1, <2>2, <2>3, KnownWhole
  <2> QED
    BY <1>1, <2>4 DEF Known, Cur
<1> QED
  BY <1>3, <1>4, <1>5 DEF Bookkept

-----------------------------------------------------------------------------
\* append
LEMMA AppendBook ==
    ASSUME StructInv, StructInv', Bookkept, NEW p \in Par, append(p)
    PROVE  Bookkept'
<1> SUFFICES ASSUME Undisturbed' PROVE Bookkept'
  BY Disturbed, PTL
<1>1. /\ UNCHANGED <<m_finalized, batchVars, sendVars, card, failed>> /\ m_num_edits' = m_num_edits + 1
      /\ overlapped' = (overlapped \/ m_finalized \/ Sending)
  BY DEF append
<1>2. Undisturbed /\ ~m_finalized /\ snd = "none"
  BY <1>1 DEF Undisturbed, Sending
<1>3. Fresh /\ Fresh'
  BY <1>1, <1>2 DEF Fresh, sendVars
<1>4. AllEdited'
  <2>1. /\ DOMAIN cmd = 1 .. Len(cmd) /\ DOMAIN cmd' = 1 .. Len(cmd) + 1 /\ Len(cmd) \in Nat
        /\ \A u \in DOMAIN cmd : cmd'[u] = cmd[u]
        /\ cmd'[Len(cmd) + 1] = [kind |-> append_kind, par |-> p, edited |-> TRUE, idx |-> 0]
        /\ Len(m_vec) \in Nat /\ Len(m_vec') = Len(m_vec) + 1
        /\ DOMAIN m_vec = 1 .. Len(m_vec) /\ DOMAIN m_vec' = 1 .. Len(m_vec) + 1
        /\ \A i \in DOMAIN m_vec : m_vec'[i] = m_vec[i]
        /\ m_vec'[Len(m_vec) + 1].type # "COPYLIST"
    BY Appends DEF StructInv
  <2>2. /\ \A u \in DOMAIN cmd : cmd[u].edited
        /\ FullyEdited(m_vec) /\ FullyEdited(new_list) /\ m_num_edits = Len(m_vec)
    BY <1>3 DEF Bookkept, AllEdited
  <2>3. \A u \in DOMAIN cmd' : cmd'[u].edited
    <3>1. cmd'[Len(cmd) + 1].edited
      BY <2>1
    <3> QED
      BY <2>1, <2>2, <3>1
  <2>4. FullyEdited(m_vec')
    BY <2>1, <2>2 DEF FullyEdited
  <2>5. FullyEdited(new_list') /\ m_num_edits' = Len(m_vec')
    BY <1>1, <2>1, <2>2 DEF batchVars
  <2> QED
    BY <2>3, <2>4, <2>5 DEF AllEdited
<1>5. AnnouncedIsPacked'
  BY <1>1, <1>2 DEF Bookkept, AnnouncedIsPacked
<1> QED
  BY <1>3, <1>4, <1>5, FreshBook, PTL

\* get_cmd_for_overwrite
LEMMA MarkCount ==
    ASSUME StructInv, NEW i \in DOMAIN m_vec, NEW k \in DOMAIN m_vec[i].subs,
           NEW u, u = m_vec[i].subs[k], Mark(i, u),
           m_num_edits = Cardinality(EdEntries(m_vec, cmd)), \A j \in DOMAIN m_vec : ListOK(m_vec[j], cmd)
    PROVE  m_num_edits' = Cardinality(EdEntries(m_vec', cmd')) /\ \A j \in DOMAIN m_vec' : ListOK(m_vec'[j], cmd')
<1>1. /\ m_vec \in Seq(Entry) /\ Len(cmd) \in Nat /\ Chain(m_vec, Len(cmd)) /\ DOMAIN cmd = 1 .. Len(cmd)
      /\ VecOK(m_vec, cmd, overwrites) /\ EditShape /\ Structure
  BY EditTypes, StructureTypes DEF StructInv
<1>0. /\ u \in DOMAIN cmd
      /\ KeepsEntries(m_vec, m_vec') /\ KeepsCmds(cmd, cmd')
      /\ cmd'[u].edited
      /\ \A w \in DOMAIN cmd : (w # u => cmd'[w] = cmd[w]) /\ cmd'[w].par = cmd[w].par
      /\ m_vec[i].type = "COPYLIST" /\ ~cmd[u].edited =>
            /\ m_vec'[i].num_edits = m_vec[i].num_edits + 1 /\ m_vec'[i].edited
            /\ \A j \in DOMAIN m_vec : j # i => m_vec'[j] = m_vec[j]
      /\ ~(m_vec[i].type = "COPYLIST" /\ ~cmd[u].edited) => m_vec' = m_vec
      /\ m_num_edits' = IF Ed(m_vec[i], cmd) THEN m_num_edits ELSE m_num_edits + 1
      /\ overwrites' = overwrites + 1
  BY <1>1, Marks
<1>2. /\ u \in DOMAIN cmd
      /\ KeepsEntries(m_vec, m_vec') /\ cmd'[u].edited
      /\ \A w \in DOMAIN cmd : w # u => cmd'[w] = cmd[w]
      /\ m_vec[i].type = "COPYLIST" /\ ~cmd[u].edited =>
            /\ m_vec'[i].num_edits = m_vec[i].num_edits + 1 /\ m_vec'[i].edited
            /\ \A j \in DOMAIN m_vec : j # i => m_vec'[j] = m_vec[j]
      /\ ~(m_vec[i].type = "COPYLIST" /\ ~cmd[u].edited) => m_vec' = m_vec
      /\ m_num_edits' = IF Ed(m_vec[i], cmd) THEN m_num_edits ELSE m_num_edits + 1
  BY <1>0
<1>3. /\ DOMAIN m_vec' = DOMAIN m_vec /\ \A j \in DOMAIN m_vec : j # i => m_vec'[j] = m_vec[j]
      /\ m_vec'[i].type = m_vec[i].type /\ m_vec'[i].subs = m_vec[i].subs
  BY <1>2 DEF KeepsEntries
<1>4. \A j \in DOMAIN m_vec : j # i => SameEntry(m_vec[j], m_vec'[j], cmd, cmd') /\ 1 \in DOMAIN m_vec[j].subs
  <2> SUFFICES ASSUME NEW j \in DOMAIN m_vec, j # i
               PROVE  SameEntry(m_vec[j], m_vec'[j], cmd, cmd') /\ 1 \in DOMAIN m_vec[j].subs
    OBVIOUS
  <2>1. /\ 1 \in DOMAIN m_vec[j].subs
        /\ \A l \in DOMAIN m_vec[j].subs : m_vec[j].subs[l] \in DOMAIN cmd /\ m_vec[j].subs[l] # u
    <3>1. m_vec \in Seq(Entry) /\ Len(cmd) \in Nat /\ Chain(m_vec, Len(cmd)) /\ DOMAIN cmd = 1 .. Len(cmd)
      BY <1>1
    <3>2. /\ 1 \in DOMAIN m_vec[j].subs
          /\ \A l \in DOMAIN m_vec[j].subs : m_vec[j].subs[l] \in 1 .. Len(cmd) /\ m_vec[j].subs[l] # m_vec[i].subs[k]
      BY <3>1, OtherEntry
    <3> QED
      BY <3>1, <3>2
  <2>2. m_vec'[j] = m_vec[j]
    BY <1>3
  <2>3. \A l \in DOMAIN m_vec[j].subs : cmd'[m_vec[j].subs[l]] = cmd[m_vec[j].subs[l]]
    BY <1>2, <2>1
  <2> QED
    BY <2>1, <2>2, <2>3 DEF SameEntry
<1>5. /\ (Ed(m_vec'[i], cmd') <=> Ed(m_vec[i], cmd)) => EdEntries(m_vec', cmd') = EdEntries(m_vec, cmd)
      /\ Ed(m_vec'[i], cmd') => EdEntries(m_vec', cmd') = EdEntries(m_vec, cmd) \cup {i}
      /\ ~Ed(m_vec'[i], cmd') => EdEntries(m_vec', cmd') = EdEntries(m_vec, cmd) \ {i}
      /\ \A j \in DOMAIN m_vec : j # i => /\ ListOK(m_vec'[j], cmd') <=> ListOK(m_vec[j], cmd)
                                         /\ Through(m_vec'[j], cmd') <=> Through(m_vec[j], cmd)
  <2>1. DOMAIN m_vec' = DOMAIN m_vec
    BY <1>3
  <2> QED
    BY <1>4, <2>1, OthersCounted
<1>6. EdSubs(m_vec'[i], cmd') = EdSubs(m_vec[i], cmd) \cup {k}
  <2>1. ASSUME NEW l \in DOMAIN m_vec[i].subs, l # k PROVE cmd'[m_vec[i].subs[l]].edited <=> cmd[m_vec[i].subs[l]].edited
    <3>1. m_vec[i].subs[l] # u
      BY <1>1, <2>1, ChainOnce
    <3>2. m_vec[i].subs[l] \in DOMAIN cmd
      BY <1>1, PlaceCmd
    <3> QED
      BY <1>2, <3>1, <3>2
  <2> QED
    BY <1>2, <1>3, <2>1 DEF EdSubs
<1>7. m_vec[i] \in Entry /\ m_vec[i].num_edits \in Nat /\ ListOK(m_vec[i], cmd)
  BY <1>1, EntryType
<1>8. ListOK(m_vec'[i], cmd') /\ Ed(m_vec'[i], cmd')
  <2>1. CASE m_vec[i].type = "COPYLIST" /\ ~cmd[u].edited
    <3>1. k \notin EdSubs(m_vec[i], cmd)
      BY <2>1 DEF EdSubs
    <3>2. Cardinality(EdSubs(m_vec'[i], cmd')) = Cardinality(EdSubs(m_vec[i], cmd)) + 1
      BY <1>6, <1>7, <3>1, OneMore, SubsFinite
    <3>3. m_vec[i].num_edits = Cardinality(EdSubs(m_vec[i], cmd))
      BY <1>7, <2>1 DEF ListOK
    <3>4. m_vec'[i].num_edits = Cardinality(EdSubs(m_vec'[i], cmd')) /\ m_vec'[i].num_edits > 0 /\ m_vec'[i].edited
      BY <1>2, <1>7, <2>1, <3>2, <3>3
    <3> QED
      BY <1>3, <2>1, <3>4 DEF ListOK, Ed
  <2>2. CASE m_vec[i].type = "COPYLIST" /\ cmd[u].edited
    <3>1. k \in EdSubs(m_vec[i], cmd) /\ m_vec' = m_vec
      BY <1>2, <2>2 DEF EdSubs
    <3>2. EdSubs(m_vec'[i], cmd') = EdSubs(m_vec[i], cmd)
      BY <1>6, <3>1
    <3>3. Cardinality(EdSubs(m_vec[i], cmd)) # 0
      BY <1>7, <3>1, SubsFinite
    <3>4. m_vec[i].num_edits = Cardinality(EdSubs(m_vec[i], cmd)) /\ (m_vec[i].edited <=> m_vec[i].num_edits > 0)
      BY <1>7, <2>2 DEF ListOK
    <3>5. m_vec[i].edited
      BY <1>7, <3>3, <3>4
    <3> QED
      BY <2>2, <3>1, <3>2, <3>4, <3>5 DEF ListOK, Ed
  <2>3. CASE m_vec[i].type # "COPYLIST"
    <3>1. Num(m_vec[i]) = 1
      BY <1>1, <2>3 DEF VecOK, EntryOK
    <3>2. k = 1
      BY <1>7, <3>1, EntryType
    <3>3. Fst(m_vec'[i]) = u
      BY <1>3, <3>2 DEF Fst
    <3> QED
      BY <1>2, <1>3, <2>3, <3>3 DEF ListOK, Ed
  <2> QED
    BY <2>1, <2>2, <2>3
<1>9. m_num_edits' = Cardinality(EdEntries(m_vec', cmd'))
  <2>1. CASE Ed(m_vec[i], cmd)
    <3>1. i \in EdEntries(m_vec, cmd)
      BY <2>1 DEF EdEntries
    <3>2. EdEntries(m_vec', cmd') = EdEntries(m_vec, cmd)
      BY <1>5, <1>8, <3>1
    <3> QED
      BY <1>2, <2>1, <3>2
  <2>2. CASE ~Ed(m_vec[i], cmd)
    <3>1. i \notin EdEntries(m_vec, cmd)
      BY <2>2 DEF EdEntries
    <3>2. Cardinality(EdEntries(m_vec', cmd')) = Cardinality(EdEntries(m_vec, cmd)) + 1
      BY <1>1, <1>5, <1>8, <3>1, OneMore, EntriesFinite
    <3> QED
      BY <1>2, <2>2, <3>2
  <2> QED
    BY <2>1, <2>2
<1>10. ASSUME NEW j \in DOMAIN m_vec' PROVE ListOK(m_vec'[j], cmd')
  <2>1. j \in DOMAIN m_vec /\ ListOK(m_vec[j], cmd)
    BY <1>3
  <2>2. CASE j = i
    BY <1>8, <2>2
  <2>3. CASE j # i
    <3>1. SameEntry(m_vec[j], m_vec'[j], cmd, cmd') /\ 1 \in DOMAIN m_vec[j].subs
      BY <1>4, <2>1, <2>3
    <3>2. ListOK(m_vec'[j], cmd') <=> ListOK(m_vec[j], cmd)
      BY <3>1, EntryEdits
    <3> QED
      BY <2>1, <3>2
  <2> QED
    BY <2>2, <2>3
<1> QED
  BY <1>9, <1>10

LEMMA MarkBook ==
    ASSUME StructInv, StructInv', Bookkept, NEW i \in DOMAIN m_vec, NEW k \in DOMAIN m_vec[i].subs,
           NEW u, u = m_vec[i].subs[k], Mark(i, u)
    PROVE  Bookkept'
<1> SUFFICES ASSUME Undisturbed' PROVE Bookkept'
  BY Disturbed, PTL
<1>1. /\ UNCHANGED <<m_finalized, batchVars, sendVars, card, failed>> /\ overlapped' = (overlapped \/ Sending)
  BY DEF Mark
<1>2. Undisturbed /\ snd = "none" /\ snd' = "none"
  BY <1>1 DEF Undisturbed, Sending, sendVars
<1>3. stage = "first" /\ stage' = "first" /\ Cur = card /\ Cur' = card
  BY <1>1, <1>2, Quiet DEF sendVars, Cur
<1>4. /\ u \in DOMAIN cmd /\ KeepsEntries(m_vec, m_vec') /\ KeepsCmds(cmd, cmd') /\ cmd'[u].edited
      /\ \A w \in DOMAIN cmd : (w # u => cmd'[w] = cmd[w]) /\ cmd'[w].par = cmd[w].par
      /\ ~(m_vec[i].type = "COPYLIST" /\ ~cmd[u].edited) => m_vec' = m_vec
      /\ m_num_edits' = IF Ed(m_vec[i], cmd) THEN m_num_edits ELSE m_num_edits + 1
  BY Marks DEF StructInv
<1>5. Counted'
  <2>1. m_num_edits = Cardinality(EdEntries(m_vec, cmd)) /\ \A j \in DOMAIN m_vec : ListOK(m_vec[j], cmd)
    BY <1>2, <1>3 DEF Bookkept, Counted
  <2>2. m_num_edits' = Cardinality(EdEntries(m_vec', cmd')) /\ \A j \in DOMAIN m_vec' : ListOK(m_vec'[j], cmd')
    BY <2>1, MarkCount
  <2> QED
    BY <2>2 DEF Counted
<1>6. AllEdited'
  <2> SUFFICES ASSUME Fresh' PROVE AllEdited'
    BY DEF AllEdited
  <2>1. Fresh
    BY <1>1, <1>2 DEF Fresh
  <2>2. /\ \A w \in DOMAIN cmd : cmd[w].edited
        /\ FullyEdited(m_vec) /\ FullyEdited(new_list) /\ m_num_edits = Len(m_vec)
    BY <2>1 DEF Bookkept, AllEdited
  <2>3. m_vec' = m_vec
    BY <1>4, <2>2
  <2>4. \A w \in DOMAIN cmd' : cmd'[w].edited
    BY <1>4, <2>2 DEF KeepsCmds
  <2>5. Ed(m_vec[i], cmd)
    BY <2>2, FirstCmd DEF Ed, FullyEdited, StructInv
  <2>6. m_num_edits' = m_num_edits
    BY <1>4, <2>5
  <2> QED
    BY <1>1, <2>2, <2>3, <2>4, <2>6 DEF AllEdited, batchVars
<1>7. Progress' /\ Replied'
  BY <1>2, <1>3 DEF Progress, Replied
<1>8. AnnouncedIsPacked'
  BY <1>1, <1>2 DEF Bookkept, AnnouncedIsPacked
<1>9. Known'
  <2>1. KnownIn(card.tab, m_vec, cmd, m_finalized)
    BY <1>2, <1>3 DEF Bookkept, Known
  <2>2. DOMAIN m_vec' = DOMAIN m_vec /\ \A j \in DOMAIN m_vec : m_vec'[j].type = m_vec[j].type /\ m_vec'[j].subs = m_vec[j].subs
    BY <1>4 DEF KeepsEntries
  <2>3. \A j \in DOMAIN m_vec : \A l \in DOMAIN m_vec[j].subs : m_vec[j].subs[l] \in DOMAIN cmd
    BY PlaceCmd DEF StructInv
  <2>4. \A w \in DOMAIN cmd : ~cmd'[w].edited => ~cmd[w].edited /\ cmd'[w].par = cmd[w].par
    BY <1>4
  <2>5. \A j \in DOMAIN m_vec : \A l \in DOMAIN m_vec[j].subs :
           ~cmd'[m_vec[j].subs[l]].edited => /\ ~cmd[m_vec[j].subs[l]].edited
                                             /\ cmd'[m_vec[j].subs[l]].par = cmd[m_vec[j].subs[l]].par
    BY <2>3, <2>4
  <2>6. KnownIn(card.tab, m_vec', cmd', m_finalized)
    BY <2>1, <2>2, <2>5, KnownKeeps
  <2> QED
    BY <1>1, <1>3, <2>6 DEF Known
<1> QED
  BY <1>5, <1>6, <1>7, <1>8, <1>9 DEF Bookkept

\* overwrite
LEMMA OverwriteBook ==
    ASSUME StructInv, StructInv', Bookkept, overwrite, Undisturbed => cmd[over.u].edited
    PROVE  Bookkept'
<1> SUFFICES ASSUME Undisturbed' PROVE Bookkept'
  BY Disturbed, PTL
<1>1. /\ UNCHANGED <<m_vec, m_num_edits, m_finalized, batchVars, sendVars, card, failed>>
      /\ overlapped' = (overlapped \/ Sending)
  BY DEF overwrite
<1>2. Undisturbed /\ snd = "none" /\ snd' = "none"
  BY <1>1 DEF Undisturbed, Sending, sendVars
<1>3. stage = "first" /\ stage' = "first" /\ Cur = card /\ Cur' = card
  BY <1>1, <1>2, Quiet DEF sendVars, Cur
<1>4. /\ over.u \in DOMAIN cmd /\ DOMAIN cmd' = DOMAIN cmd
      /\ \A w \in DOMAIN cmd : (w # over.u => cmd'[w] = cmd[w]) /\ cmd'[w].edited = cmd[w].edited
  BY Overwrites DEF StructInv, KeepsCmds
<1>5. \A j \in DOMAIN m_vec : \A l \in DOMAIN m_vec[j].subs : m_vec[j].subs[l] \in DOMAIN cmd
  BY PlaceCmd DEF StructInv
<1>6. Counted'
  <2>1. m_num_edits = Cardinality(EdEntries(m_vec, cmd)) /\ \A j \in DOMAIN m_vec : ListOK(m_vec[j], cmd)
    BY <1>2, <1>3 DEF Bookkept, Counted
  <2>2. \A j \in DOMAIN m_vec : SameEntry(m_vec[j], m_vec[j], cmd, cmd') /\ 1 \in DOMAIN m_vec[j].subs
    BY <1>4, <1>5, FirstCmd DEF SameEntry, StructInv
  <2>3. EdEntries(m_vec, cmd') = EdEntries(m_vec, cmd)
        /\ \A j \in DOMAIN m_vec : ListOK(m_vec[j], cmd') <=> ListOK(m_vec[j], cmd)
    BY <2>2, AllSame
  <2> QED
    BY <1>1, <2>1, <2>3 DEF Counted
<1>7. AllEdited'
  <2>1. Fresh' => Fresh
    BY <1>1, <1>2 DEF Fresh
  <2> QED
    BY <1>1, <1>4, <2>1 DEF Bookkept, AllEdited, batchVars
<1>8. Progress' /\ Replied'
  BY <1>2, <1>3 DEF Progress, Replied
<1>9. AnnouncedIsPacked'
  BY <1>1, <1>2 DEF Bookkept, AnnouncedIsPacked
<1>10. Known'
  <2>1. KnownIn(card.tab, m_vec, cmd, m_finalized)
    BY <1>2, <1>3 DEF Bookkept, Known
  <2>4. \A w \in DOMAIN cmd : ~cmd'[w].edited => ~cmd[w].edited /\ cmd'[w].par = cmd[w].par
    BY <1>2, <1>4
  <2>5. \A j \in DOMAIN m_vec : \A l \in DOMAIN m_vec[j].subs :
           ~cmd'[m_vec[j].subs[l]].edited => /\ ~cmd[m_vec[j].subs[l]].edited
                                             /\ cmd'[m_vec[j].subs[l]].par = cmd[m_vec[j].subs[l]].par
    BY <1>5, <2>4
  <2>6. KnownIn(card.tab, m_vec, cmd', m_finalized)
    BY <2>1, <2>5, KnownKeeps
  <2> QED
    BY <1>1, <1>3, <2>6 DEF Known
<1> QED
  BY <1>6, <1>7, <1>8, <1>9, <1>10 DEF Bookkept

-----------------------------------------------------------------------------
\* A round of optimize_batch_copies: everything stays edited.
WholeEdit(e) == e.type = "COPYLIST" => e.edited /\ e.num_edits = Num(e)
LEMMA PushFull ==
    ASSUME NEW vec \in Seq(Entry), NEW e \in Entry, FullyEdited(vec), WholeEdit(e)
    PROVE  FullyEdited(Pushed(vec, e)) /\ Pushed(vec, e) \in Seq(Entry)
<1> DEFINE f == IndexOf(e, Len(vec))
           v == Pushed(vec, e)
<1>1. /\ v \in Seq(Entry) /\ Len(vec) \in Nat
      /\ DOMAIN vec = 1 .. Len(vec) /\ DOMAIN v = 1 .. Len(vec) + 1
      /\ \A i \in DOMAIN vec : v[i] = vec[i]
      /\ v[Len(vec) + 1] = f
  BY PushedIs
<1>2. f.type = e.type /\ f.subs = e.subs /\ f.num_edits = e.num_edits /\ f.edited = e.edited
  BY <1>1, IndexEntry
<1> HIDE DEF f, v
<1>3. f.type = "COPYLIST" => f.edited /\ f.num_edits = Num(f)
  BY <1>2 DEF WholeEdit, Num
<1>4. \A i \in DOMAIN v : i \in DOMAIN vec \/ i = Len(vec) + 1
  BY <1>1
<1>5. FullyEdited(v)
  BY <1>1, <1>3, <1>4 DEF FullyEdited
<1> QED
  BY <1>1, <1>5 DEF v

LEMMA BatchFull ==
    ASSUME EditShape, Structure, NEW s, NEW t, RunOf(m_vec, cmd, s, t)
    PROVE  Batch(s, t) \in Entry /\ WholeEdit(Batch(s, t))
<1>1. /\ Batch(s, t) \in Entry /\ Num(Batch(s, t)) = t - s + 1
      /\ s = t => Batch(s, t) = m_vec[s]
      /\ s # t => Batch(s, t).num_edits = t - s + 1 /\ Batch(s, t).edited
  BY BatchIs
<1>2. s \in s .. t /\ m_vec[s].type = "COPY"
  BY DEF RunOf
<1> QED
  BY <1>1, <1>2 DEF WholeEdit

\* The constructor of a copy list touches neither marks nor parameters.
LEMMA RoundCmds ==
    ASSUME EditShape, Structure, Stages, batch_none \/ batch_on \/ batch_last \/ batch_break
    PROVE  /\ DOMAIN cmd' = DOMAIN cmd
           /\ \A u \in DOMAIN cmd : /\ cmd'[u].kind = cmd[u].kind /\ cmd'[u].par = cmd[u].par
                                    /\ cmd'[u].edited = cmd[u].edited
<1>1. CASE batch_none \/ batch_on
  BY <1>1 DEF batch_none, batch_on
<1>2. CASE batch_last
  <2>1. Round /\ InBatch(pos, start) /\ cmd' = Indexed(From, pos)
    BY <1>2 DEF batch_last
  <2>2. RunOf(m_vec, cmd, From, pos)
    BY <2>1, RunOn DEF Round
  <2> QED
    BY <2>1, <2>2, IndexedIs
<1>3. CASE batch_break
  <2>1. start # 0 /\ cmd' = Indexed(start, pos - 1)
    BY <1>3 DEF batch_break
  <2>2. RunOf(m_vec, cmd, start, pos - 1)
    BY <2>1, RunIs
  <2> QED
    BY <2>1, <2>2, IndexedIs
<1> QED
  BY <1>1, <1>2, <1>3

LEMMA RoundFull ==
    ASSUME EditShape, Structure, Stages, batch_none \/ batch_on \/ batch_last \/ batch_break,
           FullyEdited(m_vec), FullyEdited(new_list)
    PROVE  FullyEdited(new_list')
<1>0. new_list \in Seq(Entry) /\ m_vec \in Seq(Entry)
  BY EditTypes
<1>1. CASE batch_none
  <2>1. Round /\ new_list' = Pushed(new_list, m_vec[pos])
    BY <1>1 DEF batch_none
  <2>2. pos \in DOMAIN m_vec
    BY <2>1, Rounds
  <2>3. m_vec[pos] \in Entry /\ WholeEdit(m_vec[pos])
    BY <1>0, <2>2 DEF FullyEdited, WholeEdit
  <2> QED
    BY <1>0, <2>1, <2>3, PushFull
<1>2. CASE batch_on
  BY <1>2 DEF batch_on
<1>3. CASE batch_last
  <2>1. Round /\ InBatch(pos, start) /\ new_list' = Pushed(new_list, Batch(From, pos))
    BY <1>3 DEF batch_last
  <2>2. RunOf(m_vec, cmd, From, pos)
    BY <2>1, RunOn DEF Round
  <2>3. Batch(From, pos) \in Entry /\ WholeEdit(Batch(From, pos))
    BY <2>2, BatchFull
  <2> QED
    BY <1>0, <2>1, <2>3, PushFull
<1>4. CASE batch_break
  <2> DEFINE v == Pushed(new_list, Batch(start, pos - 1))
  <2>1. Round /\ start # 0 /\ new_list' = Pushed(v, m_vec[pos])
    BY <1>4 DEF batch_break
  <2>2. RunOf(m_vec, cmd, start, pos - 1)
    BY <2>1, RunIs
  <2>3. Batch(start, pos - 1) \in Entry /\ WholeEdit(Batch(start, pos - 1))
    BY <2>2, BatchFull
  <2>4. v \in Seq(Entry) /\ FullyEdited(v)
    BY <1>0, <2>3, PushFull
  <2>5. pos \in DOMAIN m_vec
    BY <2>1, Rounds
  <2>6. m_vec[pos] \in Entry /\ WholeEdit(m_vec[pos])
    BY <1>0, <2>5 DEF FullyEdited, WholeEdit
  <2> HIDE DEF v
  <2> QED
    BY <2>1, <2>4, <2>6, PushFull
<1> QED
  BY <1>1, <1>2, <1>3, <1>4

LEMMA RoundBook ==
    ASSUME StructInv, StructInv', Bookkept, batch_none \/ batch_on \/ batch_last \/ batch_break
    PROVE  Bookkept'
<1> SUFFICES ASSUME Undisturbed' PROVE Bookkept'
  BY Disturbed, PTL
<1>0. EditShape /\ Structure /\ Stages /\ Round
  BY DEF StructInv, batch_none, batch_on, batch_last, batch_break
<1>1. /\ snd = "batch" /\ snd' = "batch" /\ m_vec' = m_vec /\ m_num_edits' = m_num_edits
      /\ m_finalized' = m_finalized /\ ~m_finalized
      /\ UNCHANGED <<card, boundVars>>
  BY <1>0, Rounds
<1>2. Undisturbed /\ Fresh /\ Fresh'
  BY <1>1 DEF Undisturbed, Fresh, boundVars
<1>3. AllEdited'
  <2>1. /\ \A u \in DOMAIN cmd : cmd[u].edited
        /\ FullyEdited(m_vec) /\ FullyEdited(new_list) /\ m_num_edits = Len(m_vec)
    BY <1>2 DEF Bookkept, AllEdited
  <2>2. DOMAIN cmd' = DOMAIN cmd /\ \A u \in DOMAIN cmd : cmd'[u].edited = cmd[u].edited
    BY <1>0, RoundCmds
  <2>3. FullyEdited(new_list')
    BY <1>0, <2>1, RoundFull
  <2> QED
    BY <1>1, <2>1, <2>2, <2>3 DEF AllEdited
<1>4. AnnouncedIsPacked'
  BY <1>1, <1>2 DEF Bookkept, AnnouncedIsPacked
<1> QED
  BY <1>2, <1>3, <1>4, FreshBook, PTL

LEMMA DoneBook ==
    ASSUME StructInv, StructInv', Bookkept, batch_done
    PROVE  Bookkept'
<1> SUFFICES ASSUME Undisturbed' PROVE Bookkept'
  BY Disturbed, PTL
<1>1. /\ snd = "batch" /\ m_vec' = new_list /\ m_num_edits' = Len(new_list) /\ new_list' = <<>> /\ snd' = "create"
      /\ UNCHANGED <<cmd, m_finalized, stage, card, boundVars>>
  BY DEF batch_done
<1>2. stage = "first" /\ ~m_finalized
  BY <1>1 DEF StructInv, Stages, InSend
<1>3. Undisturbed /\ Fresh /\ Fresh'
  BY <1>1, <1>2 DEF Undisturbed, Fresh, boundVars
<1>4. AllEdited'
  <2>1. (\A u \in DOMAIN cmd : cmd[u].edited) /\ FullyEdited(new_list)
    BY <1>3 DEF Bookkept, AllEdited
  <2>2. FullyEdited(<<>>)
    BY DEF FullyEdited
  <2> QED
    BY <1>1, <2>1, <2>2 DEF AllEdited
<1>5. AnnouncedIsPacked'
  BY <1>1, <1>3 DEF Bookkept, AnnouncedIsPacked
<1> QED
  BY <1>3, <1>4, <1>5, FreshBook, PTL

-----------------------------------------------------------------------------
\* What every step of a send starts from.
LEMMA ListTypes ==
    ASSUME StructInv
    PROVE  /\ m_vec \in Seq(Entry) /\ Len(cmd) \in Nat /\ Len(m_vec) \in Nat /\ Chain(m_vec, Len(cmd))
           /\ DOMAIN cmd = 1 .. Len(cmd) /\ DOMAIN m_vec = 1 .. Len(m_vec)
           /\ VecOK(m_vec, cmd, overwrites) /\ EditShape /\ Structure /\ Stages
           /\ pos \in Nat /\ 1 <= pos /\ sub \in Nat /\ m_num_edits \in Nat
           /\ IsCard(card) /\ IsCard(page_read)
BY EditTypes, StructureTypes DEF StructInv

\* A send of a list that is not finalized yet leaves the state in which nothing was sent.
LEMMA SendNotFresh ==
    ASSUME StructInv, InSend, m_finalized' = m_finalized, snd' = snd, stage' # "first"
    PROVE  ~Fresh'
BY DEF Fresh, InSend
LEMMA SentNotFresh ==
    ASSUME StructInv, InSend, m_finalized' = m_finalized, snd' = IF snd = "create" THEN "reply" ELSE "none"
    PROVE  ~Fresh'
<1>1. CASE snd = "create"
  BY <1>1 DEF Fresh
<1>2. CASE snd = "schedule"
  BY <1>2 DEF Fresh, StructInv, Stages
<1> QED
  BY <1>1, <1>2 DEF InSend

\* The message alone: there was nothing to send.
LEMMA BareBook ==
    ASSUME StructInv, Bookkept, send_bare
    PROVE  Bookkept'
<1> SUFFICES ASSUME Undisturbed' PROVE Bookkept'
  BY Disturbed, PTL
<1>1. /\ UNCHANGED <<m_vec, cmd, m_num_edits, m_finalized, page_read, overlapped, failed>>
      /\ InSend /\ stage = "first" /\ stage' = "first" /\ m_num_edits = 0
      /\ snd' = IF snd = "create" THEN "reply" ELSE "none"
      /\ card' = [card EXCEPT !.announced = 0, !.entries = 0, !.left = 0, !.last = TRUE]
  BY DEF send_bare, Sent, listParts, boundVars
<1>2. Undisturbed
  BY <1>1 DEF Undisturbed
<1>3. /\ m_num_edits = Cardinality(EdEntries(m_vec, cmd))
      /\ \A i \in DOMAIN m_vec : ListOK(m_vec[i], cmd)
  BY <1>1, <1>2 DEF Bookkept, Counted
<1>4. Counted'
  BY <1>1, <1>3 DEF Counted
<1>5. Replied'
  <2>1. \A u \in 1 .. Len(cmd) : ~cmd[u].edited
    BY <1>1, <1>3, ListTypes, NoneCounted
  <2> QED
    BY <1>1, <2>1, ListTypes DEF Replied
<1>6. card'.tab = card.tab /\ card'.announced = 0 /\ card'.entries = 0 /\ card'.left = 0
  BY <1>1, ListTypes, CardBare
<1>7. AnnouncedIsPacked'
  BY <1>6 DEF AnnouncedIsPacked
<1>8. Known'
  BY <1>1, <1>2, <1>6 DEF Bookkept, Known, Cur
<1>9. Progress' /\ AllEdited'
  BY <1>1, SentNotFresh DEF Progress, AllEdited
<1> QED
  BY <1>4, <1>5, <1>7, <1>8, <1>9 DEF Bookkept

\* The first page begins with the number of the edited entries, all of them to come.
LEMMA HalfStarts ==
    ASSUME NEW vec \in Seq(Entry), NEW c, NEW n, n = Cardinality(EdEntries(vec, c)),
           \A i \in DOMAIN vec : ListOK(vec[i], c), NEW r, r.left = 0, r.entries = 0, r.announced = n
    PROVE  Half(vec, c, 1, 0, r, n)
<1>1. Len(vec) \in Nat /\ DOMAIN vec = 1 .. Len(vec) /\ n \in Nat
  BY EntriesFinite
<1>2. ~Opened(vec, 1)
  BY <1>1 DEF Opened, ListOK
<1>3. 1 <= Len(vec) => ListOK(vec[1], c)
  BY <1>1
<1>4. r.entries + Cardinality(EdEntries(vec, c)) = n
  BY <1>1
<1>5. (\A i \in DOMAIN vec : i < 1 => Through(vec[i], c)) /\ (\A i \in DOMAIN vec : i > 1 => ListOK(vec[i], c))
  BY <1>1
<1> QED
  BY <1>2, <1>3, <1>4, <1>5 DEF Half

BeginOf(c, n) == [c EXCEPT !.announced = n, !.entries = 0, !.left = 0]
LEMMA CardBegins ==
    ASSUME NEW c, IsCard(c), NEW n \in Nat, NEW r, r = BeginOf(c, n)
    PROVE  r.tab = c.tab /\ r.announced = n /\ r.entries = 0 /\ r.left = 0
<1>1. r = CardOf(c.tab, n, 0, c.list, 0, c.last)
  BY DEF IsCard, CardOf, BeginOf
<1> QED
  BY <1>1 DEF CardOf

LEMMA PageBook ==
    ASSUME StructInv, Bookkept, page_begin
    PROVE  Bookkept'
<1> SUFFICES ASSUME Undisturbed' PROVE Bookkept'
  BY Disturbed, PTL
<1>1. /\ UNCHANGED <<m_vec, cmd, m_num_edits, m_finalized, snd, pos, sub, card, overlapped, failed>>
      /\ InSend /\ stage # "page" /\ stage' = "page"
  BY DEF page_begin, listParts, boundVars
<1>0. page_read' = IF stage = "first"
                   THEN [card EXCEPT !.announced = m_num_edits, !.entries = 0, !.left = 0] ELSE card
  BY DEF page_begin
<1>2. Undisturbed /\ Cur = card /\ Cur' = page_read'
  BY <1>1 DEF Undisturbed, Cur
<1>3. ASSUME stage = "first"
      PROVE  page_read'.tab = card.tab /\ page_read'.announced = m_num_edits /\ page_read'.entries = 0 /\ page_read'.left = 0
  <2>1. page_read' = BeginOf(card, m_num_edits)
    BY <1>0, <1>3 DEF BeginOf
  <2>2. IsCard(card) /\ m_num_edits \in Nat
    BY ListTypes
  <2> QED
    BY <2>1, <2>2, CardBegins
<1>4. stage # "first" => page_read' = card
  BY <1>0
<1>5. Progress'
  <2>1. CASE stage = "first"
    <3>1. /\ m_num_edits = Cardinality(EdEntries(m_vec, cmd))
          /\ \A i \in DOMAIN m_vec : ListOK(m_vec[i], cmd)
      BY <1>2, <2>1 DEF Bookkept, Counted
    <3>2. Half(m_vec, cmd, 1, 0, page_read', m_num_edits)
      BY <1>3, <2>1, <3>1, ListTypes, HalfStarts
    <3>3. pos = 1 /\ sub = 0
      BY <1>1, <2>1, ListTypes DEF Stages, InSend
    <3> QED
      BY <1>1, <1>2, <3>2, <3>3 DEF Progress
  <2>2. CASE stage # "first"
    <3>1. Half(m_vec, cmd, pos, sub, Cur, m_num_edits)
      BY <1>2, <2>2 DEF Bookkept, Progress
    <3> QED
      BY <1>1, <1>2, <1>4, <2>2, <3>1 DEF Progress
  <2> QED
    BY <2>1, <2>2
<1>6. Cur'.tab = Cur.tab
  BY <1>2, <1>3, <1>4
<1>7. Known'
  BY <1>1, <1>2, <1>6 DEF Bookkept, Known
<1>8. Counted' /\ Replied' /\ AllEdited'
  BY <1>1, SendNotFresh DEF Counted, Replied, AllEdited, InSend
<1>9. AnnouncedIsPacked'
  BY <1>1, <1>2 DEF Bookkept, AnnouncedIsPacked
<1> QED
  BY <1>5, <1>7, <1>8, <1>9 DEF Bookkept

\* All entries are through.
LEMMA HalfEnds ==
    ASSUME NEW vec \in Seq(Entry), NEW n \in Nat, Chain(vec, n), NEW c, NEW p \in Nat, p > Len(vec), NEW s,
           NEW r, r.entries \in Nat, NEW m, Half(vec, c, p, s, r, m)
    PROVE  /\ r.entries = r.announced /\ r.left = 0
           /\ Cardinality(EdEntries(vec, c)) = 0 /\ \A i \in DOMAIN vec : ListOK(vec[i], c)
           /\ \A u \in 1 .. n : ~c[u].edited
<1>1. Len(vec) \in Nat /\ DOMAIN vec = 1 .. Len(vec)
  OBVIOUS
<1>2. \A i \in DOMAIN vec : Through(vec[i], c)
  BY <1>1 DEF Half
<1>3. EdEntries(vec, c) = {}
  BY <1>2 DEF EdEntries, Through
<1>4. Cardinality(EdEntries(vec, c)) = 0
  BY <1>3, FS_EmptySet
<1>5. ASSUME NEW i \in DOMAIN vec PROVE ListOK(vec[i], c)
  <2>1. /\ ~Ed(vec[i], c) /\ vec[i].num_edits = 0 /\ EdSubs(vec[i], c) = {}
    BY <1>2 DEF Through
  <2>2. Cardinality(EdSubs(vec[i], c)) = 0
    BY <2>1, FS_EmptySet
  <2> QED
    BY <2>1, <2>2 DEF ListOK, Ed
<1>6. ASSUME NEW u \in 1 .. n PROVE ~c[u].edited
  <2>1. PICK i \in DOMAIN vec : \E k \in DOMAIN vec[i].subs : vec[i].subs[k] = u
    BY ChainHas
  <2> QED
    BY <1>2, <2>1 DEF Through, EdSubs
<1>7. r.entries = r.announced /\ r.left = 0
  <2>1. ~Opened(vec, p)
    BY <1>1 DEF Opened
  <2>2. r.left = 0 /\ r.entries + Cardinality(EdEntries(vec, c)) = m /\ r.announced = m
    BY <2>1 DEF Half
  <2> QED
    BY <1>4, <2>2
<1> QED
  BY <1>4, <1>5, <1>6, <1>7

\* Only what the card has read counts, not where it has it.
LEMMA HalfSame ==
    ASSUME NEW vec, NEW c, NEW p, NEW s, NEW r, NEW n, Half(vec, c, p, s, r, n),
           NEW q, q.left = r.left, q.list = r.list, q.entries = r.entries, q.announced = r.announced, NEW t, t = 0 \/ t = s
    PROVE  Half(vec, c, p, t, q, n)
BY DEF Half

LEMMA SentBook ==
    ASSUME StructInv, Bookkept, page_sent
    PROVE  Bookkept'
<1> SUFFICES ASSUME Undisturbed' PROVE Bookkept'
  BY Disturbed, PTL
<1> DEFINE b == pos > Len(m_vec)
<1>1. /\ UNCHANGED <<m_vec, cmd, m_finalized, overlapped, failed>> /\ InSend /\ stage = "page" /\ sub' = 0
      /\ card' = [page_read EXCEPT !.last = b]
  BY DEF page_sent, page_end, boundVars
<1>2. b => /\ snd' = IF snd = "create" THEN "reply" ELSE "none"
           /\ stage' = "first" /\ pos' = 1 /\ m_num_edits' = 0
  BY DEF page_sent, page_end, Sent
<1>3. ~b => stage' = "next" /\ UNCHANGED <<snd, pos, m_num_edits>>
  BY DEF page_sent, page_end
<1>4. b \in BOOLEAN
  OBVIOUS
<1> HIDE DEF b
<1>5. Undisturbed /\ Cur = page_read /\ Cur' = card'
  BY <1>1, <1>2, <1>3 DEF Undisturbed, Cur
<1>6. /\ card'.tab = page_read.tab /\ card'.announced = page_read.announced /\ card'.entries = page_read.entries
      /\ card'.list = page_read.list /\ card'.left = page_read.left /\ card'.last = b
  BY <1>1, <1>4, ListTypes, CardSent
<1>7. Known'
  BY <1>1, <1>5, <1>6 DEF Bookkept, Known
<1>8. Half(m_vec, cmd, pos, sub, page_read, m_num_edits)
  BY <1>1, <1>5 DEF Bookkept, Progress
<1>9. CASE b
  <2>1. pos > Len(m_vec) /\ page_read.entries \in Nat
    BY <1>9, ListTypes DEF b, IsCard
  <2>2. /\ page_read.entries = page_read.announced /\ page_read.left = 0
        /\ Cardinality(EdEntries(m_vec, cmd)) = 0 /\ \A i \in DOMAIN m_vec : ListOK(m_vec[i], cmd)
        /\ \A u \in 1 .. Len(cmd) : ~cmd[u].edited
    BY <1>8, <2>1, ListTypes, HalfEnds
  <2>3. Counted'
    BY <1>1, <1>2, <1>9, <2>2 DEF Counted
  <2>4. Replied'
    BY <1>1, <2>2, ListTypes DEF Replied
  <2>5. AnnouncedIsPacked'
    BY <1>6, <2>2 DEF AnnouncedIsPacked
  <2>6. Progress' /\ AllEdited'
    BY <1>1, <1>2, <1>9, SentNotFresh DEF Progress, AllEdited
  <2> QED
    BY <1>7, <2>3, <2>4, <2>5, <2>6 DEF Bookkept
<1>10. CASE ~b
  <2>1. Half(m_vec, cmd, pos, 0, card', m_num_edits)
    BY <1>6, <1>8, HalfSame
  <2>2. Progress'
    BY <1>1, <1>3, <1>5, <1>10, <2>1 DEF Progress
  <2>3. AnnouncedIsPacked'
    BY <1>6, <1>10 DEF AnnouncedIsPacked
  <2>4. Counted' /\ Replied' /\ AllEdited'
    BY <1>1, <1>3, <1>10, SendNotFresh DEF Counted, Replied, AllEdited, InSend
  <2> QED
    BY <1>7, <2>2, <2>3, <2>4 DEF Bookkept
<1> QED
  BY <1>9, <1>10

\* A send that fails disturbs all that follows.
LEMMA FailBook ==
    ASSUME StructInv, send_fail
    PROVE  Bookkept'
<1>1. failed' = failed + 1 /\ failed \in Nat
  <2>1. failed' = failed + 1
    BY DEF send_fail
  <2>2. failed \in Nat
    BY EditBounds DEF StructInv, EditShape, EdBoundShape
  <2> QED
    BY <2>1, <2>2
<1>2. ~Undisturbed'
  BY <1>1 DEF Undisturbed
<1> QED
  BY <1>2, Disturbed, PTL

-----------------------------------------------------------------------------
LEMMA OthersSame ==
    ASSUME NEW vec, NEW v, NEW c, NEW d, NEW i,
           \A j \in DOMAIN vec : j # i => SameEntry(vec[j], v[j], c, d) /\ 1 \in DOMAIN vec[j].subs,
           NEW j \in DOMAIN vec, j # i
    PROVE  /\ ListOK(vec[j], c) => ListOK(v[j], d)
           /\ Through(vec[j], c) => Through(v[j], d)
<1>1. SameEntry(vec[j], v[j], c, d) /\ 1 \in DOMAIN vec[j].subs
  OBVIOUS
<1>2. /\ Ed(v[j], d) <=> Ed(vec[j], c)
      /\ EdSubs(v[j], d) = EdSubs(vec[j], c)
      /\ ListOK(v[j], d) <=> ListOK(vec[j], c)
      /\ Through(v[j], d) <=> Through(vec[j], c)
  BY <1>1, EntryEdits
<1> QED
  BY <1>2

\* The item that is packed is the last one of its entry.
LEMMA HalfPass ==
    ASSUME NEW vec \in Seq(Entry), NEW c, NEW p \in DOMAIN vec, NEW s, NEW r, NEW n, Half(vec, c, p, s, r, n),
           NEW v, NEW d, DOMAIN v = DOMAIN vec, Len(v) = Len(vec),
           \A j \in DOMAIN vec : j # p => SameEntry(vec[j], v[j], c, d) /\ 1 \in DOMAIN vec[j].subs,
           Through(v[p], d),
           NEW q, q.left = 0, q.announced = r.announced, q.entries + Cardinality(EdEntries(v, d)) = n
    PROVE  Half(v, d, p + 1, 0, q, n)
<1>1. Len(vec) \in Nat /\ DOMAIN vec = 1 .. Len(vec) /\ p \in Nat
  OBVIOUS
<1>2. \A j \in DOMAIN vec : j # p => /\ ListOK(vec[j], c) => ListOK(v[j], d)
                                     /\ Through(vec[j], c) => Through(v[j], d)
  BY OthersSame
<1>3. /\ \A i \in DOMAIN vec : i < p => Through(vec[i], c)
      /\ \A i \in DOMAIN vec : i > p => ListOK(vec[i], c)
      /\ r.announced = n
  BY DEF Half
<1>4. ASSUME NEW i \in DOMAIN v, i < p + 1 PROVE Through(v[i], d)
  <2>1. i = p \/ (i < p /\ i # p)
    BY <1>1, <1>4
  <2> QED
    BY <1>2, <1>3, <2>1
<1>5. ASSUME NEW i \in DOMAIN v, i > p PROVE ListOK(v[i], d)
  <2>1. i # p /\ i \in DOMAIN vec
    BY <1>1, <1>5
  <2>2. ListOK(vec[i], c)
    BY <1>3, <1>5, <2>1
  <2> QED
    BY <1>2, <2>1, <2>2
<1>6. ASSUME p + 1 <= Len(v) PROVE p + 1 \in DOMAIN v /\ p + 1 > p
  BY <1>1, <1>6
<1>7. p + 1 <= Len(v) => ListOK(v[p + 1], d)
  BY <1>5, <1>6
<1>8. ~Opened(v, p + 1)
  BY <1>7 DEF Opened, ListOK
<1>9. \A i \in DOMAIN v : i > p + 1 => ListOK(v[i], d)
  BY <1>1, <1>5
<1> QED
  BY <1>3, <1>4, <1>7, <1>8, <1>9 DEF Half

\* It is not.
LEMMA HalfItem ==
    ASSUME NEW vec, NEW c, NEW p, p \in DOMAIN vec, p \in Nat, DOMAIN vec = 1 .. Len(vec),
           NEW s, NEW r, NEW n, Half(vec, c, p, s, r, n),
           NEW v, NEW d, DOMAIN v = DOMAIN vec, Len(v) = Len(vec), Len(vec) \in Nat,
           \A j \in DOMAIN vec : j # p => SameEntry(vec[j], v[j], c, d) /\ 1 \in DOMAIN vec[j].subs,
           Opened(v, p), NEW t, \A k \in 1 .. t - 1 : k \notin EdSubs(v[p], d),
           NEW q, q.left = Cardinality(EdSubs(v[p], d)), q.list = p - 1, q.announced = r.announced,
           q.entries + Cardinality(EdEntries(v, d)) = n
    PROVE  Half(v, d, p, t, q, n)
<1>2. \A j \in DOMAIN vec : j # p => /\ ListOK(vec[j], c) => ListOK(v[j], d)
                                     /\ Through(vec[j], c) => Through(v[j], d)
  BY OthersSame
<1>3. /\ \A i \in DOMAIN vec : i < p => Through(vec[i], c)
      /\ \A i \in DOMAIN vec : i > p => ListOK(vec[i], c)
      /\ r.announced = n
  BY DEF Half
<1>4. \A i \in DOMAIN v : i < p => i # p /\ i \in DOMAIN vec
  OBVIOUS
<1>5. \A i \in DOMAIN v : i > p => i # p /\ i \in DOMAIN vec
  OBVIOUS
<1>6. \A i \in DOMAIN v : i < p => Through(v[i], d)
  BY <1>2, <1>3, <1>4
<1>7. ASSUME NEW i \in DOMAIN v, i > p PROVE ListOK(v[i], d)
  <2>1. i # p /\ i \in DOMAIN vec
    BY <1>5, <1>7
  <2>2. ListOK(vec[i], c)
    BY <1>3, <1>7, <2>1
  <2> QED
    BY <1>2, <2>1, <2>2
<1> QED
  BY <1>3, <1>6, <1>7 DEF Half

\* A list whose header is packed, and one whose is not.
LEMMA HalfOpened ==
    ASSUME NEW vec, NEW c, NEW p, NEW s, NEW r, NEW n, Half(vec, c, p, s, r, n)
    PROVE  /\ Opened(vec, p) => r.left = Cardinality(EdSubs(vec[p], c)) /\ r.list = p - 1
           /\ ~Opened(vec, p) => r.left = 0 /\ (p <= Len(vec) => ListOK(vec[p], c))
           /\ s > 0 => Opened(vec, p) /\ \A k \in 1 .. s - 1 : k \notin EdSubs(vec[p], c)
           /\ r.entries + Cardinality(EdEntries(vec, c)) = n /\ r.announced = n
BY DEF Half

\* The items of a page are not seen before it is sent.
LEMMA PackBook ==
    ASSUME StructInv, Bookkept, Packing, PackKeeps, Undisturbed,
           Half(m_vec', cmd', pos', sub', page_read', m_num_edits),
           KnownIn(page_read'.tab, m_vec', cmd', m_finalized)
    PROVE  Bookkept'
<1>1. /\ UNCHANGED <<m_num_edits, m_finalized, snd, stage, card>> /\ stage = "page" /\ InSend
  BY DEF PackKeeps, Packing
<1>2. Cur' = page_read'
  BY <1>1 DEF Cur
<1>3. Progress'
  BY <1>1, <1>2 DEF Progress
<1>4. Known'
  BY <1>1, <1>2 DEF Known
<1>5. Counted' /\ Replied' /\ AllEdited'
  BY <1>1, SendNotFresh DEF Counted, Replied, AllEdited, InSend
<1>6. AnnouncedIsPacked'
  BY <1>1 DEF Bookkept, AnnouncedIsPacked
<1> QED
  BY <1>3, <1>4, <1>5, <1>6 DEF Bookkept

LEMMA PackFrom ==
    ASSUME StructInv, Bookkept, Packing, PackKeeps, Undisturbed'
    PROVE  /\ Undisturbed /\ Half(m_vec, cmd, pos, sub, page_read, m_num_edits)
           /\ KnownIn(page_read.tab, m_vec, cmd, m_finalized)
           /\ pos \in DOMAIN m_vec
<1>1. UNCHANGED <<overlapped, failed>> /\ stage = "page"
  BY DEF PackKeeps, Packing, boundVars
<1>2. Undisturbed /\ Cur = page_read
  BY <1>1 DEF Undisturbed, Cur
<1>3. pos \in DOMAIN m_vec
  BY AtEntry, ListTypes
<1> QED
  BY <1>1, <1>2, <1>3 DEF Bookkept, Progress, Known

\* An entry with one command.
LEMMA OneThrough ==
    ASSUME NEW e, NEW c, NEW o, EntryOK(e, c, o), e.type # "COPYLIST", DOMAIN e.subs = 1 .. Num(e), ~c[e.subs[1]].edited
    PROVE  Through(e, c)
<1>1. Num(e) = 1 /\ e.num_edits = 0
  BY DEF EntryOK
<1>2. EdSubs(e, c) = {}
  BY <1>1 DEF EdSubs
<1>3. ~Ed(e, c)
  BY DEF Ed, Fst
<1> QED
  BY <1>1, <1>2, <1>3 DEF Through

\* A copy list without edits.
LEMMA NoneThrough ==
    ASSUME NEW e \in Entry, NEW c, e.type = "COPYLIST", ~e.edited, e.num_edits = 0, ListOK(e, c)
    PROVE  Through(e, c)
<1>1. EdSubs(e, c) = {}
  BY SubsFinite DEF ListOK
<1> QED
  BY <1>1 DEF Through, Ed

LEMMA EachSame ==
    ASSUME StructInv
    PROVE  \A j \in DOMAIN m_vec : SameEntry(m_vec[j], m_vec[j], cmd, cmd) /\ 1 \in DOMAIN m_vec[j].subs
BY FirstCmd DEF SameEntry, StructInv

LEMMA OverBook ==
    ASSUME StructInv, Bookkept, pack_over
    PROVE  Bookkept'
<1> SUFFICES ASSUME Undisturbed' PROVE Bookkept'
  BY Disturbed, PTL
<1>1. /\ Packing /\ PackKeeps /\ ~AtEdited /\ sub <= Len(m_vec[pos].subs)
      /\ UNCHANGED <<m_vec, cmd, page_read>>
      /\ IF sub = 0 /\ ~(AtHeader /\ m_vec[pos].num_edits > 0)
         THEN pos' = pos + 1 /\ sub' = sub ELSE sub' = sub + 1 /\ pos' = pos
  BY DEF pack_over
<1>2. /\ Undisturbed /\ Half(m_vec, cmd, pos, sub, page_read, m_num_edits)
      /\ KnownIn(page_read.tab, m_vec, cmd, m_finalized)
      /\ pos \in DOMAIN m_vec
  BY <1>1, PackFrom
<1>3. /\ m_vec \in Seq(Entry) /\ DOMAIN m_vec = 1 .. Len(m_vec) /\ Len(m_vec) \in Nat /\ pos \in Nat /\ sub \in Nat
      /\ m_vec[pos] \in Entry /\ m_vec[pos].num_edits \in Nat /\ pos <= Len(m_vec)
      /\ EntryOK(m_vec[pos], cmd, overwrites) /\ DOMAIN m_vec[pos].subs = 1 .. Num(m_vec[pos])
  BY <1>2, ListTypes, ChainAt, EntryType DEF VecOK
<1>4. \A j \in DOMAIN m_vec : j # pos => SameEntry(m_vec[j], m_vec[j], cmd, cmd) /\ 1 \in DOMAIN m_vec[j].subs
  BY EachSame
<1>5. /\ Opened(m_vec, pos) => page_read.left = Cardinality(EdSubs(m_vec[pos], cmd)) /\ page_read.list = pos - 1
      /\ ~Opened(m_vec, pos) => page_read.left = 0 /\ (pos <= Len(m_vec) => ListOK(m_vec[pos], cmd))
      /\ sub > 0 => Opened(m_vec, pos) /\ \A k \in 1 .. sub - 1 : k \notin EdSubs(m_vec[pos], cmd)
      /\ page_read.entries + Cardinality(EdEntries(m_vec, cmd)) = m_num_edits /\ page_read.announced = m_num_edits
  BY <1>2, HalfOpened
<1>6. Half(m_vec, cmd, pos', sub', page_read, m_num_edits)
  <2>1. CASE sub = 0 /\ ~(AtHeader /\ m_vec[pos].num_edits > 0)
    <3>1. pos' = pos + 1 /\ sub' = 0
      BY <1>1, <2>1
    <3>2. ~Opened(m_vec, pos)
      BY <2>1 DEF Opened, AtHeader
    <3>3. Through(m_vec[pos], cmd)
      <4>1. CASE AtHeader
        <5>1. m_vec[pos].type = "COPYLIST" /\ ~m_vec[pos].edited
          BY <1>1, <1>3, <4>1 DEF AtHeader, AtEdited
        <5>2. m_vec[pos].num_edits = 0
          BY <1>3, <2>1, <4>1
        <5> QED
          BY <1>3, <1>5, <3>2, <5>1, <5>2, NoneThrough
      <4>2. CASE ~AtHeader
        <5>1. m_vec[pos].type # "COPYLIST"
          BY <2>1, <4>2 DEF AtHeader
        <5>2. ~cmd[m_vec[pos].subs[1]].edited
          BY <1>1, <1>3, <2>1, <4>2 DEF AtEdited, At
        <5> QED
          BY <1>3, <5>1, <5>2, OneThrough
      <4> QED
        BY <4>1, <4>2
    <3>4. Half(m_vec, cmd, pos + 1, 0, page_read, m_num_edits)
      BY <1>2, <1>3, <1>4, <1>5, <3>2, <3>3, HalfPass
    <3> QED
      BY <3>1, <3>4
  <2>2. CASE ~(sub = 0 /\ ~(AtHeader /\ m_vec[pos].num_edits > 0))
    <3>1. pos' = pos /\ sub' = sub + 1
      BY <1>1, <2>2
    <3>2. Opened(m_vec, pos) /\ \A k \in 1 .. (sub + 1) - 1 : k \notin EdSubs(m_vec[pos], cmd)
      <4>1. CASE sub = 0
        <5>1. AtHeader /\ m_vec[pos].num_edits > 0
          BY <2>2, <4>1
        <5>2. m_vec[pos].type = "COPYLIST" /\ ~m_vec[pos].edited
          BY <1>1, <1>3, <5>1 DEF AtHeader, AtEdited
        <5> QED
          BY <1>3, <4>1, <5>1, <5>2 DEF Opened
      <4>2. CASE sub # 0
        <5>1. sub > 0 /\ ~AtHeader
          BY <1>3, <4>2 DEF AtHeader
        <5>2. ~cmd[m_vec[pos].subs[sub]].edited
          BY <1>1, <1>3, <4>2, <5>1 DEF AtEdited, At
        <5>3. sub \notin EdSubs(m_vec[pos], cmd)
          BY <5>2 DEF EdSubs
        <5>4. \A k \in 1 .. (sub + 1) - 1 : k = sub \/ k \in 1 .. sub - 1
          BY <1>3
        <5> QED
          BY <1>5, <5>1, <5>3, <5>4
      <4> QED
        BY <4>1, <4>2
    <3>3. Half(m_vec, cmd, pos, sub + 1, page_read, m_num_edits)
      BY <1>2, <1>3, <1>4, <1>5, <3>2, HalfItem
    <3> QED
      BY <3>1, <3>3
  <2> QED
    BY <2>1, <2>2
<1> QED
  BY <1>1, <1>2, <1>6, PackBook

LEMMA EndBook ==
    ASSUME StructInv, Bookkept, pack_end
    PROVE  Bookkept'
<1> SUFFICES ASSUME Undisturbed' PROVE Bookkept'
  BY Disturbed, PTL
<1>1. /\ Packing /\ KeepsEntries(m_vec, m_vec')
      /\ m_vec'[pos].num_edits = 0 /\ m_vec'[pos].edited = m_vec[pos].edited
      /\ \A j \in DOMAIN m_vec : j # pos => m_vec'[j] = m_vec[j]
      /\ sub > Len(m_vec[pos].subs) /\ pos' = pos + 1 /\ sub' = 0 /\ PackKeeps
      /\ UNCHANGED <<cmd, used, page_read>>
  BY PacksEnd, ListTypes
<1>2. /\ Undisturbed /\ Half(m_vec, cmd, pos, sub, page_read, m_num_edits)
      /\ KnownIn(page_read.tab, m_vec, cmd, m_finalized)
      /\ pos \in DOMAIN m_vec
  BY <1>1, PackFrom
<1>3. /\ m_vec \in Seq(Entry) /\ DOMAIN m_vec = 1 .. Len(m_vec) /\ Len(m_vec) \in Nat /\ pos \in Nat /\ sub \in Nat
      /\ DOMAIN m_vec[pos].subs = 1 .. Num(m_vec[pos]) /\ Num(m_vec[pos]) \in Nat
      /\ DOMAIN m_vec' = DOMAIN m_vec /\ Len(m_vec') = Len(m_vec)
      /\ m_vec'[pos].type = m_vec[pos].type /\ m_vec'[pos].subs = m_vec[pos].subs
  BY <1>1, <1>2, ListTypes, ChainAt DEF KeepsEntries
<1>4. \A j \in DOMAIN m_vec : j # pos => SameEntry(m_vec[j], m_vec'[j], cmd, cmd) /\ 1 \in DOMAIN m_vec[j].subs
  BY <1>1, EachSame
<1>5. /\ Opened(m_vec, pos) => page_read.left = Cardinality(EdSubs(m_vec[pos], cmd)) /\ page_read.list = pos - 1
      /\ ~Opened(m_vec, pos) => page_read.left = 0 /\ (pos <= Len(m_vec) => ListOK(m_vec[pos], cmd))
      /\ sub > 0 => Opened(m_vec, pos) /\ \A k \in 1 .. sub - 1 : k \notin EdSubs(m_vec[pos], cmd)
      /\ page_read.entries + Cardinality(EdEntries(m_vec, cmd)) = m_num_edits /\ page_read.announced = m_num_edits
  BY <1>2, HalfOpened
<1>6. Opened(m_vec, pos) /\ EdSubs(m_vec[pos], cmd) = {}
  <2>1. sub > 0 /\ \A k \in 1 .. Num(m_vec[pos]) : k \in 1 .. sub - 1
    BY <1>1, <1>3 DEF Num
  <2> QED
    BY <1>3, <1>5, <2>1 DEF EdSubs
<1>7. page_read.left = 0
  BY <1>5, <1>6, FS_EmptySet
<1>8. m_vec'[pos].type = "COPYLIST" /\ ~m_vec'[pos].edited /\ ~Ed(m_vec[pos], cmd) /\ ~Ed(m_vec'[pos], cmd)
  BY <1>1, <1>3, <1>6 DEF Opened, Ed
<1>9. Through(m_vec'[pos], cmd)
  BY <1>1, <1>3, <1>6, <1>8 DEF Through, EdSubs
<1>10. /\ (Ed(m_vec'[pos], cmd) <=> Ed(m_vec[pos], cmd)) => EdEntries(m_vec', cmd) = EdEntries(m_vec, cmd)
       /\ Ed(m_vec'[pos], cmd) => EdEntries(m_vec', cmd) = EdEntries(m_vec, cmd) \cup {pos}
       /\ ~Ed(m_vec'[pos], cmd) => EdEntries(m_vec', cmd) = EdEntries(m_vec, cmd) \ {pos}
       /\ \A j \in DOMAIN m_vec : j # pos => /\ ListOK(m_vec'[j], cmd) <=> ListOK(m_vec[j], cmd)
                                            /\ Through(m_vec'[j], cmd) <=> Through(m_vec[j], cmd)
  <2>1. DOMAIN m_vec' = DOMAIN m_vec /\ pos \in DOMAIN m_vec
    BY <1>2, <1>3
  <2> QED
    BY <1>4, <2>1, OthersCounted
<1>11. page_read.entries + Cardinality(EdEntries(m_vec', cmd)) = m_num_edits
  BY <1>5, <1>8, <1>10
<1>12. Half(m_vec', cmd, pos + 1, 0, page_read, m_num_edits)
  BY <1>2, <1>3, <1>4, <1>7, <1>9, <1>11, HalfPass
<1>13. KnownIn(page_read.tab, m_vec', cmd, m_finalized)
  <2>1. \A j \in DOMAIN m_vec : m_vec'[j].type = m_vec[j].type /\ m_vec'[j].subs = m_vec[j].subs
    BY <1>1 DEF KeepsEntries
  <2> QED
    BY <1>2, <1>3, <2>1, KnownKeeps
<1> QED
  BY <1>1, <1>2, <1>12, <1>13, PackBook


\* One entry has nothing more to send, or as much as before.
LEMMA OnePacked ==
    ASSUME NEW vec, NEW v, NEW c, NEW d, DOMAIN v = DOMAIN vec, NEW i \in DOMAIN vec, ~Ed(v[i], d),
           \A j \in DOMAIN vec : j # i => SameEntry(vec[j], v[j], c, d) /\ 1 \in DOMAIN vec[j].subs
    PROVE  EdEntries(v, d) = EdEntries(vec, c) \ {i}
BY OthersCounted
LEMMA OneAlike ==
    ASSUME NEW vec, NEW v, NEW c, NEW d, DOMAIN v = DOMAIN vec, NEW i \in DOMAIN vec, Ed(v[i], d) <=> Ed(vec[i], c),
           \A j \in DOMAIN vec : j # i => SameEntry(vec[j], v[j], c, d) /\ 1 \in DOMAIN vec[j].subs
    PROVE  EdEntries(v, d) = EdEntries(vec, c)
BY OthersCounted

LEMMA HeaderReads ==
    ASSUME NEW c, IsCard(c), NEW l, NEW f, NEW r, r = HeaderRead(c, l, f)
    PROVE  /\ r.tab = c.tab /\ r.announced = c.announced
           /\ r.entries = c.entries + 1
           /\ r.list = l /\ r.left = f
<1>1. r = CardOf(c.tab, c.announced, c.entries + 1, l, f, c.last)
  BY DEF IsCard, CardOf, HeaderRead
<1> QED
  BY <1>1 DEF CardOf

LEMMA HeaderBook ==
    ASSUME StructInv, Bookkept, pack_header
    PROVE  Bookkept'
<1> SUFFICES ASSUME Undisturbed' PROVE Bookkept'
  BY Disturbed, PTL
<1>1. /\ Packing
      /\ pos \in DOMAIN m_vec /\ m_vec[pos].edited /\ sub = 0 /\ m_vec[pos].type = "COPYLIST"
      /\ KeepsEntries(m_vec, m_vec')
      /\ m_vec'[pos].num_edits = m_vec[pos].num_edits /\ ~m_vec'[pos].edited
      /\ \A j \in DOMAIN m_vec : j # pos => m_vec'[j] = m_vec[j]
      /\ m_vec[pos].idx \in Nat /\ m_vec[pos].num_edits \in Nat
      /\ cmd' = cmd /\ pos' = pos /\ sub' = 1 /\ PackKeeps
  BY PacksHeader, ListTypes
<1>2. /\ Undisturbed /\ Half(m_vec, cmd, pos, sub, page_read, m_num_edits)
      /\ KnownIn(page_read.tab, m_vec, cmd, m_finalized)
  BY <1>1, PackFrom
<1>3. /\ m_vec \in Seq(Entry) /\ DOMAIN m_vec = 1 .. Len(m_vec) /\ Len(m_vec) \in Nat /\ pos \in Nat
      /\ m_vec[pos].idx = pos - 1 /\ IsCard(page_read) /\ pos <= Len(m_vec)
      /\ DOMAIN m_vec' = DOMAIN m_vec /\ Len(m_vec') = Len(m_vec)
      /\ m_vec'[pos].type = m_vec[pos].type /\ m_vec'[pos].subs = m_vec[pos].subs
  BY <1>1, ListTypes, ChainAt DEF KeepsEntries
<1>4. \A j \in DOMAIN m_vec : j # pos => SameEntry(m_vec[j], m_vec'[j], cmd, cmd) /\ 1 \in DOMAIN m_vec[j].subs
  BY <1>1, EachSame
<1>5. /\ Opened(m_vec, pos) => page_read.left = Cardinality(EdSubs(m_vec[pos], cmd)) /\ page_read.list = pos - 1
      /\ ~Opened(m_vec, pos) => page_read.left = 0 /\ (pos <= Len(m_vec) => ListOK(m_vec[pos], cmd))
      /\ sub > 0 => Opened(m_vec, pos) /\ \A k \in 1 .. sub - 1 : k \notin EdSubs(m_vec[pos], cmd)
      /\ page_read.entries + Cardinality(EdEntries(m_vec, cmd)) = m_num_edits /\ page_read.announced = m_num_edits
  BY <1>2, HalfOpened
<1>6. m_vec[pos].num_edits = Cardinality(EdSubs(m_vec[pos], cmd)) /\ m_vec[pos].num_edits > 0
  <2>1. ~Opened(m_vec, pos)
    BY <1>1 DEF Opened
  <2> QED
    BY <1>1, <1>3, <1>5, <2>1 DEF ListOK
<1>7. Opened(m_vec', pos) /\ EdSubs(m_vec'[pos], cmd) = EdSubs(m_vec[pos], cmd)
  BY <1>1, <1>3, <1>6 DEF Opened, EdSubs
<1>8. /\ page_read'.tab = page_read.tab /\ page_read'.announced = page_read.announced
      /\ page_read'.entries = page_read.entries + 1
      /\ page_read'.list = m_vec[pos].idx /\ page_read'.left = m_vec[pos].num_edits
  <2>1. page_read' = HeaderRead(page_read, m_vec[pos].idx, m_vec[pos].num_edits)
    BY DEF pack_header, HeaderRead
  <2>2. IsCard(page_read)
    BY <1>3
  <2> QED
    BY <2>1, <2>2, HeaderReads
<1>9. pos \in EdEntries(m_vec, cmd) /\ ~Ed(m_vec'[pos], cmd)
  BY <1>1, <1>3 DEF EdEntries, Ed
<1>10. EdEntries(m_vec', cmd) = EdEntries(m_vec, cmd) \ {pos}
  <2>1. DOMAIN m_vec' = DOMAIN m_vec /\ pos \in DOMAIN m_vec
    BY <1>1, <1>3
  <2> QED
    BY <1>4, <1>9, <2>1, OnePacked
<1>11. page_read'.entries + Cardinality(EdEntries(m_vec', cmd)) = m_num_edits
  <2>1. IsFiniteSet(EdEntries(m_vec, cmd))
    BY <1>3, EntriesFinite
  <2>2. /\ Cardinality(EdEntries(m_vec', cmd)) = Cardinality(EdEntries(m_vec, cmd)) - 1
        /\ Cardinality(EdEntries(m_vec, cmd)) >= 1 /\ Cardinality(EdEntries(m_vec, cmd)) \in Nat
        /\ Cardinality(EdEntries(m_vec', cmd)) \in Nat
    BY <1>9, <1>10, <2>1, OneLess
  <2>3. page_read.entries \in Nat
    BY <1>3 DEF IsCard
  <2> QED
    BY <1>5, <1>8, <2>2, <2>3
<1>12. Half(m_vec', cmd, pos, 1, page_read', m_num_edits)
  <2>3. PICK t : t = 1
    OBVIOUS
  <2>1. \A k \in 1 .. t - 1 : k \notin EdSubs(m_vec'[pos], cmd)
    BY <2>3
  <2>2. page_read'.left = Cardinality(EdSubs(m_vec'[pos], cmd)) /\ page_read'.list = pos - 1
    BY <1>3, <1>6, <1>7, <1>8
  <2>4. Half(m_vec', cmd, pos, t, page_read', m_num_edits)
    BY <1>1, <1>2, <1>3, <1>4, <1>7, <1>8, <1>11, <2>1, <2>2, HalfItem
  <2> QED
    BY <2>3, <2>4
<1>13. KnownIn(page_read'.tab, m_vec', cmd, m_finalized)
  <2>1. \A j \in DOMAIN m_vec : m_vec'[j].type = m_vec[j].type /\ m_vec'[j].subs = m_vec[j].subs
    BY <1>1 DEF KeepsEntries
  <2>2. KnownIn(page_read.tab, m_vec', cmd, m_finalized)
    BY <1>2, <1>3, <2>1, KnownKeeps
  <2> QED
    BY <1>8, <2>2
<1> QED
  BY <1>1, <1>2, <1>12, <1>13, PackBook

\* A command that is packed: what it is to the list, and where the card has it.
LEMMA CommandAt ==
    ASSUME StructInv, pack_command
    PROVE  \E k \in DOMAIN m_vec[pos].subs :
              /\ k = (IF sub = 0 THEN 1 ELSE sub) /\ At = m_vec[pos].subs[k] /\ At \in DOMAIN cmd
              /\ sub = 0 <=> m_vec[pos].type # "COPYLIST"
<1>1. EditShape /\ Structure /\ Stages /\ Packing /\ ~AtHeader /\ sub <= Len(m_vec[pos].subs)
  BY ListTypes, Packs
<1> QED
  BY <1>1, AtCmd

LEMMA CommandKnown ==
    ASSUME StructInv, pack_command, Packing, NEW k \in DOMAIN m_vec[pos].subs, At = m_vec[pos].subs[k],
           KnownIn(page_read.tab, m_vec, cmd, m_finalized),
           NEW x, x = PlaceIn(m_vec, pos, k), page_read'.tab = TabWith(page_read.tab, x, At, cmd[At].par)
    PROVE  KnownIn(page_read'.tab, m_vec, cmd', m_finalized)
<1> DEFINE u == At
<1>1. /\ \A w \in DOMAIN cmd : (w # u => cmd'[w] = cmd[w]) /\ cmd'[w].par = cmd[w].par
      /\ ~cmd'[u].edited
  BY ListTypes, Packs
<1>2. pos \in DOMAIN m_vec
  BY ListTypes, AtEntry
<1>3. /\ m_vec \in Seq(Entry) /\ Len(cmd) \in Nat /\ Chain(m_vec, Len(cmd)) /\ VecOK(m_vec, cmd, overwrites)
      /\ DOMAIN cmd = 1 .. Len(cmd)
  BY ListTypes
<1>5. u \in DOMAIN cmd
  BY <1>2, <1>3, ChainIn
<1>4. PICK t : t = page_read.tab
  OBVIOUS
<1>6. PICK r : r = page_read'.tab
  OBVIOUS
<1> HIDE DEF u
<1>7. /\ u = m_vec[pos].subs[k] /\ r = TabWith(t, PlaceIn(m_vec, pos, k), u, cmd[u].par)
      /\ KnownIn(t, m_vec, cmd, m_finalized)
  BY <1>4, <1>6 DEF u
<1>8. KnownIn(r, m_vec, cmd', m_finalized)
  BY <1>1, <1>2, <1>3, <1>7, KnownReads
<1> QED
  BY <1>6, <1>8

LEMMA CommandBook ==
    ASSUME StructInv, Bookkept, pack_command
    PROVE  Bookkept'
<1> SUFFICES ASSUME Undisturbed' PROVE Bookkept'
  BY Disturbed, PTL
<1>0. EditShape /\ Structure /\ Stages
  BY ListTypes
<1>1. /\ Packing /\ AtEdited /\ ~AtHeader /\ sub <= Len(m_vec[pos].subs)
      /\ At \in DOMAIN cmd /\ cmd[At].edited /\ ~cmd'[At].edited
      /\ KeepsCmds(cmd, cmd')
      /\ \A w \in DOMAIN cmd : (w # At => cmd'[w] = cmd[w]) /\ cmd'[w].par = cmd[w].par
  BY <1>0, Packs
<1>2. /\ m_vec' = m_vec /\ PackKeeps
      /\ sub = 0 => pos' = pos + 1 /\ sub' = sub
      /\ sub # 0 => sub' = sub + 1 /\ pos' = pos
  BY DEF pack_command
<1>3. /\ Undisturbed /\ Half(m_vec, cmd, pos, sub, page_read, m_num_edits)
      /\ KnownIn(page_read.tab, m_vec, cmd, m_finalized)
      /\ pos \in DOMAIN m_vec
  BY <1>1, <1>2, PackFrom
<1>4. PICK k \in DOMAIN m_vec[pos].subs :
         /\ k = (IF sub = 0 THEN 1 ELSE sub) /\ At = m_vec[pos].subs[k] /\ At \in DOMAIN cmd
         /\ sub = 0 <=> m_vec[pos].type # "COPYLIST"
  BY CommandAt
<1>5. PICK u : u = At
  OBVIOUS
<1>6. /\ m_vec \in Seq(Entry) /\ DOMAIN m_vec = 1 .. Len(m_vec) /\ Len(m_vec) \in Nat /\ pos \in Nat /\ sub \in Nat
      /\ m_vec[pos] \in Entry /\ pos <= Len(m_vec) /\ m_vec[pos].idx = pos - 1
      /\ EntryOK(m_vec[pos], cmd, overwrites) /\ DOMAIN m_vec[pos].subs = 1 .. Num(m_vec[pos])
      /\ Num(m_vec[pos]) \in Nat /\ IsCard(page_read)
  BY <1>3, ListTypes, ChainAt DEF VecOK
<1>7. \A j \in DOMAIN m_vec : j # pos => SameEntry(m_vec[j], m_vec[j], cmd, cmd') /\ 1 \in DOMAIN m_vec[j].subs
  <2> SUFFICES ASSUME NEW j \in DOMAIN m_vec, j # pos
               PROVE  SameEntry(m_vec[j], m_vec[j], cmd, cmd') /\ 1 \in DOMAIN m_vec[j].subs
    OBVIOUS
  <2>1. ASSUME NEW l \in DOMAIN m_vec[j].subs PROVE cmd'[m_vec[j].subs[l]].edited <=> cmd[m_vec[j].subs[l]].edited
    <3>1. m_vec[j].subs[l] # At
      BY <1>3, <1>4, ChainOnce, ListTypes
    <3>2. m_vec[j].subs[l] \in DOMAIN cmd
      BY <1>0, PlaceCmd
    <3> QED
      BY <1>1, <3>1, <3>2
  <2> QED
    BY <1>0, <2>1, FirstCmd DEF SameEntry
<1>8. /\ Opened(m_vec, pos) => page_read.left = Cardinality(EdSubs(m_vec[pos], cmd)) /\ page_read.list = pos - 1
      /\ ~Opened(m_vec, pos) => page_read.left = 0 /\ (pos <= Len(m_vec) => ListOK(m_vec[pos], cmd))
      /\ sub > 0 => Opened(m_vec, pos) /\ \A j \in 1 .. sub - 1 : j \notin EdSubs(m_vec[pos], cmd)
      /\ page_read.entries + Cardinality(EdEntries(m_vec, cmd)) = m_num_edits /\ page_read.announced = m_num_edits
  BY <1>3, HalfOpened
<1>9. PICK idx : idx = IF sub = 0 THEN m_vec[pos].idx ELSE cmd[At].idx
  OBVIOUS
<1>10. page_read' = Read(page_read, u, idx)
  BY <1>5, <1>9 DEF pack_command
<1>11. CASE sub = 0
  <2>1. m_vec[pos].type # "COPYLIST" /\ k = 1 /\ Num(m_vec[pos]) = 1 /\ idx = pos - 1
    BY <1>4, <1>6, <1>9, <1>11 DEF EntryOK
  <2>2. ~Opened(m_vec, pos) /\ page_read.left = 0
    BY <1>8, <2>1 DEF Opened
  <2>3. /\ IsCard(page_read') /\ page_read'.announced = page_read.announced /\ page_read'.list = page_read.list
        /\ page_read'.tab = TabWith(page_read.tab, <<idx, 0>>, u, cmd[u].par)
        /\ page_read'.entries = page_read.entries + 1 /\ page_read'.left = page_read.left
    <3>1. IsCard(page_read) /\ ~(is_copy(u) /\ page_read.left > 0)
      BY <1>6, <2>2
    <3> QED
      BY <1>10, <3>1, ReadOwn
  <2>4. <<idx, 0>> = PlaceIn(m_vec, pos, k)
    BY <2>1 DEF PlaceIn
  <2>5. Through(m_vec[pos], cmd')
    <3>1. ~cmd'[m_vec[pos].subs[1]].edited
      BY <1>1, <1>4, <2>1
    <3>2. Num(m_vec[pos]) = 1 /\ m_vec[pos].num_edits = 0
      BY <1>6, <2>1 DEF EntryOK
    <3>3. EdSubs(m_vec[pos], cmd') = {}
      BY <1>6, <3>1, <3>2 DEF EdSubs
    <3> QED
      BY <2>1, <3>1, <3>2, <3>3 DEF Through, Ed, Fst
  <2>6. pos \in EdEntries(m_vec, cmd) /\ ~Ed(m_vec[pos], cmd')
    BY <1>1, <1>3, <1>4, <2>1, <2>5 DEF EdEntries, Ed, Fst, Through
  <2>7. EdEntries(m_vec, cmd') = EdEntries(m_vec, cmd) \ {pos}
    <3>1. DOMAIN m_vec = DOMAIN m_vec /\ pos \in DOMAIN m_vec
      BY <1>3
    <3> QED
      BY <1>7, <2>6, <3>1, OnePacked
  <2>8. page_read'.entries + Cardinality(EdEntries(m_vec, cmd')) = m_num_edits
    <3>1. IsFiniteSet(EdEntries(m_vec, cmd))
      BY <1>6, EntriesFinite
    <3>2. /\ Cardinality(EdEntries(m_vec, cmd')) = Cardinality(EdEntries(m_vec, cmd)) - 1
          /\ Cardinality(EdEntries(m_vec, cmd)) >= 1 /\ Cardinality(EdEntries(m_vec, cmd)) \in Nat
          /\ Cardinality(EdEntries(m_vec, cmd')) \in Nat
      BY <2>6, <2>7, <3>1, OneLess
    <3>3. page_read.entries \in Nat
      BY <1>6 DEF IsCard
    <3> QED
      BY <1>8, <2>3, <3>2, <3>3
  <2>9. Half(m_vec, cmd', pos + 1, 0, page_read', m_num_edits)
    BY <1>3, <1>6, <1>7, <2>2, <2>3, <2>5, <2>8, HalfPass
  <2>10. KnownIn(page_read'.tab, m_vec, cmd', m_finalized)
    <3>1. At = m_vec[pos].subs[k] /\ page_read'.tab = TabWith(page_read.tab, PlaceIn(m_vec, pos, k), At, cmd[At].par)
      BY <1>4, <1>5, <2>3, <2>4
    <3> QED
      BY <1>1, <1>3, <3>1, CommandKnown
  <2>11. Half(m_vec', cmd', pos', sub', page_read', m_num_edits)
    BY <1>2, <1>11, <2>9
  <2>12. KnownIn(page_read'.tab, m_vec', cmd', m_finalized)
    BY <1>2, <2>10
  <2> QED
    BY <1>1, <1>2, <1>3, <2>11, <2>12, PackBook
<1>12. CASE sub # 0
  <2>1. m_vec[pos].type = "COPYLIST" /\ k = sub /\ sub > 0
    BY <1>4, <1>6, <1>12
  <2>2. Opened(m_vec, pos) /\ page_read.left = Cardinality(EdSubs(m_vec[pos], cmd)) /\ page_read.list = pos - 1
    BY <1>8, <2>1
  <2>3. k \in EdSubs(m_vec[pos], cmd)
    BY <1>1, <1>4 DEF EdSubs
  <2>4. EdSubs(m_vec[pos], cmd') = EdSubs(m_vec[pos], cmd) \ {k}
    <3>1. ASSUME NEW l \in DOMAIN m_vec[pos].subs, l # k
          PROVE  cmd'[m_vec[pos].subs[l]].edited <=> cmd[m_vec[pos].subs[l]].edited
      <4>1. m_vec[pos].subs[l] # At
        BY <1>3, <1>4, <3>1, ChainOnce, ListTypes
      <4>2. m_vec[pos].subs[l] \in DOMAIN cmd
        BY <1>0, <1>3, PlaceCmd
      <4> QED
        BY <1>1, <4>1, <4>2
    <3> QED
      BY <1>1, <1>4, <3>1 DEF EdSubs
  <2>5. /\ Cardinality(EdSubs(m_vec[pos], cmd')) = Cardinality(EdSubs(m_vec[pos], cmd)) - 1
        /\ Cardinality(EdSubs(m_vec[pos], cmd)) >= 1 /\ Cardinality(EdSubs(m_vec[pos], cmd)) \in Nat
        /\ Cardinality(EdSubs(m_vec[pos], cmd')) \in Nat
    <3>1. IsFiniteSet(EdSubs(m_vec[pos], cmd))
      BY <1>6, SubsFinite
    <3> QED
      BY <2>3, <2>4, <3>1, OneLess
  <2>6. is_copy(u) /\ idx + 1 = k
    <3>1. PICK kind \in {"h2c", "c2h"} : \A j \in DOMAIN m_vec[pos].subs : cmd[m_vec[pos].subs[j]].kind = kind
      BY <1>6, <2>1 DEF EntryOK
    <3>2. \A j \in DOMAIN m_vec[pos].subs : cmd[m_vec[pos].subs[j]].idx = j - 1
      BY <1>6, <2>1 DEF EntryOK
    <3>3. is_copy(u)
      BY <1>4, <1>5, <3>1 DEF is_copy
    <3>4. idx = k - 1
      BY <1>4, <1>9, <1>12, <3>2
    <3> QED
      BY <1>6, <2>1, <3>3, <3>4
  <2>7. /\ IsCard(page_read') /\ page_read'.announced = page_read.announced /\ page_read'.list = page_read.list
        /\ page_read'.tab = TabWith(page_read.tab, <<page_read.list, idx + 1>>, u, cmd[u].par)
        /\ page_read'.entries = page_read.entries /\ page_read'.left = page_read.left - 1
    <3>1. IsCard(page_read) /\ is_copy(u) /\ page_read.left > 0
      BY <1>6, <2>2, <2>5, <2>6
    <3> QED
      BY <1>10, <3>1, ReadCopy
  <2>8. <<page_read.list, idx + 1>> = PlaceIn(m_vec, pos, k)
    BY <2>1, <2>2, <2>6 DEF PlaceIn
  <2>9. EdEntries(m_vec, cmd') = EdEntries(m_vec, cmd)
    <3>1. DOMAIN m_vec = DOMAIN m_vec /\ pos \in DOMAIN m_vec
      BY <1>3
    <3>3. Ed(m_vec[pos], cmd') <=> Ed(m_vec[pos], cmd)
      BY <2>1 DEF Ed
    <3> QED
      BY <1>7, <3>1, <3>3, OneAlike
  <2>10. Half(m_vec, cmd', pos, sub + 1, page_read', m_num_edits)
    <3>1. ASSUME NEW j \in 1 .. (sub + 1) - 1 PROVE j \notin EdSubs(m_vec[pos], cmd')
      <4>1. j = k \/ j \in 1 .. sub - 1
        BY <1>6, <2>1
      <4>2. j \in 1 .. sub - 1 => j \notin EdSubs(m_vec[pos], cmd)
        BY <1>8, <2>1
      <4> QED
        BY <2>4, <4>1, <4>2
    <3>2. page_read'.left = Cardinality(EdSubs(m_vec[pos], cmd')) /\ page_read'.list = pos - 1
      BY <2>2, <2>5, <2>7
    <3>3. page_read'.entries + Cardinality(EdEntries(m_vec, cmd')) = m_num_edits
      BY <1>8, <2>7, <2>9
    <3> QED
      BY <1>3, <1>6, <1>7, <2>2, <2>7, <3>1, <3>2, <3>3, HalfItem
  <2>11. KnownIn(page_read'.tab, m_vec, cmd', m_finalized)
    <3>1. At = m_vec[pos].subs[k] /\ page_read'.tab = TabWith(page_read.tab, PlaceIn(m_vec, pos, k), At, cmd[At].par)
      BY <1>4, <1>5, <2>7, <2>8
    <3> QED
      BY <1>1, <1>3, <3>1, CommandKnown
  <2>12. Half(m_vec', cmd', pos', sub', page_read', m_num_edits)
    BY <1>2, <1>12, <2>10
  <2>13. KnownIn(page_read'.tab, m_vec', cmd', m_finalized)
    BY <1>2, <2>11
  <2> QED
    BY <1>1, <1>2, <1>3, <2>12, <2>13, PackBook
<1> QED
  BY <1>11, <1>12

-----------------------------------------------------------------------------
(***************************************************************************)
(* What the application asked for.                                         *)
(***************************************************************************)
WantedPars == \A u \in DOMAIN cmd : IF over.u = u THEN over.par = want[u] ELSE AsWanted(cmd[u].par, u)
WantedOver == Undisturbed /\ over.u # 0 => snd = "none" /\ cmd[over.u].edited
LEMMA WantedParts == Wanted <=> WantedPars /\ WantedOver
BY DEF Wanted, WantedPars, WantedOver

\* A step that neither overwrites nor appends.
ParsStay == /\ UNCHANGED <<over, want>> /\ DOMAIN cmd' = DOMAIN cmd
            /\ \A u \in DOMAIN cmd : cmd'[u].kind = cmd[u].kind /\ cmd'[u].par = cmd[u].par
LEMMA ParsKeep ==
    ASSUME WantedPars, ParsStay
    PROVE  WantedPars'
<1>0. /\ over' = over /\ want' = want /\ DOMAIN cmd' = DOMAIN cmd
      /\ \A u \in DOMAIN cmd : cmd'[u].kind = cmd[u].kind /\ cmd'[u].par = cmd[u].par
  BY DEF ParsStay
<1> SUFFICES ASSUME NEW u \in DOMAIN cmd
             PROVE  IF over'.u = u THEN over'.par = want'[u] ELSE AsWanted(cmd[u].par, u)'
  BY <1>0 DEF WantedPars
<1>1. IF over.u = u THEN over.par = want[u] ELSE AsWanted(cmd[u].par, u)
  BY DEF WantedPars
<1>2. CASE over.u = u
  BY <1>0, <1>1, <1>2
<1>3. CASE over.u # u
  <2>1. cmd'[u].kind = cmd[u].kind /\ cmd'[u].par = cmd[u].par
    BY <1>0
  <2>2. AsWanted(cmd[u].par, u)'
    BY <1>0, <1>1, <1>3, <2>1 DEF AsWanted, is_copy
  <2> QED
    BY <1>0, <1>3, <2>2
<1> QED
  BY <1>2, <1>3

\* No overwrite is on its way while the list is sent.
LEMMA BusyWanted ==
    ASSUME Wanted, ParsStay, snd # "none", Undisturbed' => Undisturbed
    PROVE  Wanted'
<1>1. WantedPars'
  BY WantedParts, ParsKeep
<1>2. WantedOver'
  BY DEF Wanted, WantedOver, ParsStay
<1> QED
  BY <1>1, <1>2, WantedParts, PTL

LEMMA TestWanted ==
    ASSUME Wanted, UNCHANGED <<cmd, over, want, snd, overlapped, failed>>
    PROVE  Wanted'
BY DEF Wanted, AsWanted, is_copy, Undisturbed

LEMMA AppendWanted ==
    ASSUME StructInv, Wanted, NEW p \in Par, append(p)
    PROVE  Wanted'
<1>1. /\ Len(cmd) \in Nat /\ DOMAIN cmd = 1 .. Len(cmd) /\ DOMAIN cmd' = 1 .. Len(cmd) + 1
      /\ \A u \in DOMAIN cmd : cmd'[u] = cmd[u]
      /\ cmd'[Len(cmd) + 1] = [kind |-> append_kind, par |-> p, edited |-> TRUE, idx |-> 0]
      /\ \A u \in DOMAIN cmd : want'[u] = want[u]
      /\ want'[Len(cmd) + 1] = p
  BY Appends, ListTypes
<1>2. /\ over' = over /\ snd' = snd /\ failed' = failed /\ overlapped' = (overlapped \/ m_finalized \/ Sending)
  BY DEF append, sendVars
<1>3. over.u \in Nat /\ over.u <= Len(cmd)
  BY <1>1 DEF StructInv, EditShape, EdUserShape
<1>4. WantedPars'
  <2> SUFFICES ASSUME NEW u \in DOMAIN cmd'
               PROVE  IF over'.u = u THEN over'.par = want'[u] ELSE AsWanted(cmd[u].par, u)'
    BY DEF WantedPars
  <2>1. CASE u \in DOMAIN cmd
    <3>1. IF over.u = u THEN over.par = want[u] ELSE AsWanted(cmd[u].par, u)
      BY <2>1 DEF Wanted
    <3>2. cmd'[u] = cmd[u] /\ want'[u] = want[u]
      BY <1>1, <2>1
    <3> QED
      BY <1>2, <3>1, <3>2 DEF AsWanted, is_copy
  <2>2. CASE u \notin DOMAIN cmd
    <3>1. u = Len(cmd) + 1
      BY <1>1, <2>2
    <3>2. cmd'[u].par = p /\ want'[u] = p
      BY <1>1, <3>1
    <3>3. over'.u # u
      BY <1>1, <1>2, <1>3, <3>1
    <3> QED
      BY <3>2, <3>3 DEF AsWanted
  <2> QED
    BY <2>1, <2>2
<1>5. WantedOver'
  <2> SUFFICES ASSUME Undisturbed', over'.u # 0 PROVE snd' = "none" /\ cmd'[over'.u].edited
    BY DEF WantedOver
  <2>1. Undisturbed /\ over.u # 0
    BY <1>2 DEF Undisturbed
  <2>4. over.u \in DOMAIN cmd
    BY <1>1, <1>3, <2>1
  <2>2. snd = "none" /\ cmd[over.u].edited
    BY <2>1 DEF Wanted
  <2>3. cmd'[over.u] = cmd[over.u]
    BY <1>1, <2>4
  <2> QED
    BY <1>2, <2>2, <2>3
<1> QED
  BY <1>4, <1>5, WantedParts, PTL

\* get_cmd_for_overwrite marks the command that it is to overwrite.
LEMMA MarkWanted ==
    ASSUME StructInv, Wanted, NEW usr_idx \in 0 .. Len(cmd) - 1, NEW p \in Par,
           get_cmd_for_overwrite(usr_idx, p) \/ overwrite_refused(usr_idx)
    PROVE  Wanted'
<1>1. Mark(EntryOf(usr_idx), SubOf(usr_idx))
  BY DEF get_cmd_for_overwrite, overwrite_refused
<1>2. PICK i, u : i = EntryOf(usr_idx) /\ u = usr_idx + 1
  OBVIOUS
<1>3. /\ i \in DOMAIN m_vec /\ SubOf(usr_idx) = u
      /\ \E k \in DOMAIN m_vec[i].subs : m_vec[i].subs[k] = u
  <2>1. m_vec \in Seq(Entry) /\ Len(cmd) \in Nat /\ Chain(m_vec, Len(cmd))
    BY ListTypes
  <2> QED
    BY <1>2, <2>1, Finds
<1>4. PICK k \in DOMAIN m_vec[i].subs : m_vec[i].subs[k] = u
  BY <1>3
<1>5. Mark(i, u)
  BY <1>1, <1>2, <1>3
<1>6. /\ u \in DOMAIN cmd /\ KeepsCmds(cmd, cmd') /\ cmd'[u].edited
      /\ \A w \in DOMAIN cmd : (w # u => cmd'[w] = cmd[w]) /\ cmd'[w].par = cmd[w].par
  BY <1>3, <1>4, <1>5, Marks, ListTypes
<1>7. /\ over.u = 0 /\ failed' = failed /\ snd' = snd /\ overlapped' = (overlapped \/ Sending)
  BY <1>5 DEF Mark, sendVars
<1>8. /\ DOMAIN cmd' = DOMAIN cmd /\ u # 0 /\ \A w \in DOMAIN cmd : w # 0
      /\ \A w \in DOMAIN cmd : cmd'[w].kind = cmd[w].kind /\ cmd'[w].par = cmd[w].par
  BY <1>6, ListTypes DEF KeepsCmds
<1>9. CASE overwrite_refused(usr_idx)
  <2>1. over' = over /\ want' = want
    BY <1>9 DEF overwrite_refused
  <2>2. WantedPars'
    BY <1>8, <2>1, WantedParts, ParsKeep DEF ParsStay
  <2>3. WantedOver'
    BY <1>7, <2>1 DEF WantedOver
  <2> QED
    BY <2>2, <2>3, WantedParts, PTL
<1>10. CASE get_cmd_for_overwrite(usr_idx, p)
  <2>1. over' = [u |-> u, par |-> p] /\ want' = [want EXCEPT ![u] = p]
    BY <1>2, <1>3, <1>10 DEF get_cmd_for_overwrite
  <2>2. over'.u = u /\ over'.par = p
    BY <2>1
  <2>3. u \in DOMAIN want
    BY <1>6, EditTypes, ListTypes
  <2>4. want'[u] = p /\ \A w \in DOMAIN want : w # u => want'[w] = want[w]
    BY <2>1, <2>3
  <2>5. WantedPars'
    <3> SUFFICES ASSUME NEW w \in DOMAIN cmd
                 PROVE  IF over'.u = w THEN over'.par = want'[w] ELSE AsWanted(cmd[w].par, w)'
      BY <1>8 DEF WantedPars
    <3>1. CASE w = u
      BY <2>2, <2>4, <3>1
    <3>2. CASE w # u
      <4>1. AsWanted(cmd[w].par, w)
        BY <1>7, <1>8 DEF Wanted
      <4>2. w \in DOMAIN want
        BY EditTypes, ListTypes
      <4>3. want'[w] = want[w] /\ cmd'[w].kind = cmd[w].kind /\ cmd'[w].par = cmd[w].par
        BY <1>8, <2>4, <3>2, <4>2
      <4>4. AsWanted(cmd[w].par, w)'
        BY <4>1, <4>3 DEF AsWanted, is_copy
      <4> QED
        BY <2>2, <3>2, <4>4
    <3> QED
      BY <3>1, <3>2
  <2>6. WantedOver'
    BY <1>6, <1>7, <2>2 DEF WantedOver, Undisturbed, Sending
  <2> QED
    BY <2>5, <2>6, WantedParts, PTL
<1> QED
  BY <1>9, <1>10

\* The overwrite gives the command what was asked for, but for the priority of an inference request.
LEMMA OverwrittenIs ==
    ASSUME NEW u, NEW p \in Par, cmd[u].par \in Par, want[u] = p
    PROVE  AsWanted(Overwritten(u, p), u)
<1>1. CASE is_copy(u)
  BY <1>1 DEF AsWanted, Overwritten
<1>2. CASE ~is_copy(u) /\ p.null
  <2>1. Overwritten(u, p) = [cmd[u].par EXCEPT !.null = TRUE]
    BY <1>2 DEF Overwritten
  <2>2. Overwritten(u, p).null = TRUE
    BY <2>1 DEF Par
  <2> QED
    BY <1>2, <2>2 DEF AsWanted, Par
<1>3. CASE ~is_copy(u) /\ ~p.null
  <2>1. Overwritten(u, p) = [p EXCEPT !.prio = cmd[u].par.prio]
    BY <1>3 DEF Overwritten
  <2>2. Overwritten(u, p).null = p.null /\ Overwritten(u, p).val = p.val
    BY <2>1 DEF Par
  <2> QED
    BY <1>3, <2>2 DEF AsWanted
<1> QED
  BY <1>1, <1>2, <1>3

LEMMA OverwriteWanted ==
    ASSUME StructInv, Wanted, overwrite
    PROVE  Wanted'
<1>1. over' = NoOver /\ want' = want
  BY DEF overwrite
<1>2. /\ over.u \in DOMAIN cmd /\ over.par \in Par
      /\ KeepsCmds(cmd, cmd')
      /\ cmd'[over.u].par = Overwritten(over.u, over.par)
      /\ \A w \in DOMAIN cmd : (w # over.u => cmd'[w] = cmd[w]) /\ cmd'[w].edited = cmd[w].edited
  BY Overwrites, ListTypes
<1>3. over'.u = 0
  BY <1>1 DEF NoOver
<1>4. /\ DOMAIN cmd' = DOMAIN cmd /\ \A w \in DOMAIN cmd : w # 0 /\ cmd'[w].kind = cmd[w].kind
      /\ \A w \in DOMAIN cmd : cmd[w].par \in Par
  <2>1. \A w \in DOMAIN cmd : cmd[w] \in Command
    BY EditTypes, ListTypes
  <2> QED
    BY <1>2, <2>1, ListTypes DEF KeepsCmds, Command
<1>5. WantedPars'
  <2> SUFFICES ASSUME NEW w \in DOMAIN cmd
               PROVE  AsWanted(cmd[w].par, w)'
    BY <1>3, <1>4 DEF WantedPars
  <2>1. IF over.u = w THEN over.par = want[w] ELSE AsWanted(cmd[w].par, w)
    BY DEF Wanted
  <2>2. CASE w = over.u
    <3>1. AsWanted(Overwritten(w, over.par), w)
      BY <1>2, <1>4, <2>1, <2>2, OverwrittenIs
    <3>2. cmd'[w].par = Overwritten(w, over.par) /\ cmd'[w].kind = cmd[w].kind
      BY <1>2, <1>4, <2>2
    <3> QED
      BY <1>1, <3>1, <3>2 DEF AsWanted, is_copy
  <2>3. CASE w # over.u
    <3>1. cmd'[w] = cmd[w]
      BY <1>2, <2>3
    <3> QED
      BY <1>1, <2>1, <2>3, <3>1 DEF AsWanted, is_copy
  <2> QED
    BY <2>2, <2>3
<1>6. WantedOver'
  BY <1>3 DEF WantedOver
<1> QED
  BY <1>5, <1>6, WantedParts, PTL

\* A send does not begin between get_cmd_for_overwrite and the overwrite, unless it overlaps.
LEMMA BeginWanted ==
    ASSUME Wanted, finalize_begin \/ schedule_sends
    PROVE  Wanted'
<1>1. /\ UNCHANGED <<cmd, want, over, failed>> /\ overlapped' = (overlapped \/ over.u # 0)
  BY DEF finalize_begin, schedule_sends, listParts, userParts
<1>2. WantedPars'
  BY <1>1, WantedParts, ParsKeep DEF ParsStay
<1>3. WantedOver'
  BY <1>1 DEF WantedOver, Undisturbed
<1> QED
  BY <1>2, <1>3, WantedParts, PTL

LEMMA RoundWanted ==
    ASSUME StructInv, Wanted, batch_none \/ batch_on \/ batch_last \/ batch_break \/ batch_done
    PROVE  Wanted'
<1>1. snd # "none" /\ UNCHANGED <<over, want, overlapped, failed>>
  BY DEF batch_none, batch_on, batch_last, batch_break, batch_done, Round, userParts, boundVars
<1>2. DOMAIN cmd' = DOMAIN cmd /\ \A u \in DOMAIN cmd : cmd'[u].kind = cmd[u].kind /\ cmd'[u].par = cmd[u].par
  <2>1. CASE batch_none \/ batch_on \/ batch_last \/ batch_break
    BY <2>1, RoundCmds, ListTypes
  <2>2. CASE batch_done
    BY <2>2 DEF batch_done
  <2> QED
    BY <2>1, <2>2
<1>3. ParsStay
  BY <1>1, <1>2 DEF ParsStay
<1> QED
  BY <1>1, <1>3, BusyWanted DEF Undisturbed

LEMMA SendWanted ==
    ASSUME StructInv, Wanted,
           send_bare \/ page_begin \/ Pack \/ page_sent \/ send_refused \/ send_fail \/ (\E ok \in BOOLEAN : finalize_reply(ok))
    PROVE  Wanted'
<1>1. snd # "none"
  BY DEF send_bare, page_begin, Pack, pack_command, pack_header, pack_over, pack_end, page_sent, page_end, send_refused,
         send_fail, finalize_reply, Packing, InSend
<1>2. UNCHANGED <<over, want, overlapped>>
  BY DEF send_bare, page_begin, Pack, pack_command, pack_header, pack_over, pack_end, page_sent, page_end, send_refused,
         send_fail, finalize_reply, PackKeeps, userParts, boundVars
<1>3. failed' = failed \/ failed' = failed + 1
  BY DEF send_bare, page_begin, Pack, pack_command, pack_header, pack_over, pack_end, page_sent, page_end, send_refused,
         send_fail, finalize_reply, PackKeeps, boundVars
<1>4. Undisturbed' => Undisturbed
  <2>1. failed \in Nat
    BY EditBounds DEF StructInv, EditShape, EdBoundShape
  <2> QED
    BY <1>2, <1>3, <2>1 DEF Undisturbed
<1>5. DOMAIN cmd' = DOMAIN cmd /\ \A u \in DOMAIN cmd : cmd'[u].kind = cmd[u].kind /\ cmd'[u].par = cmd[u].par
  <2>1. CASE pack_command
    BY <2>1, Packs, ListTypes DEF KeepsCmds
  <2>2. CASE send_fail
    BY <2>2, Fails, ListTypes DEF KeepsCmds
  <2>3. CASE ~pack_command /\ ~send_fail
    <3>1. cmd' = cmd
      BY <2>3 DEF send_bare, page_begin, Pack, pack_header, pack_over, pack_end, page_sent, page_end, send_refused,
                  finalize_reply, listParts
    <3> QED
      BY <3>1
  <2> QED
    BY <2>1, <2>2, <2>3
<1>6. ParsStay
  BY <1>2, <1>5 DEF ParsStay
<1> QED
  BY <1>1, <1>4, <1>6, BusyWanted

-----------------------------------------------------------------------------
\* Everything there is to say of the list, the messages and the card.
EditsInv == StructInv /\ Bookkept /\ Wanted

LEMMA EditsInvInit == EditsInit => EditsInv
<1> SUFFICES ASSUME EditsInit PROVE EditsInv
  OBVIOUS
<1>1. StructInv
  BY StructStarts
<1>2. /\ m_vec = <<>> /\ cmd = <<>> /\ m_num_edits = 0 /\ ~m_finalized /\ new_list = <<>> /\ snd = "none"
      /\ over = NoOver /\ card = Blank /\ ~overlapped /\ failed = 0
  BY DEF EditsInit
<1>3. Undisturbed /\ Fresh
  BY <1>2 DEF Fresh, Undisturbed
<1>4. AllEdited
  <2>1. FullyEdited(m_vec) /\ FullyEdited(new_list)
    BY <1>2 DEF FullyEdited
  <2>2. (\A u \in DOMAIN cmd : cmd[u].edited) /\ m_num_edits = Len(m_vec)
    BY <1>2
  <2> QED
    BY <2>1, <2>2 DEF AllEdited
<1>5. AnnouncedIsPacked
  <2>1. card.announced = 0 /\ card.entries = 0 /\ card.left = 0
    BY <1>2 DEF Blank
  <2> QED
    BY <2>1 DEF AnnouncedIsPacked
<1>6. Wanted
  <2>1. over.u = 0 /\ DOMAIN cmd = {}
    BY <1>2 DEF NoOver
  <2> QED
    BY <2>1 DEF Wanted
<1> QED
  BY <1>1, <1>3, <1>4, <1>5, <1>6, FreshBook DEF EditsInv

\* The entry that an overwrite marks.
LEMMA MarkAnyBook ==
    ASSUME StructInv, StructInv', Bookkept, NEW usr_idx \in 0 .. Len(cmd) - 1,
           Mark(EntryOf(usr_idx), SubOf(usr_idx))
    PROVE  Bookkept'
<1>1. PICK i, u : i = EntryOf(usr_idx) /\ u = usr_idx + 1
  OBVIOUS
<1>2. /\ i \in DOMAIN m_vec /\ SubOf(usr_idx) = u
      /\ \E k \in DOMAIN m_vec[i].subs : m_vec[i].subs[k] = u
  <2>1. m_vec \in Seq(Entry) /\ Len(cmd) \in Nat /\ Chain(m_vec, Len(cmd))
    BY ListTypes
  <2> QED
    BY <1>1, <2>1, Finds
<1>3. PICK k \in DOMAIN m_vec[i].subs : m_vec[i].subs[k] = u
  BY <1>2
<1>4. Mark(i, u)
  BY <1>1, <1>2
<1> QED
  BY <1>2, <1>3, <1>4, MarkBook

LEMMA EditsInvEdits ==
    ASSUME EditsInv, StructInv',
           \/ \E kind \in Kinds : append_test(kind)
           \/ \E p \in ParOf(append_kind) \ {Other} : append(p)
           \/ \E usr_idx \in 0 .. Len(cmd) - 1 : \E p \in ParOf(cmd[usr_idx + 1].kind) \ {want[usr_idx + 1]} :
                 get_cmd_for_overwrite(usr_idx, p)
           \/ \E usr_idx \in 0 .. Len(cmd) - 1 : overwrite_refused(usr_idx)
           \/ overwrite
    PROVE  Bookkept' /\ Wanted'
<1>0. StructInv /\ Bookkept /\ Wanted
  BY DEF EditsInv
<1>1. ASSUME NEW kind \in Kinds, append_test(kind) PROVE Bookkept' /\ Wanted'
  <2>1. /\ UNCHANGED <<m_vec, cmd, m_num_edits, stage, pos, sub, card, page_read>>
        /\ UNCHANGED <<snd, m_finalized, new_list, overlapped, failed>> /\ UNCHANGED <<over, want>>
    BY <1>1 DEF append_test, listParts, batchVars, sendVars, boundVars
  <2> QED
    BY <1>0, <2>1, IdleBook, TestWanted
<1>2. ASSUME NEW p \in ParOf(append_kind) \ {Other}, append(p) PROVE Bookkept' /\ Wanted'
  <2>1. p \in Par
    BY ParOfPar
  <2> QED
    BY <1>0, <1>2, <2>1, AppendBook, AppendWanted
<1>3. ASSUME NEW usr_idx \in 0 .. Len(cmd) - 1, NEW p \in ParOf(cmd[usr_idx + 1].kind) \ {want[usr_idx + 1]},
             get_cmd_for_overwrite(usr_idx, p)
      PROVE  Bookkept' /\ Wanted'
  <2>1. p \in Par /\ Mark(EntryOf(usr_idx), SubOf(usr_idx))
    BY <1>3, ParOfPar DEF get_cmd_for_overwrite
  <2> QED
    BY <1>0, <1>3, <2>1, MarkAnyBook, MarkWanted
<1>4. ASSUME NEW usr_idx \in 0 .. Len(cmd) - 1, overwrite_refused(usr_idx) PROVE Bookkept' /\ Wanted'
  <2>1. Mark(EntryOf(usr_idx), SubOf(usr_idx))
    BY <1>4 DEF overwrite_refused
  <2>2. First \in Par
    BY DEF First, Par
  <2> QED
    BY <1>0, <1>4, <2>1, <2>2, MarkAnyBook, MarkWanted
<1>5. ASSUME overwrite PROVE Bookkept' /\ Wanted'
  <2>1. Undisturbed => cmd[over.u].edited
    BY <1>0, <1>5 DEF Wanted, overwrite
  <2> QED
    BY <1>0, <1>5, <2>1, OverwriteBook, OverwriteWanted
<1> QED
  BY <1>1, <1>2, <1>3, <1>4, <1>5

LEMMA EditsInvSends ==
    ASSUME EditsInv, StructInv',
           \/ finalize_begin \/ schedule_sends
           \/ batch_none \/ batch_on \/ batch_last \/ batch_break \/ batch_done
           \/ send_bare \/ page_begin \/ Pack \/ page_sent \/ send_refused \/ send_fail
           \/ \E ok \in BOOLEAN : finalize_reply(ok)
    PROVE  Bookkept' /\ Wanted'
<1>0. StructInv /\ Bookkept /\ Wanted
  BY DEF EditsInv
<1>1. CASE finalize_begin \/ schedule_sends
  BY <1>0, <1>1, BeginBook, BeginWanted
<1>2. CASE batch_none \/ batch_on \/ batch_last \/ batch_break
  BY <1>0, <1>2, RoundBook, RoundWanted
<1>3. CASE batch_done
  BY <1>0, <1>3, DoneBook, RoundWanted
<1>4. CASE send_bare \/ page_begin \/ page_sent \/ send_refused \/ send_fail
  BY <1>0, <1>4, BareBook, PageBook, SentBook, RefuseBook, FailBook, SendWanted
<1>5. CASE Pack
  BY <1>0, <1>5, CommandBook, HeaderBook, OverBook, EndBook, SendWanted DEF Pack
<1>6. CASE \E ok \in BOOLEAN : finalize_reply(ok)
  BY <1>0, <1>6, ReplyBook, SendWanted
<1> QED
  BY <1>1, <1>2, <1>3, <1>4, <1>5, <1>6

LEMMA EditsInvStep == EditsInv /\ [EditsNext]_editsVars => EditsInv'
<1> SUFFICES ASSUME EditsInv, [EditsNext]_editsVars PROVE EditsInv'
  OBVIOUS
<1>1. StructInv'
  BY StructSteps DEF EditsInv
<1>2. CASE EditsNext
  BY <1>1, <1>2, EditsInvEdits, EditsInvSends DEF EditsNext, EditsInv
<1>3. CASE UNCHANGED editsVars
  <2>1. /\ UNCHANGED <<m_vec, cmd, m_num_edits, stage, pos, sub, card, page_read>>
        /\ UNCHANGED <<snd, m_finalized, new_list, overlapped, failed>> /\ UNCHANGED <<over, want>>
    BY <1>3 DEF editsVars, listParts, batchVars, sendVars, userParts, boundVars
  <2>2. Bookkept' /\ Wanted'
    BY <2>1, IdleBook, TestWanted DEF EditsInv
  <2> QED
    BY <1>1, <2>2 DEF EditsInv
<1> QED
  BY <1>2, <1>3

\* The invariant of the edits, the batches, the pages and what the card reads in them.
THEOREM EditsInvariant == EditsSpec => []EditsInv
<1>1. EditsInit => EditsInv
  BY EditsInvInit
<1>2. EditsInv /\ [EditsNext]_editsVars => EditsInv'
  BY EditsInvStep
<1> QED
  BY <1>1, <1>2, PTL DEF EditsSpec

LEMMA InvEditsRight == EditsInv => EditsRight
<1> SUFFICES ASSUME EditsInv PROVE EditsRight
  OBVIOUS
<1>1. StructInv /\ Bookkept
  BY DEF EditsInv
<1>2. EditsTypeOK
  BY <1>1, StructTypeOK
<1>3. PageFits
  BY <1>1 DEF StructInv, Stages, PageFits
<1>4. AnnouncedIsPacked
  BY <1>1 DEF Bookkept
<1>5. EditsCounted
  <2> SUFFICES ASSUME Undisturbed, ~Sending PROVE EditsCounted
    BY DEF EditsCounted
  <2>1. stage = "first"
    BY <1>1, Quiet DEF Sending
  <2>2. m_num_edits = Cardinality(EdEntries(m_vec, cmd)) /\ \A i \in DOMAIN m_vec : ListOK(m_vec[i], cmd)
    BY <1>1, <2>1 DEF Bookkept, Counted
  <2>3. EdEntries(m_vec, cmd) = EditedEntries
    BY DEF EdEntries, EditedEntries, Ed, is_edited, Fst
  <2>4. ASSUME NEW i \in DOMAIN m_vec, m_vec[i].type = "COPYLIST"
        PROVE  /\ m_vec[i].num_edits = Cardinality(EditedSubs(i))
               /\ m_vec[i].edited = (m_vec[i].num_edits > 0)
    <3>1. EdSubs(m_vec[i], cmd) = EditedSubs(i)
      BY DEF EdSubs, EditedSubs
    <3>2. m_vec[i].edited \in BOOLEAN
      BY <1>1, ListTypes, EntryType
    <3>3. ListOK(m_vec[i], cmd)
      BY <2>2
    <3> QED
      BY <2>4, <3>1, <3>2, <3>3 DEF ListOK
  <2> QED
    BY <2>2, <2>3, <2>4 DEF EditsCounted
<1> QED
  BY <1>2, <1>3, <1>4, <1>5 DEF EditsRight

\* EditsRight: the counts that send_to_card and pack rely on are right between
\* sends, and the pages hold what the first one announces, as long as no send
\* failed and no edit ran beside one; no page ever overflows.
THEOREM EditsAreRight == EditsSpec => []EditsRight
BY EditsInvariant, InvEditsRight, PTL

LEMMA InvCardUpToDate == EditsInv => CardUpToDate
<1> SUFFICES ASSUME EditsInv, Undisturbed, m_finalized, ~Sending,
                    NEW i \in DOMAIN m_vec, NEW k \in DOMAIN m_vec[i].subs
             PROVE  /\ Knows(card, i, k)
                    /\ ~cmd[m_vec[i].subs[k]].edited => AsWanted(card.tab[Place(i, k)].par, m_vec[i].subs[k])
  BY DEF CardUpToDate
<1>1. StructInv /\ Bookkept /\ Wanted
  BY DEF EditsInv
<1>2. Cur = card
  BY <1>1, Quiet DEF Sending
<1>3. PICK u, x : u = m_vec[i].subs[k] /\ x = PlaceIn(m_vec, i, k)
  OBVIOUS
<1>4. x = Place(i, k)
  BY <1>3 DEF Place, PlaceIn
<1>5. KnownIn(card.tab, m_vec, cmd, TRUE)
  BY <1>1, <1>2 DEF Bookkept, Known, KnownIn
<1>6. /\ x \in DOMAIN card.tab /\ card.tab[x].u = u
      /\ ~cmd[u].edited => card.tab[x].par = cmd[u].par
  BY <1>3, <1>5 DEF KnownIn
<1>7. u \in DOMAIN cmd /\ u # 0
  <2>1. EditShape /\ Structure /\ DOMAIN cmd = 1 .. Len(cmd)
    BY <1>1, ListTypes
  <2>2. u \in DOMAIN cmd
    BY <1>3, <2>1, PlaceCmd
  <2> QED
    BY <2>1, <2>2
<1>8. ~cmd[u].edited => AsWanted(card.tab[x].par, u)
  <2> SUFFICES ASSUME ~cmd[u].edited PROVE AsWanted(card.tab[x].par, u)
    OBVIOUS
  <2>1. over.u # u
    BY <1>1, <1>7 DEF Wanted
  <2>2. AsWanted(cmd[u].par, u)
    BY <1>1, <1>7, <2>1 DEF Wanted
  <2> QED
    BY <1>6, <2>2
<1> QED
  BY <1>3, <1>4, <1>6, <1>8 DEF Knows

\* CardUpToDate: once the list is finalized, the card has after every send what the
\* application asked for last, however many pages a send takes, as long as none
\* failed and no edit ran beside one.
THEOREM CardIsUpToDate == EditsSpec => []CardUpToDate
BY EditsInvariant, InvCardUpToDate, PTL
=============================================================================
