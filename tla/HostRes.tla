------------------------------- MODULE HostRes -------------------------------
(***************************************************************************)
(* nnpiHostRes (src/nnpi_drv/nnpiHostProc.{h,cpp}): a host memory buffer   *)
(* shared by the CPU and by the devices' DMA engines, guarded by a         *)
(* hand-made readers/writer lock.  m_readers is 0 when unlocked, n > 0     *)
(* when n readers hold it, -1 when a writer does.  The CPU side blocks on  *)
(* the resource's nnpiWaitQueue; the device side never blocks.             *)
(*                                                                         *)
(* This module holds the lock's state, the CPU side as actions of          *)
(* application threads, and the device side as operators that the modules  *)
(* of the copy commands use in their own actions.                          *)
(*                                                                         *)
(* Everything between taking and releasing the wait queue's mutex is one   *)
(* step.  The test of m_cpu_locked that precedes it is a step of its own:  *)
(* the code makes it without the mutex.                                    *)
(***************************************************************************)
EXTENDS Integers, FiniteSets

CONSTANTS
    Res,         \* the host resources
    UsageFlags,  \* [Res -> SUBSET Flag]: the flags a resource was created with
    CpuSync,     \* the resources that need an ioctl around CPU accesses
    CpuThread,   \* application threads that lock resources for the CPU
    CpuRes,      \* [CpuThread -> Res]: the resource a thread works on
    Patient      \* the threads that pass UINT32_MAX, no timeout, to the lock

Flag == {"INPUT", "OUTPUT", "LOCKLESS"}

ASSUME HostResAssumption ==
    /\ UsageFlags \in [Res -> SUBSET Flag]
    /\ CpuSync \subseteq Res
    /\ CpuRes \in [CpuThread -> Res]
    /\ Patient \subseteq CpuThread
    /\ IsFiniteSet(CpuThread)

VARIABLES
    m_readers,          \* [Res -> Int]
    m_cpu_locked,       \* [Res -> {-1, 0, 1}]
    m_failed_copy_ops,  \* [Res -> Nat]: failed copies not yet cleared
    cpuPc               \* where a thread is in its lock/unlock calls

hostResVars == <<m_readers, m_cpu_locked, m_failed_copy_ops, cpuPc>>

Lockless(r) == "LOCKLESS" \in UsageFlags[r]

broken(r) == m_failed_copy_ops[r] > 0

\* nnpdrvLockHostResource: only a resource that is an output and not an input
\* is locked for read.
for_write(r) == UsageFlags[r] \cap {"INPUT", "OUTPUT"} # {"OUTPUT"}

HostResInit ==
    /\ m_readers = [r \in Res |-> 0]
    /\ m_cpu_locked = [r \in Res |-> 0]
    /\ m_failed_copy_ops = [r \in Res |-> 0]
    /\ cpuPc = [t \in CpuThread |-> "idle"]

-----------------------------------------------------------------------------
(***************************************************************************)
(* The CPU side.  A thread is "idle" outside the lock, "entered" once it   *)
(* passed the unlocked test of m_cpu_locked, "asleep" on the condition     *)
(* variable, and "holds" from a lock that returned NNP_NO_ERROR to the     *)
(* matching unlock.  The calls that return at once with nothing changed    *)
(* (NNP_NOT_SUPPORTED, NNP_INVALID_ARGUMENT) are steps that stutter.       *)
(***************************************************************************)

\* Mutant: a writer does not wait for the readers.
CpuCondNoReaders(r) == m_readers[r] >= 0

\* Mutant: a writer does not wait for another one, for that m_cpu_locked was tested.
CpuCondTested(r) == IF for_write(r) THEN m_readers[r] <= 0 ELSE m_readers[r] >= 0

CpuCond(r) == IF for_write(r) THEN m_readers[r] = 0 ELSE m_readers[r] >= 0

\* The first test of lock_cpu_access, outside the wait queue's mutex.
lock_cpu_access_test(t) ==
    /\ cpuPc[t] = "idle"
    /\ ~Lockless(CpuRes[t])
    /\ m_cpu_locked[CpuRes[t]] = 0
    /\ cpuPc' = [cpuPc EXCEPT ![t] = "entered"]
    /\ UNCHANGED <<m_readers, m_cpu_locked, m_failed_copy_ops>>

\* The condition is false: the thread releases the mutex and sleeps.
lock_cpu_access_sleep(t) ==
    /\ cpuPc[t] = "entered"
    /\ ~CpuCond(CpuRes[t])
    /\ cpuPc' = [cpuPc EXCEPT ![t] = "asleep"]
    /\ UNCHANGED <<m_readers, m_cpu_locked, m_failed_copy_ops>>

\* The condition holds, but a copy to or from the resource failed
\* (NNP_CONTEXT_BROKEN), or begin_cpu_access did.
lock_cpu_access_fail(t) ==
    /\ cpuPc[t] = "entered"
    /\ CpuCond(CpuRes[t])
    /\ broken(CpuRes[t]) \/ CpuRes[t] \in CpuSync
    /\ cpuPc' = [cpuPc EXCEPT ![t] = "idle"]
    /\ UNCHANGED <<m_readers, m_cpu_locked, m_failed_copy_ops>>

\* The condition holds and the thread gets the resource.
lock_cpu_access_take(t) ==
    LET r == CpuRes[t] IN
    /\ cpuPc[t] = "entered"
    /\ CpuCond(r)
    /\ ~broken(r)
    /\ m_readers' = [m_readers EXCEPT ![r] = IF for_write(r) THEN -1 ELSE @ + 1]
    /\ m_cpu_locked' = [m_cpu_locked EXCEPT ![r] = IF for_write(r) THEN -1 ELSE 1]
    /\ cpuPc' = [cpuPc EXCEPT ![t] = "holds"]
    /\ UNCHANGED m_failed_copy_ops

\* wait_timeout_lock gives up: NNP_TIMED_OUT.
lock_cpu_access_timeout(t) ==
    /\ cpuPc[t] = "asleep"
    /\ t \notin Patient
    /\ ~CpuCond(CpuRes[t])
    /\ cpuPc' = [cpuPc EXCEPT ![t] = "idle"]
    /\ UNCHANGED <<m_readers, m_cpu_locked, m_failed_copy_ops>>

\* A condition variable may wake up with no notification; a wait that times
\* out with the condition true continues as one that was woken.
spurious_wakeup(t) ==
    /\ cpuPc[t] = "asleep"
    /\ cpuPc' = [cpuPc EXCEPT ![t] = "entered"]
    /\ UNCHANGED <<m_readers, m_cpu_locked, m_failed_copy_ops>>

\* unlock_cpu_access.  It ends with m_waitq.unlock(), which wakes up nobody.
\* Whatever end_cpu_access returns, the thread has given the resource up.
unlock_cpu_access(t) ==
    LET r == CpuRes[t] IN
    /\ cpuPc[t] = "holds"
    /\ m_readers' = [m_readers EXCEPT ![r] =
                        IF m_cpu_locked[r] < 0 THEN 0
                        ELSE IF m_cpu_locked[r] > 0 THEN @ - 1 ELSE @]
    /\ m_cpu_locked' = [m_cpu_locked EXCEPT ![r] = 0]
    /\ cpuPc' = [cpuPc EXCEPT ![t] = "idle"]
    /\ UNCHANGED m_failed_copy_ops

CpuLock(t) ==
    \/ lock_cpu_access_sleep(t)
    \/ lock_cpu_access_fail(t)
    \/ lock_cpu_access_take(t)

CpuNext(t) ==
    \/ lock_cpu_access_test(t)
    \/ CpuLock(t)
    \/ lock_cpu_access_timeout(t)
    \/ spurious_wakeup(t)
    \/ unlock_cpu_access(t)

-----------------------------------------------------------------------------
(***************************************************************************)
(* The device side, used by the copy commands.                             *)
(***************************************************************************)

\* Mutant: a read lock is granted whoever has the resource.
DeviceLockableAnyRead(r, w) == Lockless(r) \/ ~w \/ m_readers[r] = 0

\* lock_device_access would return NNP_NO_ERROR (else NNP_DEVICE_BUSY).
DeviceLockable(r, w) ==
    Lockless(r) \/ IF w THEN m_readers[r] = 0 ELSE m_readers[r] >= 0

\* The update of lock_device_access.
lock_device_access(r, w) ==
    m_readers' = IF Lockless(r) THEN m_readers
                 ELSE [m_readers EXCEPT ![r] = IF w THEN -1 ELSE @ + 1]

\* Mutant: any unlock frees the resource.
unlock_device_access_all(r, w) ==
    /\ m_readers' = IF Lockless(r) THEN m_readers ELSE [m_readers EXCEPT ![r] = 0]
    /\ UNCHANGED cpuPc

\* Mutant: nobody is notified.
unlock_device_access_silent(r, w) ==
    /\ m_readers' = IF Lockless(r) THEN m_readers
                    ELSE [m_readers EXCEPT ![r] = IF w THEN 0 ELSE @ - 1]
    /\ UNCHANGED cpuPc

\* unlock_device_access: the update, and notify_all for the sleepers of r.
unlock_device_access(r, w) ==
    IF Lockless(r) THEN UNCHANGED <<m_readers, cpuPc>>
    ELSE /\ m_readers' = [m_readers EXCEPT ![r] = IF w THEN 0 ELSE @ - 1]
         /\ cpuPc' = [t \in CpuThread |->
                         IF cpuPc[t] = "asleep" /\ CpuRes[t] = r
                         THEN "entered" ELSE cpuPc[t]]

HostResTypeOK ==
    /\ m_readers \in [Res -> Int]
    /\ m_cpu_locked \in [Res -> {-1, 0, 1}]
    /\ m_failed_copy_ops \in [Res -> Nat]
    /\ cpuPc \in [CpuThread -> {"idle", "entered", "asleep", "holds"}]
=============================================================================
