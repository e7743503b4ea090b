----------------------------- MODULE CopyCommand -----------------------------
(***************************************************************************)
(* nnpiCopyCommand::schedule, preSchedule and postSchedule                 *)
(* (src/nnpi_drv/nnpiCopyCommand.h) over the host resources' locks, with   *)
(* the part of the context that decides their fate: the broken flag, the   *)
(* response thread that hears of every completed copy, and the failure of  *)
(* the card or of the channel (nnpiInfContext::response_handler).          *)
(*                                                                         *)
(* Three kinds of actors interleave: the application thread that schedules *)
(* a copy (schedPc), the one response thread of the channel (respStage,    *)
(* failing), and the CPU threads of HostRes.  m_scheduled is a plain bool  *)
(* that the first two both read and write with no lock, so its test, its   *)
(* assignment and the unlock that follows are separate steps.              *)
(*                                                                         *)
(* Copies here have one host resource each; device-to-device copies lock   *)
(* nothing, and sub-resource copies get their host resource per call.      *)
(* No command list is being finalized: wait_can_schedule never waits.      *)
(***************************************************************************)
EXTENDS HostRes

CONSTANTS
    Copy,                \* the copy commands of one context
    CopyRes,             \* [Copy -> Res]: the host resource of a copy
    C2H,                 \* the copies from the card to the host
    RescheduleInFlight,  \* may the application schedule a copy again before
                         \* it knows that the previous run has completed?
    CardFails,           \* may the card fail, or the channel be killed?
    RaceCardFailure,     \* may that happen while schedule() is running?
    MaxInFlight          \* bound on the runs of one copy pending on the card

ASSUME CopyAssumption ==
    /\ IsFiniteSet(Copy)
    /\ Copy \cap CpuThread = {}
    /\ CopyRes \in [Copy -> Res]
    /\ C2H \subseteq Copy
    \* nnpiCopyCommand::create: the usage of the resource matches the copy
    /\ \A c \in Copy : (IF c \in C2H THEN "OUTPUT" ELSE "INPUT")
                           \in UsageFlags[CopyRes[c]]
    /\ {RescheduleInFlight, CardFails, RaceCardFailure} \subseteq BOOLEAN
    /\ MaxInFlight \in Nat \ {0}

VARIABLES
    m_scheduled,       \* [Copy -> BOOLEAN]
    schedPc,           \* where the scheduling thread of a copy is
    inFlight,          \* [Copy -> Nat]: schedule messages pending on the card
    respStage,         \* how far the response thread is in postSchedule
    respFailed,        \* ... which it calls with an error list, or not
    failing,           \* the failure the response thread is handling
    remaining,         \* copies failAllScheduledCopyCommands has yet to visit
    respDead,          \* the response thread has exited
    cardAlive,         \* the card still answers
    m_critical_error,  \* the context's critical error, "none" when it is 0
    clearing,          \* the error recover() saved while it waits for its
                       \* clear request, "none" when it does not
    failedData         \* history: copies whose run failed, not yet cleared

respVars == <<respStage, respFailed, failing, remaining, respDead>>
ctxVars == <<cardAlive, m_critical_error, clearing>>
copyVars == <<m_scheduled, schedPc, inFlight, respStage, respFailed, failing,
              remaining, respDead, cardAlive, m_critical_error, clearing,
              failedData>>
vars == <<hostResVars, copyVars>>

CopyInit ==
    /\ HostResInit
    /\ m_scheduled = [c \in Copy |-> FALSE]
    /\ schedPc = [c \in Copy |-> "idle"]
    /\ inFlight = [c \in Copy |-> 0]
    /\ respStage = [c \in Copy |-> "none"]
    /\ respFailed = FALSE
    /\ failing = "no"
    /\ remaining = {}
    /\ respDead = FALSE
    /\ cardAlive = TRUE
    /\ m_critical_error = "none"
    /\ clearing = "none"
    /\ failedData = {}

\* nnpiInfContext::broken()
ctxBroken == m_critical_error # "none"

\* A unit of m_readers (or the write lock) is on account of this copy.
Owns(c) ==
    \/ m_scheduled[c]
    \/ schedPc[c] \in {"locked", "cleared"}
    \/ respStage[c] = "cleared"

-----------------------------------------------------------------------------
(***************************************************************************)
(* nnpiCopyCommand::schedule                                               *)
(***************************************************************************)

\* wait_can_schedule() and the test of the host resource; every other answer
\* (NNP_CONTEXT_BROKEN, NNP_INVALID_ARGUMENT, NNP_HOSTRES_BROKEN) returns with
\* nothing changed.
schedule_check(c) ==
    /\ schedPc[c] = "idle"
    /\ ~ctxBroken
    /\ ~broken(CopyRes[c])
    \* what the application is assumed not to do
    /\ RescheduleInFlight \/ c \in C2H \/ ~Owns(c)
    /\ RaceCardFailure \/ failing = "no"
    /\ schedPc' = [schedPc EXCEPT ![c] = "checked"]
    /\ UNCHANGED <<hostResVars, m_scheduled, inFlight, respVars, ctxVars, failedData>>

\* preSchedule: lock_device_access, or NNP_DEVICE_BUSY.
schedule_lock(c) ==
    /\ schedPc[c] = "checked"
    /\ IF DeviceLockable(CopyRes[c], c \in C2H)
       THEN /\ lock_device_access(CopyRes[c], c \in C2H)
            /\ schedPc' = [schedPc EXCEPT ![c] = "locked"]
       ELSE /\ schedPc' = [schedPc EXCEPT ![c] = "idle"]
            /\ UNCHANGED m_readers
    /\ UNCHANGED <<m_cpu_locked, m_failed_copy_ops, cpuPc, m_scheduled, inFlight,
                   respVars, ctxVars, failedData>>

\* preSchedule: m_scheduled = true
schedule_mark(c) ==
    /\ schedPc[c] = "locked"
    /\ m_scheduled' = [m_scheduled EXCEPT ![c] = TRUE]
    /\ schedPc' = [schedPc EXCEPT ![c] = "marked"]
    /\ UNCHANGED <<hostResVars, inFlight, respVars, ctxVars, failedData>>

\* scheduleCopy writes the message to the channel ...  The write fails once the
\* channel is marked killed, which happens before its copies are failed, and
\* (an assumption on the kernel driver) once the driver lost the card.
schedule_send(c) ==
    /\ schedPc[c] = "marked"
    /\ ~ctxBroken
    /\ failing \notin {"drv", "killed"} /\ ~respDead
    /\ inFlight[c] < MaxInFlight
    /\ inFlight' = [inFlight EXCEPT ![c] = @ + 1]
    /\ schedPc' = [schedPc EXCEPT ![c] = "idle"]
    /\ UNCHANGED <<hostResVars, m_scheduled, respVars, ctxVars, failedData>>

\* ... or fails (the context is broken, or write() fails), and schedule()
\* calls postSchedule().
schedule_fail(c) ==
    /\ schedPc[c] = "marked"
    /\ schedPc' = [schedPc EXCEPT ![c] = "failed"]
    /\ UNCHANGED <<hostResVars, m_scheduled, inFlight, respVars, ctxVars, failedData>>

\* postSchedule on the scheduling thread: the test of m_scheduled ...
undo_test(c) ==
    /\ schedPc[c] = "failed"
    /\ schedPc' = [schedPc EXCEPT ![c] = IF m_scheduled[c] THEN "tested" ELSE "idle"]
    /\ UNCHANGED <<hostResVars, m_scheduled, inFlight, respVars, ctxVars, failedData>>

\* ... its reset ...
undo_clear(c) ==
    /\ schedPc[c] = "tested"
    /\ m_scheduled' = [m_scheduled EXCEPT ![c] = FALSE]
    /\ schedPc' = [schedPc EXCEPT ![c] = "cleared"]
    /\ UNCHANGED <<hostResVars, inFlight, respVars, ctxVars, failedData>>

\* ... and the unlock.
undo_unlock(c) ==
    /\ schedPc[c] = "cleared"
    /\ unlock_device_access(CopyRes[c], c \in C2H)
    /\ schedPc' = [schedPc EXCEPT ![c] = "idle"]
    /\ UNCHANGED <<m_cpu_locked, m_failed_copy_ops, m_scheduled, inFlight,
                   respVars, ctxVars, failedData>>

SchedStep(c) ==
    \/ schedule_lock(c) \/ schedule_mark(c) \/ schedule_send(c) \/ schedule_fail(c)
    \/ undo_test(c) \/ undo_clear(c) \/ undo_unlock(c)

-----------------------------------------------------------------------------
(***************************************************************************)
(* The response thread                                                     *)
(***************************************************************************)

respIdle == ~respDead /\ failing = "no" /\ \A c \in Copy : respStage[c] = "none"

\* Mutant: postSchedule is called for the successful runs only.
copy_event_success(c, failed) ==
    /\ respIdle /\ cardAlive
    /\ inFlight[c] > 0
    /\ inFlight' = [inFlight EXCEPT ![c] = @ - 1]
    /\ respStage' = [respStage EXCEPT ![c] = IF m_scheduled[c] /\ ~failed THEN "tested" ELSE "none"]
    /\ respFailed' = FALSE
    /\ UNCHANGED <<hostResVars, m_scheduled, schedPc, failing, remaining, respDead,
                   ctxVars, failedData>>

\* NNP_IPC_EXECUTE_COPY_SUCCESS / _FAILED: the card has finished a run of c;
\* postSchedule tests m_scheduled.
copy_event(c, failed) ==
    /\ respIdle /\ cardAlive
    /\ inFlight[c] > 0
    /\ inFlight' = [inFlight EXCEPT ![c] = @ - 1]
    /\ respStage' = [respStage EXCEPT ![c] = IF m_scheduled[c] THEN "tested" ELSE "none"]
    /\ respFailed' = (failed /\ m_scheduled[c])
    /\ failedData' = IF failed THEN failedData \cup {c} ELSE failedData
    /\ UNCHANGED <<hostResVars, m_scheduled, schedPc, failing, remaining, respDead, ctxVars>>

\* Mutant: the failure is not recorded in the resource.
resp_clear_forgets(c) ==
    /\ respStage[c] = "tested"
    /\ m_scheduled' = [m_scheduled EXCEPT ![c] = FALSE]
    /\ respStage' = [respStage EXCEPT ![c] = "cleared"]
    /\ UNCHANGED <<hostResVars, schedPc, inFlight, respFailed, failing, remaining,
                   respDead, ctxVars, failedData>>

\* postSchedule: m_scheduled = false, and addFailedHostRes when the run failed.
resp_clear(c) ==
    /\ respStage[c] = "tested"
    /\ m_scheduled' = [m_scheduled EXCEPT ![c] = FALSE]
    /\ respStage' = [respStage EXCEPT ![c] = "cleared"]
    /\ m_failed_copy_ops' = IF respFailed
                            THEN [m_failed_copy_ops EXCEPT ![CopyRes[c]] = @ + 1]
                            ELSE m_failed_copy_ops
    /\ UNCHANGED <<m_readers, m_cpu_locked, cpuPc, schedPc, inFlight, respFailed,
                   failing, remaining, respDead, ctxVars, failedData>>

\* postSchedule: unlock_device_access
resp_unlock(c) ==
    /\ respStage[c] = "cleared"
    /\ unlock_device_access(CopyRes[c], c \in C2H)
    /\ respStage' = [respStage EXCEPT ![c] = "none"]
    /\ respFailed' = FALSE
    /\ UNCHANGED <<m_cpu_locked, m_failed_copy_ops, m_scheduled, schedPc, inFlight,
                   failing, remaining, respDead, ctxVars, failedData>>

\* A context fatal event breaks the context; its copies still complete.
context_fatal ==
    /\ respIdle /\ cardAlive
    /\ m_critical_error = "none"
    /\ m_critical_error' = "context"
    /\ UNCHANGED <<hostResVars, m_scheduled, schedPc, inFlight, respVars, cardAlive,
                   clearing, failedData>>

\* Mutant: the scheduled copies are not failed.
card_fatal_only(kind) ==
    /\ CardFails
    /\ respIdle
    /\ RaceCardFailure \/ \A c \in Copy : schedPc[c] = "idle"
    /\ failing' = kind
    /\ cardAlive' = FALSE
    /\ UNCHANGED <<hostResVars, m_scheduled, schedPc, inFlight, respStage, respFailed,
                   remaining, respDead, m_critical_error, clearing, failedData>>

\* A card fatal event ("card"; "drv" when the driver lost the card), or the
\* NULL response of a killed channel: failAllScheduledCopyCommands starts
\* BEFORE the critical error is set.
card_fatal(kind) ==
    /\ CardFails
    /\ respIdle
    /\ RaceCardFailure \/ \A c \in Copy : schedPc[c] = "idle"
    /\ failing' = kind
    /\ remaining' = Copy
    /\ cardAlive' = FALSE
    /\ UNCHANGED <<hostResVars, m_scheduled, schedPc, inFlight, respStage, respFailed,
                   respDead, m_critical_error, clearing, failedData>>

\* failAllScheduledCopyCommands visits c: postSchedule(&m_errorList)
fail_copy(c) ==
    /\ failing # "no"
    /\ \A d \in Copy : respStage[d] = "none"
    /\ c \in remaining
    /\ remaining' = remaining \ {c}
    /\ respStage' = [respStage EXCEPT ![c] = IF m_scheduled[c] THEN "tested" ELSE "none"]
    /\ respFailed' = m_scheduled[c]
    /\ failedData' = IF m_scheduled[c] THEN failedData \cup {c} ELSE failedData
    /\ UNCHANGED <<hostResVars, m_scheduled, schedPc, inFlight, failing, respDead, ctxVars>>

\* All visited: the critical error is set (a killed channel overwrites the
\* one that is there), and, but for a plain card fatal event, the thread exits.
fail_done ==
    /\ failing # "no"
    /\ remaining = {}
    /\ \A d \in Copy : respStage[d] = "none"
    /\ m_critical_error' = IF failing = "killed" THEN "drv"
                           ELSE IF ctxBroken THEN m_critical_error ELSE failing
    /\ respDead' = (failing # "card")
    /\ failing' = "no"
    /\ UNCHANGED <<hostResVars, m_scheduled, schedPc, inFlight, respStage, respFailed,
                   remaining, cardAlive, clearing, failedData>>

\* recover() clears the error and asks the card to clear its error list ...
recover ==
    /\ m_critical_error \in {"context", "card"}
    /\ clearing = "none"
    /\ m_critical_error' = "none"
    /\ clearing' = m_critical_error
    /\ UNCHANGED <<hostResVars, m_scheduled, schedPc, inFlight, respVars, cardAlive, failedData>>

\* ... the card did: clearFailedHostRes ...
clearRequestSucceeded ==
    /\ respIdle /\ cardAlive /\ clearing # "none"
    /\ clearing' = "none"
    /\ m_failed_copy_ops' = [r \in Res |-> 0]
    /\ failedData' = {}
    /\ UNCHANGED <<m_readers, m_cpu_locked, cpuPc, m_scheduled, schedPc, inFlight,
                   respVars, cardAlive, m_critical_error>>

\* ... or recover() could not: the error is restored unless there is another.
recover_fail ==
    /\ clearing # "none"
    /\ clearing' = "none"
    /\ m_critical_error' = IF ctxBroken THEN m_critical_error ELSE clearing
    /\ UNCHANGED <<hostResVars, m_scheduled, schedPc, inFlight, respVars, cardAlive, failedData>>

RespStep == \/ \E c \in Copy : resp_clear(c) \/ resp_unlock(c) \/ fail_copy(c)
            \/ fail_done

Card == \E c \in Copy, failed \in BOOLEAN : copy_event(c, failed)

CopyNext ==
    \/ \E c \in Copy : schedule_check(c) \/ SchedStep(c)
    \/ RespStep
    \/ Card
    \/ context_fatal
    \/ \E kind \in {"card", "drv", "killed"} : card_fatal(kind)
    \/ recover
    \/ clearRequestSucceeded
    \/ recover_fail

Next ==
    \/ \E t \in CpuThread : CpuNext(t) /\ UNCHANGED copyVars
    \/ CopyNext

Spec == CopyInit /\ [][Next]_vars

(***************************************************************************)
(* Fairness: threads that can run do run, the card completes what it was   *)
(* given, and a CPU thread that got the resource gives it back.  Nothing   *)
(* is assumed of who schedules a copy, of timeouts, of spurious wakeups or *)
(* of failures.                                                            *)
(***************************************************************************)
Fairness ==
    /\ \A t \in CpuThread : WF_vars(CpuLock(t) /\ UNCHANGED copyVars)
    /\ \A t \in CpuThread : WF_vars(unlock_cpu_access(t) /\ UNCHANGED copyVars)
    /\ \A c \in Copy : WF_vars(SchedStep(c))
    /\ WF_vars(RespStep)
    /\ WF_vars(Card)

FairSpec == Spec /\ Fairness

-----------------------------------------------------------------------------
(***************************************************************************)
(* Who is accounted for in m_readers                                       *)
(***************************************************************************)

CpuOwners(r) == {t \in CpuThread : CpuRes[t] = r /\ cpuPc[t] = "holds"}
DevOwners(r) == {c \in Copy : CopyRes[c] = r /\ Owns(c)}
Owners(r) == CpuOwners(r) \cup DevOwners(r)

\* The mode in which an owner (a CPU thread or a copy) has r.
Writes(o, r) == IF o \in Copy THEN o \in C2H ELSE for_write(r)

(***************************************************************************)
(* The use of the API under which the locks are sound: at most one thread  *)
(* locks an output resource for the CPU, no copy to the card is scheduled  *)
(* again while it runs, and the card does not fail during a schedule call. *)
(***************************************************************************)
Disciplined ==
    /\ \A t, u \in CpuThread :
           CpuRes[t] = CpuRes[u] /\ ~for_write(CpuRes[t]) => t = u
    /\ ~RescheduleInFlight
    /\ ~(CardFails /\ RaceCardFailure)

\* Every variable has values of its type, whatever the order of the calls.
TypeOK ==
    /\ HostResTypeOK
    /\ m_scheduled \in [Copy -> BOOLEAN]
    /\ schedPc \in [Copy -> {"idle", "checked", "locked", "marked", "failed",
                             "tested", "cleared"}]
    /\ inFlight \in [Copy -> Nat]
    /\ respStage \in [Copy -> {"none", "tested", "cleared"}]
    /\ respFailed \in BOOLEAN
    /\ failing \in {"no", "card", "drv", "killed"}
    /\ remaining \subseteq Copy
    /\ respDead \in BOOLEAN
    /\ cardAlive \in BOOLEAN
    /\ m_critical_error \in {"none", "context", "card", "drv"}
    /\ clearing \in {"none", "context", "card"}
    /\ failedData \subseteq Copy

\* m_readers is what its comment says (nnpiHostProc.h:141): -1 exactly while
\* one writer has the resource, else the number of its readers, over every
\* interleaving of lock_cpu_access, unlock_cpu_access, schedule() and the
\* response thread's postSchedule.
ReadersExact ==
    \A r \in Res : ~Lockless(r) =>
        IF \E o \in Owners(r) : Writes(o, r)
        THEN m_readers[r] = -1 /\ Cardinality(Owners(r)) = 1
        ELSE m_readers[r] = Cardinality(Owners(r))

\* m_cpu_locked tells unlock_cpu_access how the CPU has the resource: the
\* value it undoes is the one the current holder's lock_cpu_access set.
CpuMode ==
    \A r \in Res : m_cpu_locked[r] =
        IF CpuOwners(r) = {} THEN 0 ELSE IF for_write(r) THEN -1 ELSE 1

\* "Cannot lock for cpu if already locked for cpu" (nnpiHostProc.cpp:192): any
\* number of threads may pass the test below that comment, which is made without
\* the mutex, but one of them at a time has the resource, in the mode that its
\* unlock finds in m_cpu_locked.
CpuLockedExact ==
    /\ CpuMode
    /\ \A r \in Res : \A t, u \in CpuOwners(r) : t = u

\* What the lock is for: while the card works on a run of a copy, no CPU thread
\* and no other copy uses the copy's host resource in a conflicting mode.
DmaUsers(r) == {t \in CpuThread : CpuRes[t] = r /\ cpuPc[t] = "holds"}
               \cup {c \in Copy : CopyRes[c] = r /\ inFlight[c] > 0}

DmaExclusion ==
    cardAlive => \A r \in Res : ~Lockless(r) =>
        \A o, p \in DmaUsers(r) : Writes(o, r) => o = p

\* A resource is busy only while the CPU has it, a schedule() call is in
\* progress, or the card or the response thread has yet to finish a copy of it
\* (nnpdrvInference.h:424: lock_cpu_access "may block if ... there is pending
\* device copy operation which reference the resource and did not yet
\* completed").
Pending(c) ==
    \/ schedPc[c] # "idle"
    \/ inFlight[c] > 0
    \/ respStage[c] # "none"
    \/ c \in remaining

BusyOnlyWhilePending ==
    \A r \in Res : m_readers[r] # 0 =>
        \/ CpuOwners(r) # {}
        \/ \E c \in Copy : CopyRes[c] = r /\ Pending(c)

\* A CPU thread is never handed a resource that a failed copy used, until the
\* failure is cleared: the failure is recorded before the resource is unlocked.
FailedDataNeverHandedOut ==
    [][\A t \in CpuThread :
           cpuPc[t] # "holds" /\ cpuPc'[t] = "holds"
           => \A c \in failedData : CopyRes[c] # CpuRes[t]]_vars

\* Once the application starts no more calls, a lock_cpu_access without a
\* timeout returns (nnpdrvInference.h:428: it "will wait until the resource is
\* not busy").
NewCall == \/ \E c \in Copy : schedule_check(c)
           \/ \E t \in CpuThread : lock_cpu_access_test(t)

WaitEnds ==
    <>[][~NewCall]_vars
    => \A t \in Patient : cpuPc[t] \in {"entered", "asleep"}
                          ~> cpuPc[t] \in {"idle", "holds"}

\* When the response thread exits (the channel is killed, the driver lost the
\* card), every copy that is not inside schedule() has been failed and its
\* resource released: nobody is left to do it later.
ExitReleases ==
    respDead => \A c \in Copy : m_scheduled[c] => schedPc[c] # "idle"

-----------------------------------------------------------------------------
(***************************************************************************)
(* The counters implement a readers/writer lock: the owners by mode are    *)
(* the holders of the abstract lock.  Lockless resources are never held.   *)
(***************************************************************************)
Holders(r, w) ==
    IF Lockless(r) THEN {} ELSE {o \in Owners(r) : Writes(o, r) = w}

RW == INSTANCE RWLock WITH
          Object  <- Res,
          Actor   <- CpuThread \cup Copy,
          readers <- [r \in Res |-> Holders(r, FALSE)],
          writers <- [r \in Res |-> Holders(r, TRUE)]

\* Every step of threads, copies and response thread acquires or releases one
\* resource in one mode as a readers/writer lock allows, or changes no holder.
ImplementsRWLock == RW!Spec
=============================================================================
