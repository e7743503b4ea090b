----------------------------- MODULE CommandList -----------------------------
(***************************************************************************)
(* One finalized nnpiCommandList (src/nnpi_drv/nnpiCommandList.cpp) as its *)
(* users see it: schedule, wait and clearErrors on threads of the          *)
(* application, against the events that the response thread handles        *)
(* (nnpiInfContext.cpp) and the host resources of the copies (HostRes).    *)
(*                                                                         *)
(* Vec is m_vec after batching: an entry is the sequence of its copies,    *)
(* one for a copy, more for a copy list, none for an inference request.    *)
(* lock_device_access and m_scheduled of one copy change in one step; the  *)
(* races inside that step are those of module CopyCommand, and so are the  *)
(* locks of the CPU: here other copies compete for the resources.  The     *)
(* card is external: it runs the entries in order and reports each.        *)
(***************************************************************************)
EXTENDS HostRes, Sequences

CONSTANTS
    Copy, CopyRes, C2H,  \* as in CopyCommand
    Vec,           \* the entries of the list
    Solo,          \* copies that are also scheduled on their own
    ClearInFlight, \* may clearErrors be called while the list runs?
    FailInClear,   \* may wait fail to send its query while clearErrors waits for its own?
    MaxRuns,       \* bound: schedules of the list
    MaxSolos,      \* bound: schedules of single copies
    MaxFails,      \* bound: entries that fail
    MaxQueued,     \* bound: messages in the channel when errors are cleared, one less when the context breaks
    MaxBreaks      \* bound: times that the context breaks

ASSUME ListAssumption ==
    /\ CopyRes \in [Copy -> Res] /\ C2H \subseteq Copy /\ Solo \subseteq Copy
    /\ Vec \in Seq(Seq(Copy)) /\ Vec # <<>>
    /\ {ClearInFlight, FailInClear} \subseteq BOOLEAN
    /\ {MaxRuns, MaxSolos, MaxFails, MaxQueued, MaxBreaks} \subseteq Nat

VARIABLES
    m_scheduled,                    \* [Copy -> BOOLEAN]
    m_in_flight, m_failed_commands, \* of the list
    m_waitq,      \* who keeps the list's mutex over several steps
    m_errorList,  \* [state, n, failed]: state, number of errors, m_failed_hostres
    sched,        \* schedule: [pc, i, j, n]: step, entry, its copy, how many of them to release
    wait, clear,  \* positions of wait and clearErrors
    m_critical_error, finalizing, \* the context; finalizing: some list is being finalized
    post, calls,  \* response thread: copies to release, and calls of the list's methods
    h2c, c2h,     \* the channel
    run, cardErr, solo,        \* the card: next entry, errors of the list, single copies
    runs, solos, fails, broke  \* bounds; broke: how often the context broke

resVars == hostResVars
listVars == <<m_in_flight, m_failed_commands, m_waitq, m_errorList>>
userVars == <<sched, wait, clear>>
ctxVars == <<m_critical_error, finalizing>>
respVars == <<post, calls>>
cardVars == <<run, cardErr, solo>>
histVars == <<runs, solos, fails, broke>>
vars == <<resVars, m_scheduled, listVars, userVars, ctxVars, respVars, h2c, c2h, cardVars, histVars>>

ctxBroken == m_critical_error # "none"

Idle == [pc |-> "idle", i |-> 1, j |-> 1, n |-> 0]
NoRun == [i |-> 0, failed |-> FALSE]

Init ==
    /\ HostResInit
    /\ m_scheduled = [c \in Copy |-> FALSE]
    /\ m_in_flight = FALSE /\ m_failed_commands = 0 /\ m_waitq = "free"
    /\ m_errorList = [state |-> "cleared", n |-> 0, failed |-> <<>>]
    /\ sched = Idle
    /\ wait = "idle" /\ clear = "idle"
    /\ m_critical_error = "none" /\ finalizing = FALSE
    /\ post = <<>> /\ calls = <<>>
    /\ h2c = <<>> /\ c2h = <<>>
    /\ run = NoRun /\ cardErr = 0 /\ solo = {}
    /\ runs = 0 /\ solos = 0 /\ fails = 0 /\ broke = 0

-----------------------------------------------------------------------------
(***************************************************************************)
(* The copies: preSchedule and postSchedule                                *)
(***************************************************************************)

preSchedule(c) ==
    /\ DeviceLockable(CopyRes[c], c \in C2H)
    /\ lock_device_access(CopyRes[c], c \in C2H)
    /\ m_scheduled' = [m_scheduled EXCEPT ![c] = TRUE]
    /\ UNCHANGED <<m_cpu_locked, m_failed_copy_ops, cpuPc>>

postSchedule(c) ==
    IF m_scheduled[c]
    THEN /\ m_scheduled' = [m_scheduled EXCEPT ![c] = FALSE]
         /\ unlock_device_access(CopyRes[c], c \in C2H)
         /\ UNCHANGED m_cpu_locked
    ELSE UNCHANGED <<m_scheduled, m_readers, m_cpu_locked, cpuPc>>

-----------------------------------------------------------------------------
(***************************************************************************)
(* schedule                                                                *)
(***************************************************************************)

\* Mutant: a list that runs may be scheduled again.
schedule_anyway ==
    /\ sched.pc = "idle" /\ m_waitq = "free" /\ runs < MaxRuns
    /\ m_failed_commands = 0 /\ m_errorList.n = 0
    /\ m_waitq' = "sched" /\ sched' = [Idle EXCEPT !.pc = "can"]
    /\ runs' = runs + 1
    /\ UNCHANGED <<resVars, m_scheduled, m_in_flight, m_failed_commands, m_errorList, wait, clear,
                   ctxVars, respVars, h2c, c2h, cardVars, solos, fails, broke>>

\* The tests under the mutex; a list that they refuse is NNP_DEVICE_BUSY.
schedule ==
    /\ sched.pc = "idle" /\ m_waitq = "free" /\ runs < MaxRuns
    /\ ~m_in_flight /\ m_failed_commands = 0 /\ m_errorList.n = 0
    /\ m_waitq' = "sched" /\ sched' = [Idle EXCEPT !.pc = "can"]
    /\ runs' = runs + 1
    /\ UNCHANGED <<resVars, m_scheduled, m_in_flight, m_failed_commands, m_errorList, wait, clear,
                   ctxVars, respVars, h2c, c2h, cardVars, solos, fails, broke>>

\* wait_can_schedule returned: no list is being finalized, or the context broke.
schedule_can ==
    /\ sched.pc = "can"
    /\ ~finalizing \/ ctxBroken
    /\ m_waitq' = "free"
    /\ m_in_flight' = ~ctxBroken
    /\ sched' = [sched EXCEPT !.pc = IF ctxBroken THEN "idle" ELSE "prepare"]
    /\ UNCHANGED <<resVars, m_scheduled, m_failed_commands, m_errorList, wait, clear, ctxVars,
                   respVars, h2c, c2h, cardVars, histVars>>

\* prepare_schedule of the next copy of an entry ...
schedule_prepare ==
    /\ sched.pc = "prepare" /\ sched.i <= Len(Vec) /\ sched.j <= Len(Vec[sched.i])
    /\ preSchedule(Vec[sched.i][sched.j])
    /\ sched' = [sched EXCEPT !.j = @ + 1]
    /\ UNCHANGED <<listVars, wait, clear, ctxVars, respVars, h2c, c2h, cardVars, histVars>>

\* ... and of the next entry.
schedule_next ==
    /\ sched.pc = "prepare" /\ sched.i <= Len(Vec) /\ sched.j > Len(Vec[sched.i])
    /\ sched' = [sched EXCEPT !.i = @ + 1, !.j = 1]
    /\ UNCHANGED <<resVars, m_scheduled, listVars, wait, clear, ctxVars, respVars, h2c, c2h, cardVars, histVars>>

\* schedule_done of all copies of entry i is next, if there is such an entry.
Undo(pc, i) == [pc |-> pc, i |-> i, j |-> 1, n |-> IF i \in DOMAIN Vec THEN Len(Vec[i]) ELSE 0]

\* A copy cannot be locked: a copy list releases its copies up to and with this
\* one, and schedule all entries before it, last first.
schedule_busy ==
    /\ sched.pc = "prepare" /\ sched.i <= Len(Vec) /\ sched.j <= Len(Vec[sched.i])
    /\ LET c == Vec[sched.i][sched.j] IN ~DeviceLockable(CopyRes[c], c \in C2H)
    /\ sched' = IF Len(Vec[sched.i]) > 1 THEN [pc |-> "back", i |-> sched.i, j |-> 1, n |-> sched.j]
                ELSE Undo("back", sched.i - 1)
    /\ UNCHANGED <<resVars, m_scheduled, listVars, wait, clear, ctxVars, respVars, h2c, c2h, cardVars, histVars>>

\* send_to_card; module CmdListEdits has what it sends.
schedule_send ==
    /\ sched.pc = "prepare" /\ sched.i > Len(Vec) /\ ~ctxBroken
    /\ h2c' = Append(h2c, [op |-> "run", c |-> <<>>])
    /\ sched' = Idle
    /\ UNCHANGED <<resVars, m_scheduled, listVars, wait, clear, ctxVars, respVars, c2h, cardVars, histVars>>

\* send_to_card failed, for which a broken context is one reason: all entries
\* are released, first to last.
schedule_send_fail ==
    /\ sched.pc = "prepare" /\ sched.i > Len(Vec)
    /\ ctxBroken \/ fails < MaxFails
    /\ fails' = IF ctxBroken THEN fails ELSE fails + 1
    /\ sched' = Undo("all", 1)
    /\ UNCHANGED <<resVars, m_scheduled, listVars, wait, clear, ctxVars, respVars, h2c, c2h, cardVars,
                   runs, solos, broke>>

\* schedule_done of one copy ...
schedule_undo ==
    /\ sched.pc \in {"back", "all"} /\ sched.i \in DOMAIN Vec /\ sched.j <= sched.n
    /\ postSchedule(Vec[sched.i][sched.j])
    /\ sched' = [sched EXCEPT !.j = @ + 1]
    /\ UNCHANGED <<m_failed_copy_ops, listVars, wait, clear, ctxVars, respVars, h2c, c2h, cardVars, histVars>>

\* ... and of the next entry.
schedule_undo_next ==
    /\ sched.pc \in {"back", "all"} /\ sched.i \in DOMAIN Vec /\ sched.j > sched.n
    /\ sched' = Undo(sched.pc, IF sched.pc = "back" THEN sched.i - 1 ELSE sched.i + 1)
    /\ UNCHANGED <<resVars, m_scheduled, listVars, wait, clear, ctxVars, respVars, h2c, c2h, cardVars, histVars>>

\* Mutant: the flag is reset without a notification.
Completed_silent ==
    /\ m_in_flight' = FALSE
    /\ UNCHANGED wait

\* update_and_notify: who sleeps in wait tests again.
Completed ==
    /\ m_in_flight' = FALSE
    /\ wait' = IF wait = "asleep" THEN "test" ELSE wait

schedule_undone ==
    /\ sched.pc \in {"back", "all"} /\ sched.i \notin DOMAIN Vec /\ m_waitq = "free"
    /\ Completed
    /\ sched' = Idle
    /\ UNCHANGED <<resVars, m_scheduled, m_failed_commands, m_waitq, m_errorList, clear, ctxVars,
                   respVars, h2c, c2h, cardVars, histVars>>

-----------------------------------------------------------------------------
(***************************************************************************)
(* wait and clearErrors                                                    *)
(***************************************************************************)

Keep == <<resVars, m_scheduled, ctxVars, respVars, c2h, cardVars, histVars>>

\* wait; with UINT32_MAX it does not time out.
wait_start ==
    /\ wait = "idle" /\ runs > 0 /\ wait' = "test"
    /\ UNCHANGED <<Keep, listVars, sched, clear, h2c>>

\* The condition, under the mutex; the end that is found decides the result.
wait_test ==
    /\ wait = "test" /\ m_waitq = "free"
    /\ wait' = IF m_in_flight /\ ~ctxBroken THEN "asleep"
               ELSE IF ctxBroken THEN "idle" ELSE "over"
    /\ UNCHANGED <<Keep, listVars, sched, clear, h2c>>

\* wait_timeout_lock gives up and releases the mutex ...
wait_timeout ==
    /\ wait = "asleep" /\ m_waitq = "free" /\ wait' = "late"
    /\ UNCHANGED <<Keep, listVars, sched, clear, h2c>>

\* ... and wait unlocks it once more: with the default mutex of the build this
\* takes it from whoever has it.
wait_late ==
    /\ wait = "late" /\ wait' = "idle" /\ m_waitq' = "free"
    /\ UNCHANGED <<Keep, m_in_flight, m_failed_commands, m_errorList, sched, clear, h2c>>

\* m_failed_commands is read without the mutex: no error, or the card is asked.  If
\* the message cannot be written, the list's query is started all the same: a
\* clearErrors that waits for it then waits for ever (FailInClear).
wait_over ==
    /\ wait = "over"
    /\ IF m_failed_commands = 0
       THEN wait' = "idle" /\ UNCHANGED <<m_errorList, h2c>>
       ELSE /\ m_errorList' = [m_errorList EXCEPT !.state = "started", !.n = 0]
            /\ \/ wait' = "query" /\ h2c' = Append(h2c, [op |-> "query", c |-> <<>>])
               \/ (FailInClear \/ clear = "idle") /\ wait' = "idle" /\ UNCHANGED h2c
    /\ UNCHANGED <<Keep, m_in_flight, m_failed_commands, m_waitq, sched, clear>>

wait_queried ==
    /\ wait = "query"
    /\ m_errorList.state = "completed" \/ ctxBroken
    /\ wait' = "idle"
    /\ UNCHANGED <<Keep, listVars, sched, clear, h2c>>

\* Nothing in the code asks that the list has completed: ClearInFlight.  A message
\* that cannot be written ends the call.
clearErrors ==
    /\ clear = "idle" /\ m_waitq = "free" /\ (m_failed_commands > 0 \/ m_errorList.n > 0)
    /\ ClearInFlight \/ ~m_in_flight
    /\ Len(h2c) + Len(c2h) <= MaxQueued
    /\ m_errorList' = [m_errorList EXCEPT !.state = "started"]
    /\ \/ m_waitq' = "clear" /\ clear' = "query" /\ h2c' = Append(h2c, [op |-> "clear", c |-> <<>>])
       \/ UNCHANGED <<m_waitq, clear, h2c>>
    /\ UNCHANGED <<Keep, m_in_flight, m_failed_commands, sched, wait>>

clearErrors_done ==
    /\ clear = "query"
    /\ m_errorList.state = "completed" \/ ctxBroken
    /\ m_failed_commands' = IF ctxBroken THEN m_failed_commands ELSE 0
    /\ clear' = "idle" /\ m_waitq' = "free"
    /\ UNCHANGED <<Keep, m_in_flight, m_errorList, sched, wait, h2c>>

-----------------------------------------------------------------------------
(***************************************************************************)
(* Single copies, and what else the application does                       *)
(***************************************************************************)

\* nnpiCopyCommand::schedule of a copy; not again while it is pending.
schedule_copy(c) ==
    /\ c \in Solo \ solo /\ solos < MaxSolos /\ ~ctxBroken
    /\ c \in C2H \/ ~m_scheduled[c]
    /\ preSchedule(c)
    /\ h2c' = Append(h2c, [op |-> "copy", c |-> <<c>>])
    /\ solo' = solo \cup {c}
    /\ solos' = solos + 1
    /\ UNCHANGED <<listVars, userVars, ctxVars, respVars, c2h, run, cardErr, runs, fails, broke>>

\* Another list is finalized: cmdlist_finalized_add.
finalize(b) ==
    /\ finalizing # b /\ finalizing' = b /\ (b => runs = 0)
    /\ UNCHANGED <<resVars, m_scheduled, listVars, userVars, m_critical_error, respVars, h2c, c2h, cardVars, histVars>>

recover ==
    /\ ctxBroken /\ m_critical_error' = "none"
    /\ UNCHANGED <<resVars, m_scheduled, listVars, userVars, finalizing, respVars, h2c, c2h, cardVars, histVars>>

-----------------------------------------------------------------------------
(***************************************************************************)
(* The response thread                                                     *)
(***************************************************************************)

respIdle == post = <<>> /\ calls = <<>>
Posts(cs, failed) == [k \in DOMAIN cs |-> [c |-> cs[k], failed |-> failed]]

\* complete or addError of the list, for which its mutex is taken.
list_call ==
    /\ post = <<>> /\ calls # <<>> /\ m_waitq = "free"
    /\ calls' = Tail(calls)
    /\ IF Head(calls) = "complete"
       THEN Completed /\ UNCHANGED m_failed_commands
       ELSE m_failed_commands' = m_failed_commands + 1 /\ UNCHANGED <<m_in_flight, wait>>
    /\ UNCHANGED <<resVars, m_scheduled, m_waitq, m_errorList, sched, clear, ctxVars, post, h2c, c2h,
                   cardVars, histVars>>

\* postSchedule of the next copy; a failed one is recorded in the list's errors.
release_copy ==
    /\ post # <<>>
    /\ LET c == Head(post).c
           failed == Head(post).failed /\ m_scheduled[c] IN
       /\ postSchedule(c)
       /\ m_failed_copy_ops' = IF failed THEN [m_failed_copy_ops EXCEPT ![CopyRes[c]] = @ + 1]
                               ELSE m_failed_copy_ops
       /\ m_errorList' = IF failed THEN [m_errorList EXCEPT !.failed = Append(@, CopyRes[c])] ELSE m_errorList
    /\ post' = Tail(post)
    /\ UNCHANGED <<m_in_flight, m_failed_commands, m_waitq, userVars, ctxVars, calls, h2c, c2h, cardVars, histVars>>

\* An event is taken from the channel.  What it releases and calls follows in
\* steps of their own.
Receive(op) == respIdle /\ c2h # <<>> /\ Head(c2h).op = op /\ c2h' = Tail(c2h)

\* Mutant: the failure of an inference request or copy completes the list only.
executed_unreported ==
    /\ Receive("executed")
    /\ post' = Posts(Head(c2h).cs, ~Head(c2h).ok)
    /\ calls' = SelectSeq(Head(c2h).calls, LAMBDA x : x # "addError")
    /\ UNCHANGED <<resVars, m_scheduled, listVars, userVars, ctxVars, h2c, cardVars, histVars>>

\* EXECUTE_COPY_*, EXECUTE_CPYLST_*, CHAN_INFREQ_FAILED and EXECUTE_CMD_COMPLETE.
executed ==
    /\ Receive("executed")
    /\ post' = Posts(Head(c2h).cs, ~Head(c2h).ok)
    /\ calls' = Head(c2h).calls
    /\ UNCHANGED <<resVars, m_scheduled, listVars, userVars, ctxVars, h2c, cardVars, histVars>>

\* Mutant: the lists are not completed.
context_fatal_only ==
    /\ Receive("break")
    /\ m_critical_error' = "context"
    /\ UNCHANGED <<resVars, m_scheduled, listVars, userVars, finalizing, post, calls, h2c, cardVars, histVars>>

\* A context fatal event; completeAllCommandLists follows.
context_fatal ==
    /\ Receive("break")
    /\ m_critical_error' = "context"
    /\ calls' = <<"complete">>
    /\ UNCHANGED <<resVars, m_scheduled, listVars, userVars, finalizing, post, h2c, cardVars, histVars>>

\* The list's errors, in one packet: nobody may ask any more.
errors_arrive ==
    /\ Receive("errors")
    /\ m_errorList' = IF m_errorList.state # "started" THEN m_errorList
                      ELSE [m_errorList EXCEPT !.state = "completed", !.n = Head(c2h).n]
    /\ UNCHANGED <<resVars, m_scheduled, m_in_flight, m_failed_commands, m_waitq, userVars, ctxVars, respVars,
                   h2c, cardVars, histVars>>

\* The card has cleared its errors: so are the resources of the failed copies.
clearRequestSucceeded ==
    /\ Receive("cleared")
    /\ m_errorList' = [state |-> "completed", n |-> 0, failed |-> <<>>]
    /\ m_failed_copy_ops' = [r \in Res |-> m_failed_copy_ops[r]
                                - Cardinality({k \in DOMAIN m_errorList.failed : m_errorList.failed[k] = r})]
    /\ UNCHANGED <<m_readers, m_cpu_locked, cpuPc, m_scheduled, m_in_flight, m_failed_commands, m_waitq,
                   userVars, ctxVars, respVars, h2c, cardVars, histVars>>

-----------------------------------------------------------------------------
(***************************************************************************)
(* The card                                                                *)
(***************************************************************************)

Event(op) == [op |-> op, cs |-> <<>>, ok |-> TRUE, calls |-> <<>>, n |-> 0]
HostVars == <<resVars, m_scheduled, listVars, userVars, ctxVars, respVars>>

card_takes ==
    /\ h2c # <<>> /\ h2c' = Tail(h2c)
    /\ CASE Head(h2c).op = "run" ->
              /\ run.i = 0 /\ run' = [i |-> 1, failed |-> FALSE] /\ UNCHANGED <<c2h, cardErr>>
         [] Head(h2c).op = "query" ->
              /\ c2h' = Append(c2h, [Event("errors") EXCEPT !.n = cardErr]) /\ UNCHANGED <<run, cardErr>>
         [] Head(h2c).op = "clear" ->
              /\ c2h' = Append(c2h, Event("cleared")) /\ cardErr' = 0 /\ UNCHANGED run
         [] Head(h2c).op = "copy" -> UNCHANGED <<run, cardErr, c2h>>
    /\ UNCHANGED <<HostVars, solo, histVars>>

\* An entry of the list is done.  Success of the last one completes the list with
\* the same event; after a failure an event of its own does.
card_runs(ok) ==
    /\ run.i # 0 /\ (~ok => fails < MaxFails)
    /\ LET last == run.i = Len(Vec)
           done == [Event("executed") EXCEPT
                      !.cs = Vec[run.i], !.ok = ok,
                      !.calls = IF ~ok THEN <<"addError">>
                                ELSE IF last /\ ~run.failed THEN <<"complete">> ELSE <<>>]
           complete == [Event("executed") EXCEPT !.calls = <<"complete">>] IN
       /\ c2h' = Append(c2h, done) \o (IF last /\ (run.failed \/ ~ok) THEN <<complete>> ELSE <<>>)
       /\ run' = IF last THEN NoRun ELSE [i |-> run.i + 1, failed |-> run.failed \/ ~ok]
    /\ fails' = IF ok THEN fails ELSE fails + 1
    /\ cardErr' = IF ok THEN cardErr ELSE cardErr + 1
    /\ UNCHANGED <<HostVars, h2c, solo, runs, solos, broke>>

card_copies(c) ==
    /\ c \in solo /\ solo' = solo \ {c}
    /\ \A k \in DOMAIN h2c : h2c[k].c # <<c>>
    /\ c2h' = Append(c2h, [Event("executed") EXCEPT !.cs = <<c>>])
    /\ UNCHANGED <<HostVars, h2c, run, cardErr, histVars>>

card_breaks ==
    /\ broke < MaxBreaks /\ broke' = broke + 1
    /\ Len(h2c) + Len(c2h) < MaxQueued
    /\ c2h' = Append(c2h, Event("break"))
    /\ UNCHANGED <<HostVars, h2c, cardVars, runs, solos, fails>>

Respond == list_call \/ release_copy \/ executed \/ context_fatal \/ errors_arrive \/ clearRequestSucceeded
Schedule == \/ schedule_can \/ schedule_prepare \/ schedule_next \/ schedule_busy \/ schedule_send
            \/ schedule_send_fail \/ schedule_undo \/ schedule_undo_next \/ schedule_undone
Card == card_takes \/ (\E ok \in BOOLEAN : card_runs(ok)) \/ \E c \in Copy : card_copies(c)

Next ==
    \/ schedule \/ Schedule
    \/ wait_start \/ wait_test \/ wait_timeout \/ wait_late \/ wait_over \/ wait_queried
    \/ clearErrors \/ clearErrors_done
    \/ \E c \in Solo : schedule_copy(c)
    \/ \E b \in BOOLEAN : finalize(b)
    \/ recover
    \/ Respond
    \/ Card \/ card_breaks

Spec == Init /\ [][Next]_vars

\* Threads that can go on do; finalizes of other lists end.  clearErrors sees the
\* end of its query at some time though waits of others start new ones, and wait
\* and the response thread get the mutex at some time though clearErrors, which
\* returns at once while the context is broken, is called again and again.  A card
\* whose context broke need not do anything more.
FairSpec ==
    /\ Spec
    /\ WF_vars(Schedule) /\ SF_vars(wait_test) /\ WF_vars(wait_late) /\ WF_vars(wait_over) /\ WF_vars(wait_queried)
    /\ SF_vars(clearErrors_done) /\ SF_vars(Respond) /\ WF_vars(broke = 0 /\ Card) /\ WF_vars(finalize(FALSE))

-----------------------------------------------------------------------------
(***************************************************************************)
(* Properties                                                              *)
(***************************************************************************)

TypeOK ==
    /\ HostResTypeOK
    /\ m_scheduled \in [Copy -> BOOLEAN]
    /\ m_in_flight \in BOOLEAN /\ m_failed_commands \in 0 .. MaxFails
    /\ m_waitq \in {"free", "sched", "clear"}
    /\ m_errorList.state \in {"cleared", "started", "completed"} /\ m_errorList.n \in 0 .. MaxFails
    /\ sched.pc \in {"idle", "can", "prepare", "back", "all"} /\ sched.i \in 0 .. Len(Vec) + 1
    /\ sched.i \in DOMAIN Vec => /\ sched.j \in 1 .. Len(Vec[sched.i]) + 1
                                 /\ sched.n \in 0 .. Len(Vec[sched.i])
    /\ wait \in {"idle", "test", "asleep", "late", "over", "query"}
    /\ clear \in {"idle", "query"}
    /\ m_critical_error \in {"none", "context"} /\ finalizing \in BOOLEAN
    /\ run.i \in 0 .. Len(Vec) /\ cardErr \in 0 .. MaxFails /\ solo \subseteq Solo
    /\ runs \in 0 .. MaxRuns /\ broke \in 0 .. MaxBreaks

\* The card has the copy to do, from the message to the event.
InEntry(c, i) == \E j \in DOMAIN Vec[i] : Vec[i][j] = c
RunQueued == \E k \in DOMAIN h2c : h2c[k].op = "run"
OnCard(c) ==
    \/ c \in solo
    \/ \E i \in DOMAIN Vec : InEntry(c, i) /\ (RunQueued \/ (run.i # 0 /\ run.i <= i))

\* While the card works on a copy, of a list or on its own, the resource is
\* locked for it: for write if the card writes it, so that neither the CPU nor
\* another copy gets it.  This is so until the context breaks.  After a break and a
\* recover the list may be scheduled while the card still has its old run; its
\* copies are busy, and the undo (nnpiCommandList.h:190) unlocks them.
LockHeldOnCard ==
    broke = 0 => \A c \in Copy : OnCard(c) /\ ~Lockless(CopyRes[c]) =>
        IF c \in C2H THEN m_readers[CopyRes[c]] = -1 ELSE m_readers[CopyRes[c]] > 0

\* Between runs nothing of the list is left locked: a schedule that failed half
\* way has undone what it did, and a run has released every copy before it is
\* reported complete.
ListReleases ==
    broke = 0 /\ ~m_in_flight /\ sched.pc \in {"idle", "can"} =>
        \A i \in DOMAIN Vec : \A c \in Copy \ Solo : InEntry(c, i) => ~m_scheduled[c]

\* The list runs at most once at a time: the host starts no second run before
\* the card has reported the first.
OneRun ==
    broke = 0 /\ (RunQueued \/ run.i # 0) =>
        /\ m_in_flight
        /\ Cardinality({k \in DOMAIN h2c : h2c[k].op = "run"}) + (IF run.i # 0 THEN 1 ELSE 0) = 1

\* The errors of the list are being cleared: clearErrors may already have
\* returned, on the answer to a query of wait.
Clearing == \E k \in DOMAIN h2c : h2c[k].op = "clear"

\* wait says "no errors" only of a list whose last run has ended without one,
\* unless the errors are being cleared.
NoFailureMissed ==
    [][wait = "over" /\ wait' = "idle" /\ m_failed_commands = 0 /\ broke = 0 /\ sched.pc = "idle" /\ ~m_in_flight
       => cardErr = 0 \/ Clearing]_vars

\* When everything has been answered, host and card agree: the list is idle, it
\* counts failures if and only if the card has errors for it, and no resource
\* is broken on account of errors that were cleared.
QuietAgree ==
    /\ broke = 0 /\ h2c = <<>> /\ c2h = <<>> /\ run.i = 0 /\ respIdle
    /\ sched.pc = "idle" /\ clear = "idle" /\ wait \in {"idle", "asleep", "late"}
    => /\ ~m_in_flight
       /\ (m_failed_commands > 0) = (cardErr > 0)
       /\ cardErr = 0 => m_errorList.n = 0 /\ \A r \in Res : ~broken(r)

\* A recover has ended a break: of the breaks, some are neither in the channel nor
\* the context's error.
Recovered ==
    broke > Cardinality({k \in DOMAIN c2h : c2h[k].op = "break"}) + (IF ctxBroken THEN 1 ELSE 0)

\* clearErrors returns, though it keeps the list's mutex while it waits for the
\* response thread.  When the context breaks, that thread needs the mutex for
\* completeAllCommandLists, which it gets for clearErrors sees the error, unless
\* recover (nnpiInfContext.cpp:857) zeroes it before: then neither goes on.
ClearEnds == clear # "idle" ~> clear = "idle" \/ Recovered

\* nnpdrvInference.h:619: wait returns "on completion or if a critical error
\* occurred": nobody sleeps on for a list that is not running any more, or that a
\* card whose context broke will not report.  After a recover it may need a mutex
\* that clearErrors keeps, as above.
WaitReturns == wait \in {"test", "asleep"} ~> wait \in {"idle", "over"} \/ Recovered

\* The list is scheduled, undone, run and cleared so that it runs once at a time,
\* leaves nothing locked behind and agrees with the card when all is quiet.
ListRight == TypeOK /\ OneRun /\ ListReleases /\ QuietAgree

\* The calls that wait for the response thread return, also when the context
\* breaks, until it is recovered.
CallsEnd == ClearEnds /\ WaitReturns
=============================================================================
