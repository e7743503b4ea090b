------------------------------ MODULE ErrorList ------------------------------
(***************************************************************************)
(* How a context learns of execution errors: nnpiExecErrorList             *)
(* (src/nnpi_drv/nnpiExecErrorList.{h,cpp}), the response ring through     *)
(* which its packets arrive (nnpiUtils.h), and waitCriticalError, recover  *)
(* and processExecErrorList of nnpiInfContext.cpp.                         *)
(*                                                                         *)
(* Two lists: that of the context and that of a command list, which may be *)
(* destroyed.  A page of the ring holds one packet, a packet is a unit of  *)
(* size and has the answer it belongs to and its number in it.  The card   *)
(* is external: it handles messages in order and sends the packets of an   *)
(* answer one by one, as it has pages.                                     *)
(***************************************************************************)
EXTENDS Integers, Sequences, FiniteSets, SequencesExt

CONSTANTS
    Waiter,      \* threads in waitCriticalError
    RingPages,   \* pages of the response ring
    MaxErrors,   \* bound: errors of a list, and packets of an answer
    MaxEvents,   \* bound: execution errors that the card reports
    MaxQueries,  \* bound: messages to the card
    MaxFails     \* bound: messages that cannot be written, answers that fail

ASSUME ErrorsAssumption ==
    /\ RingPages \in Nat \ {0}
    /\ {MaxErrors, MaxEvents, MaxQueries, MaxFails} \subseteq Nat

Lists == {"ctx", "cmd"}

VARIABLES
    m_critical_error,  \* "none", "exec" (CONTEXT_EXEC_ERROR), "context" (another one of
                       \* the context) or "fatal" (of the card, or a request to abort)
    list,              \* [Lists -> [state, buf, data, descs, val]], buf: m_buf_size, 0 for no m_buf
    m_head, m_tail, m_is_full, page,  \* the response ring and its memory
    objdb,             \* is the command list in it?
    w,                 \* waitCriticalError: [Waiter -> position]
    rec, critical_save, \* recover: position, and the error that it took last
    usr,               \* the thread that asks for the errors of the command list
    h2c, c2h,          \* the channel
    err, exists,       \* the card: number of errors of each list, has it the command list,
    ans,               \*   the answer it is sending, and
    credit, cardTail,  \*   free pages and next page of the ring
    asked,             \* history: for each list, the answer that its last query will get
    overlap,           \* history: lists of which two queries were under way at once
    dropped,           \* history: a critical error was taken and not put back
    events, queries, fails

ringVars == <<m_head, m_tail, m_is_full, page>>
cardVars == <<err, exists, ans, credit, cardTail>>
threadVars == <<w, rec, usr>>
histVars == <<asked, overlap, dropped>>
boundVars == <<events, queries, fails>>
vars == <<m_critical_error, list, ringVars, objdb, threadVars, critical_save, h2c, c2h, cardVars, histVars, boundVars>>

NoPacket == [id |-> 0, k |-> 0]
NoAnswer == [l |-> "ctx", id |-> 0, k |-> 0, total |-> 0]
Cleared == [state |-> "cleared", buf |-> 0, data |-> <<>>, descs |-> <<>>, val |-> "ok"]

Init ==
    /\ m_critical_error = "none"
    /\ list = [l \in Lists |-> Cleared]
    /\ m_head = 0 /\ m_tail = 0 /\ m_is_full = FALSE /\ page = [i \in 0 .. RingPages - 1 |-> NoPacket]
    /\ objdb = TRUE
    /\ w = [t \in Waiter |-> "idle"] /\ rec = "idle" /\ usr = "idle" /\ critical_save = "exec"
    /\ h2c = <<>> /\ c2h = <<>>
    /\ err = [l \in Lists |-> 0] /\ exists = TRUE /\ ans = NoAnswer /\ credit = RingPages /\ cardTail = 0
    /\ asked = [l \in Lists |-> 0] /\ overlap = {} /\ dropped = FALSE
    /\ events = 0 /\ queries = 0 /\ fails = 0

broken == m_critical_error # "none"

\* notify_all of the context's wait queue: who sleeps in it tests again.
Wake(pc) == CASE pc = "asleep" -> "test" [] pc = "qsleep" -> "query" [] OTHER -> pc
Notify == w' = [t \in Waiter |-> Wake(w[t])] /\ rec' = Wake(rec) /\ usr' = Wake(usr)

-----------------------------------------------------------------------------
(***************************************************************************)
(* Queries.  clear and startQuery take no lock; sendQueryErrorList writes  *)
(* to the channel under m_mutex; waitErrorListQueryCompletion sleeps on    *)
(* the context's wait queue.                                               *)
(***************************************************************************)

\* A query of l is under way: a message, an answer or a packet of it.
UnderWay(l) ==
    \/ \E i \in DOMAIN h2c : h2c[i].l = l /\ h2c[i].op \in {"query", "clear"}
    \/ \E i \in DOMAIN c2h : c2h[i].l = l /\ c2h[i].op \in {"packet", "failed", "cleared"}
    \/ ans.id # 0 /\ ans.l = l

startQuery(l) ==
    /\ list' = [list EXCEPT ![l].state = "started", ![l].val = "ok"]
    /\ overlap' = IF list[l].state = "started" \/ UnderWay(l) THEN overlap \cup {l} ELSE overlap

clear_startQuery(l) ==
    /\ list' = [list EXCEPT ![l] = [Cleared EXCEPT !.state = "started"]]
    /\ overlap' = IF list[l].state = "started" \/ UnderWay(l) THEN overlap \cup {l} ELSE overlap

\* The bound on messages, the ones about to be sent included.
Room ==
    queries + Cardinality({t \in Waiter : w[t] \in {"take", "send"}})
            + (IF rec \in {"take", "send"} THEN 1 ELSE 0) + (IF usr = "send" THEN 1 ELSE 0) < MaxQueries

\* The message is written; the number of the query is that of its answer.
sendQueryErrorList(l, op) ==
    /\ queries' = queries + 1
    /\ h2c' = Append(h2c, [op |-> op, l |-> l, id |-> queries + 1])
    /\ asked' = [asked EXCEPT ![l] = queries + 1]
    /\ UNCHANGED fails

send_fails ==
    /\ fails < MaxFails /\ fails' = fails + 1
    /\ UNCHANGED <<h2c, asked, queries>>

Answered(l) == list[l].state = "completed" \/ broken

-----------------------------------------------------------------------------
(***************************************************************************)
(* waitCriticalError.  "test" to "asleep" is the wait; with "take" the     *)
(* error was taken from the context, and "restore" puts it back.           *)
(***************************************************************************)

Rest == <<ringVars, objdb, c2h, cardVars, events>>
Others == <<Rest, critical_save>>

wait_start(t) ==
    /\ w[t] = "idle" /\ w' = [w EXCEPT ![t] = "test"]
    /\ UNCHANGED <<Others, m_critical_error, list, rec, usr, h2c, histVars, queries, fails>>

\* An execution error is zeroed while the card is asked; others are only read.
wait_test(t) ==
    /\ w[t] = "test" /\ (m_critical_error = "exec" => Room)
    /\ w' = [w EXCEPT ![t] = CASE m_critical_error = "none" -> "asleep"
                               [] m_critical_error = "exec" -> "take"
                               [] OTHER -> "idle"]
    /\ m_critical_error' = IF m_critical_error = "exec" THEN "none" ELSE m_critical_error
    /\ UNCHANGED <<Others, list, rec, usr, h2c, histVars, queries, fails>>

wait_timeout(t) ==
    /\ w[t] = "asleep" /\ w' = [w EXCEPT ![t] = "late"]
    /\ UNCHANGED <<Others, m_critical_error, list, rec, usr, h2c, histVars, queries, fails>>

\* A timed wait that ends does not have the lock; an error that came after it is
\* zeroed all the same, and the caller told of a timeout.
wait_late(t) ==
    /\ w[t] = "late" /\ w' = [w EXCEPT ![t] = "idle"]
    /\ m_critical_error' = IF m_critical_error = "exec" THEN "none" ELSE m_critical_error
    /\ dropped' = (dropped \/ m_critical_error = "exec")
    /\ UNCHANGED <<Others, list, rec, usr, h2c, asked, overlap, queries, fails>>

\* Mutant: the list is not cleared before it is asked for again.
wait_startQuery_keeps(t) ==
    /\ w[t] = "take" /\ w' = [w EXCEPT ![t] = "send"]
    /\ startQuery("ctx")
    /\ UNCHANGED <<Others, m_critical_error, rec, usr, h2c, asked, dropped, queries, fails>>

wait_startQuery(t) ==
    /\ w[t] = "take" /\ w' = [w EXCEPT ![t] = "send"]
    /\ clear_startQuery("ctx")
    /\ UNCHANGED <<Others, m_critical_error, rec, usr, h2c, asked, dropped, queries, fails>>

\* A query that cannot be sent ends waitCriticalError: the error is not put back.
wait_send(t) ==
    /\ w[t] = "send"
    /\ \/ sendQueryErrorList("ctx", "query") /\ w' = [w EXCEPT ![t] = "query"] /\ UNCHANGED dropped
       \/ send_fails /\ w' = [w EXCEPT ![t] = "idle"] /\ dropped' = TRUE
    /\ UNCHANGED <<Others, m_critical_error, list, rec, usr, overlap>>

wait_query(t) ==
    /\ w[t] = "query" /\ w' = [w EXCEPT ![t] = IF Answered("ctx") THEN "restore" ELSE "qsleep"]
    /\ UNCHANGED <<Others, m_critical_error, list, rec, usr, h2c, histVars, queries, fails>>

\* Mutant: the error is gone once it was reported.
wait_restore_not(t) ==
    /\ w[t] = "restore" /\ w' = [w EXCEPT ![t] = "idle"]
    /\ UNCHANGED <<Others, m_critical_error, list, rec, usr, h2c, histVars, queries, fails>>

wait_restore(t) ==
    /\ w[t] = "restore" /\ w' = [w EXCEPT ![t] = "idle"]
    /\ m_critical_error' = IF broken THEN m_critical_error ELSE "exec"
    /\ UNCHANGED <<Others, list, rec, usr, h2c, histVars, queries, fails>>

-----------------------------------------------------------------------------
(***************************************************************************)
(* recover, and the query for the errors of a command list                 *)
(***************************************************************************)

\* Of a context that is not broken, or cannot be recovered, it returns at once.
recover ==
    /\ rec = "idle" /\ m_critical_error \in {"exec", "context"} /\ Room
    /\ critical_save' = m_critical_error /\ m_critical_error' = "none" /\ rec' = "take"
    /\ UNCHANGED <<Rest, list, w, usr, h2c, histVars, queries, fails>>

recover_startQuery ==
    /\ rec = "take" /\ rec' = "send"
    /\ startQuery("ctx")
    /\ UNCHANGED <<Others, m_critical_error, w, usr, h2c, asked, dropped, queries, fails>>

recover_send ==
    /\ rec = "send"
    /\ \/ sendQueryErrorList("ctx", "clear") /\ rec' = "query"
       \/ send_fails /\ rec' = "failed"
    /\ UNCHANGED <<Others, m_critical_error, list, w, usr, overlap, dropped>>

recover_query ==
    /\ rec = "query"
    /\ rec' = CASE ~Answered("ctx") -> "qsleep"
                [] broken \/ list["ctx"].val # "ok" -> "failed"
                [] OTHER -> "idle"
    /\ UNCHANGED <<Others, m_critical_error, list, w, usr, h2c, histVars, queries, fails>>

recover_failed ==
    /\ rec = "failed" /\ rec' = "idle"
    /\ m_critical_error' = IF broken THEN m_critical_error ELSE critical_save
    /\ UNCHANGED <<Others, list, w, usr, h2c, histVars, queries, fails>>

\* nnpiCommandList::wait of a list with failed commands.
list_startQuery ==
    /\ usr = "idle" /\ objdb /\ err["cmd"] > 0 /\ Room /\ usr' = "send"
    /\ clear_startQuery("cmd")
    /\ UNCHANGED <<Others, m_critical_error, w, rec, h2c, asked, dropped, queries, fails>>

list_send ==
    /\ usr = "send"
    /\ \/ sendQueryErrorList("cmd", "query") /\ usr' = "query"
       \/ send_fails /\ usr' = "idle"
    /\ UNCHANGED <<Others, m_critical_error, list, w, rec, overlap, dropped>>

list_query ==
    /\ usr = "query" /\ usr' = IF Answered("cmd") THEN "idle" ELSE "qsleep"
    /\ UNCHANGED <<Others, m_critical_error, list, w, rec, h2c, histVars, queries, fails>>

\* The list is destroyed, with a query still unanswered if its thread gave up or
\* another one does it.
list_destroy ==
    /\ exists /\ Room /\ queries' = queries + 1
    /\ \A i \in DOMAIN h2c : h2c[i].op # "destroy"
    /\ h2c' = Append(h2c, [op |-> "destroy", l |-> "cmd", id |-> 0])
    /\ UNCHANGED <<Others, m_critical_error, list, threadVars, histVars, fails>>

-----------------------------------------------------------------------------
(***************************************************************************)
(* The response thread                                                     *)
(***************************************************************************)

Receive(op) == c2h # <<>> /\ Head(c2h).op = op /\ c2h' = Tail(c2h)

\* CONTEXT_EXEC_ERROR, or an event that is fatal for the context or the card.
critical_event ==
    /\ Receive("exec") \/ Receive("context") \/ Receive("fatal")
    /\ m_critical_error' = IF broken THEN m_critical_error ELSE Head(c2h).op
    /\ Notify
    /\ UNCHANGED <<list, ringVars, objdb, critical_save, h2c, cardVars, histVars, boundVars>>

\* Mutant: the waiters are not woken.
completeQuery_silent(l, r, val) ==
    /\ list' = [list EXCEPT ![l] = [r EXCEPT !.state = "completed", !.val = val,
                                             !.descs = IF val = "ok" THEN @ \o r.data ELSE @]]
    /\ UNCHANGED threadVars

\* completeQuery: the errors are found in the buffer, and the waiters are woken.
completeQuery(l, r, val) ==
    /\ list' = [list EXCEPT ![l] = [r EXCEPT !.state = "completed", !.val = val,
                                             !.descs = IF val = "ok" THEN @ \o r.data ELSE @]]
    /\ Notify

\* A packet goes into the buffer, which is allocated for the first one.
appendErrorListPacket(l, packet, total) ==
    LET r == list[l]
        buf == IF r.buf = 0 THEN total ELSE r.buf
        new == [r EXCEPT !.buf = buf, !.data = Append(@, packet)]
    IN IF r.state # "started" THEN UNCHANGED <<list, threadVars>>
       ELSE IF Len(r.data) + 1 > buf THEN completeQuery(l, [r EXCEPT !.buf = buf], "no_memory")
       ELSE IF Len(new.data) = total THEN completeQuery(l, new, "ok")
       ELSE list' = [list EXCEPT ![l] = new] /\ UNCHANGED threadVars

\* updateTailBy, and then lockAvailSpace and unlockAvailSpace of a page.
Inc(i) == (i + 1) % RingPages

\* EXEC_ERROR_LIST with a packet: the tail of the ring is moved first, then the
\* list is looked up, the packet read and the page given back to the card.
error_packet ==
    /\ Receive("packet")
    /\ m_tail' = Inc(m_tail)
    /\ IF Head(c2h).l = "cmd" /\ ~objdb
       THEN /\ m_is_full' = (m_is_full \/ m_tail' = m_head)
            /\ UNCHANGED <<m_head, list, threadVars, h2c>>
       ELSE /\ m_head' = Inc(m_head) /\ m_is_full' = FALSE
            /\ appendErrorListPacket(Head(c2h).l, page[m_head], Head(c2h).total)
            /\ h2c' = Append(h2c, [op |-> "update", l |-> "ctx", id |-> 0])
    /\ UNCHANGED <<m_critical_error, page, objdb, critical_save, cardVars, histVars, boundVars>>

\* EXEC_ERROR_LIST with is_error: val "ok" for an empty list.
error_failed ==
    /\ Receive("failed")
    /\ LET l == Head(c2h).l IN
       IF list[l].state # "started" \/ (l = "cmd" /\ ~objdb) THEN UNCHANGED <<list, threadVars>>
       ELSE completeQuery(l, list[l], Head(c2h).val)
    /\ UNCHANGED <<m_critical_error, ringVars, objdb, critical_save, h2c, cardVars, histVars, boundVars>>

\* EXEC_ERROR_LIST with clear_status: clearRequestSucceeded.
error_cleared ==
    /\ Receive("cleared")
    /\ list' = [list EXCEPT ![Head(c2h).l] = [Cleared EXCEPT !.state = "completed"]]
    /\ Notify
    /\ UNCHANGED <<m_critical_error, ringVars, objdb, critical_save, h2c, cardVars, histVars, boundVars>>

\* CMDLIST_DESTROYED
list_destroyed ==
    /\ Receive("destroyed") /\ objdb' = FALSE
    /\ UNCHANGED <<m_critical_error, list, ringVars, threadVars, critical_save, h2c, cardVars, histVars, boundVars>>

-----------------------------------------------------------------------------
(***************************************************************************)
(* The card                                                                *)
(***************************************************************************)

Event(op, l) == [op |-> op, l |-> l, id |-> 0, k |-> 0, total |-> 0, val |-> "ok"]
Host == <<m_critical_error, list, m_head, m_tail, m_is_full, objdb, threadVars, critical_save, histVars, queries>>

card_fails(l) ==
    /\ events < MaxEvents /\ events' = events + 1 /\ err[l] < MaxErrors
    /\ (l = "cmd") => exists
    /\ err' = [err EXCEPT ![l] = @ + 1]
    /\ c2h' = IF l = "ctx" THEN Append(c2h, Event("exec", l)) ELSE c2h
    /\ UNCHANGED <<Host, page, h2c, exists, ans, credit, cardTail, fails>>

card_dies ==
    /\ events < MaxEvents /\ events' = events + 1
    /\ \E op \in {"context", "fatal"} : c2h' = Append(c2h, Event(op, "ctx"))
    /\ UNCHANGED <<Host, page, h2c, cardVars, fails>>

\* The next message, when the last answer is complete.
card_takes ==
    /\ h2c # <<>> /\ h2c' = Tail(h2c)
    /\ LET m == Head(h2c) IN
       CASE m.op = "query" ->
              /\ ans.id = 0
              /\ IF err[m.l] = 0
                 THEN /\ c2h' = Append(c2h, [Event("failed", m.l) EXCEPT
                                               !.val = IF m.l = "cmd" /\ ~exists THEN "io_error" ELSE "ok"])
                      /\ UNCHANGED <<ans, fails>>
                 ELSE \/ ans' = [l |-> m.l, id |-> m.id, k |-> 0, total |-> err[m.l]] /\ UNCHANGED <<c2h, fails>>
                      \/ /\ fails < MaxFails /\ fails' = fails + 1
                         /\ c2h' = Append(c2h, [Event("failed", m.l) EXCEPT !.val = "io_error"])
                         /\ UNCHANGED ans
              /\ UNCHANGED <<err, exists, credit>>
         [] m.op = "clear" ->
              /\ ans.id = 0
              /\ c2h' = Append(c2h, Event("cleared", m.l)) /\ err' = [err EXCEPT ![m.l] = 0]
              /\ UNCHANGED <<exists, ans, credit, fails>>
         [] m.op = "destroy" ->
              /\ ans.id = 0
              /\ c2h' = Append(c2h, Event("destroyed", m.l)) /\ err' = [err EXCEPT !["cmd"] = 0]
              /\ exists' = FALSE
              /\ UNCHANGED <<ans, credit, fails>>
         [] m.op = "update" -> credit' = credit + 1 /\ UNCHANGED <<c2h, err, exists, ans, fails>>
    /\ UNCHANGED <<Host, page, cardTail, events>>

\* Updates of the ring are not delayed by an answer that waits for pages.
card_updates ==
    /\ ans.id # 0
    /\ \E i \in DOMAIN h2c : h2c[i].op = "update" /\ h2c' = RemoveAt(h2c, i)
    /\ credit' = credit + 1
    /\ UNCHANGED <<Host, page, c2h, err, exists, ans, cardTail, events, fails>>

card_sends ==
    /\ ans.id # 0 /\ credit > 0 /\ credit' = credit - 1
    /\ page' = [page EXCEPT ![cardTail] = [id |-> ans.id, k |-> ans.k + 1]]
    /\ cardTail' = Inc(cardTail)
    /\ c2h' = Append(c2h, [op |-> "packet", l |-> ans.l, id |-> ans.id, k |-> ans.k + 1, total |-> ans.total, val |-> "ok"])
    /\ ans' = IF ans.k + 1 = ans.total THEN NoAnswer ELSE [ans EXCEPT !.k = @ + 1]
    /\ UNCHANGED <<Host, h2c, err, exists, events, fails>>

Wait(t) == wait_test(t) \/ wait_late(t) \/ wait_startQuery(t) \/ wait_send(t) \/ wait_query(t) \/ wait_restore(t)
Recover == recover_startQuery \/ recover_send \/ recover_query \/ recover_failed
User == list_send \/ list_query
Respond == critical_event \/ error_packet \/ error_failed \/ error_cleared \/ list_destroyed
Card == card_takes \/ card_updates \/ card_sends

Next ==
    \/ \E t \in Waiter : wait_start(t) \/ Wait(t) \/ wait_timeout(t)
    \/ recover \/ Recover
    \/ list_startQuery \/ User \/ list_destroy
    \/ Respond
    \/ Card \/ (\E l \in Lists : card_fails(l)) \/ card_dies

Spec == Init /\ [][Next]_vars

\* Threads that can go on do, and the card handles its messages.
FairSpec ==
    /\ Spec
    /\ \A t \in Waiter : WF_vars(Wait(t))
    /\ WF_vars(Recover) /\ WF_vars(User) /\ WF_vars(Respond) /\ WF_vars(Card)

-----------------------------------------------------------------------------
(***************************************************************************)
(* Properties                                                              *)
(***************************************************************************)

TypeOK ==
    /\ m_critical_error \in {"none", "exec", "context", "fatal"} /\ critical_save \in {"exec", "context"}
    /\ \A l \in Lists : /\ list[l].state \in {"cleared", "started", "completed"}
                        /\ list[l].buf \in 0 .. MaxErrors /\ Len(list[l].data) <= list[l].buf
                        /\ list[l].val \in {"ok", "io_error", "no_memory"}
    /\ m_head \in 0 .. RingPages - 1 /\ m_tail \in 0 .. RingPages - 1 /\ m_is_full \in BOOLEAN
    /\ objdb \in BOOLEAN
    /\ w \in [Waiter -> {"idle", "test", "asleep", "late", "take", "send", "query", "qsleep", "restore"}]
    /\ rec \in {"idle", "take", "send", "query", "qsleep", "failed"}
    /\ usr \in {"idle", "send", "query", "qsleep"}
    /\ credit \in 0 .. RingPages /\ cardTail \in 0 .. RingPages - 1

\* Where the packets and the pages that come back are in the channel.
PacketAt == {i \in DOMAIN c2h : c2h[i].op = "packet"}
UpdateAt == {i \in DOMAIN h2c : h2c[i].op = "update"}

\* Of positions, those before i.
Below(S, i) == {j \in S : j < i}

\* Host and card agree on the ring: the packets that are announced lie in the
\* pages that the host will read next, in order, and every page is free at the
\* card, announced, or on its way back.  So a packet is never read from the page
\* of another one, and the early return of processExecErrorList for a list that
\* does not exist, after the tail was moved, is not taken.
RingInStep ==
    /\ m_head = m_tail /\ ~m_is_full
    /\ \A i \in PacketAt :
          page[(m_head + Cardinality(Below(PacketAt, i))) % RingPages] = [id |-> c2h[i].id, k |-> c2h[i].k]
    /\ credit + Cardinality(PacketAt) + Cardinality(UpdateAt) = RingPages

\* Unless two queries of a list overlapped, an answer that completes it is that
\* of the query asked last, with all of its packets, in order, and it fitted in
\* the buffer.
AssembledRight ==
    \A l \in Lists \ overlap :
        list[l].state = "completed" =>
            /\ list[l].val # "no_memory"
            /\ list[l].val = "ok" /\ list[l].descs # <<>> =>
                  list[l].descs = [k \in 1 .. list[l].buf |-> [id |-> asked[l], k |-> k]]

\* Who has taken the critical error and will put it back, or clear it.
Holding == (\E t \in Waiter : w[t] \in {"take", "send", "query", "qsleep", "restore"}) \/ rec # "idle"

\* An error that the card still has is not forgotten: the context is broken, or
\* the event is on its way, or somebody is asking or clearing the card.  (The
\* exceptions are a waitCriticalError that cannot send its query and one whose
\* time is up when the error arrives.)
ErrorNotForgotten ==
    err["ctx"] > 0 /\ ~dropped =>
        \/ broken \/ Holding
        \/ \E i \in DOMAIN c2h : c2h[i].op \in {"exec", "context", "fatal"}
        \/ \E i \in DOMAIN h2c : h2c[i].op = "clear"

\* Who waits for the errors of the context or of a list gets an answer, whatever
\* else is asked at the same time.  There are two ways not to: the answer to a
\* query of a command list that is destroyed meanwhile is not delivered; and a
\* recover that cannot send its query has already restarted the context's, and
\* puts the error back without waking anybody.
QueryEnds ==
    /\ \A t \in Waiter : w[t] \in {"query", "qsleep"} ~> w[t] \notin {"query", "qsleep"} \/ fails > 0
    /\ rec \in {"query", "qsleep"} ~> rec \notin {"query", "qsleep"} \/ fails > 0
    /\ usr \in {"query", "qsleep"} ~> usr \notin {"query", "qsleep"} \/ ~exists

\* Packets are found where the card put them, and make up the answer asked for.
PacketsRight == TypeOK /\ RingInStep /\ AssembledRight
==============================================================================
