-------------------------------- MODULE Marker --------------------------------
(***************************************************************************)
(* Markers of a context: SyncPoint (src/nnpi_drv/nnpiInfContext.h),        *)
(* createMarker and waitMarker (nnpiInfContext.cpp) and the events that    *)
(* complete or fail a sync.                                                *)
(*                                                                         *)
(* A marker is a counter of 16 bits and one bit that flips whenever the    *)
(* counter wraps.  To say what that is to mean, the specification also     *)
(* counts the wraps: a position is the counter with its cycle, and         *)
(* positions are never used twice.  The code never sees a cycle.           *)
(*                                                                         *)
(* Commands of a channel are handled in order and so are its events, and   *)
(* syncs are sent in the order of their positions: sets of positions, of   *)
(* which the least is next, stand for both queues.                         *)
(***************************************************************************)
EXTENDS Integers, FiniteSets

CONSTANTS
    Mod,        \* 2^16: values of the counter
    Waiter,     \* threads that call waitMarker
    Patient,    \* those that pass UINT32_MAX, no timeout
    Shared,     \* may a marker be waited for more than once?
    MaxCycle,   \* bound: cycles
    MaxFails,   \* bound: writes and syncs that fail
    MaxBreaks   \* bound: times that the context breaks

ASSUME MarkerAssumption ==
    /\ Mod \in Nat \ {0} /\ Patient \subseteq Waiter /\ Shared \in BOOLEAN
    /\ {MaxCycle, MaxFails, MaxBreaks} \subseteq Nat

VARIABLES
    m_sync_point, m_last_completed_sync_point,  \* [val, wrap]
    m_failed_sync_points,                       \* values of syncs that failed
    m_critical_error,   \* "none", "context", "abort" or "fatal"
    made, done,         \* positions of the two sync points
    sent,               \* syncs that the card has not handled
    events,             \* what it has reported: positions of syncs, and whether done
    brk,                \* a critical event is on its way, or "none"
    markers,            \* positions of the markers that were handed out in the last cycle
    wait,               \* [Waiter -> [pc, n]]: position in waitMarker and of the marker
    failedAt, told,     \* history: syncs that failed, markers already waited for
    untold,             \* history: syncs reported failed since the last who was told of the value
    fails, broke

syncVars == <<m_sync_point, m_last_completed_sync_point, m_failed_sync_points, made, done>>
cardVars == <<sent, events, brk>>
vars == <<syncVars, m_critical_error, cardVars, markers, wait, failedAt, told, untold, fails, broke>>

broken == m_critical_error # "none"
aborted == m_critical_error = "abort"

-----------------------------------------------------------------------------
(***************************************************************************)
(* Positions, and class SyncPoint                                          *)
(***************************************************************************)

Pos == [cycle : Nat, val : 0 .. Mod - 1]
Before(p, q) == p.cycle < q.cycle \/ (p.cycle = q.cycle /\ p.val < q.val)
IsLeast(p, S) == p \in S /\ \A q \in S : ~Before(q, p)

\* q comes after p, by less than a whole cycle.
Near(p, q) ==
    \/ q.cycle = p.cycle /\ p.val <= q.val
    \/ q.cycle = p.cycle + 1 /\ q.val < p.val

Succ(p) == IF p.val + 1 = Mod THEN [cycle |-> p.cycle + 1, val |-> 0] ELSE [p EXCEPT !.val = @ + 1]

\* The sync point of a position.
At(p) == [val |-> p.val, wrap |-> p.cycle % 2 = 1]

inc(sp) == LET v == (sp.val + 1) % Mod
           IN [val |-> v, wrap |-> IF v = 0 THEN ~sp.wrap ELSE sp.wrap]

set(sp, val) == [val |-> val, wrap |-> IF val < sp.val THEN ~sp.wrap ELSE sp.wrap]

\* Mutant: the wrap bit is not looked at.
LessThan_plain(sp, rhs) == sp.val < rhs.val

\* operator<
LessThan(sp, rhs) == IF sp.wrap = rhs.wrap THEN sp.val < rhs.val ELSE sp.val > rhs.val

-----------------------------------------------------------------------------
Start == [cycle |-> 0, val |-> 0]
Idle == [pc |-> "idle", n |-> Start]

Init ==
    /\ m_sync_point = At(Start) /\ m_last_completed_sync_point = At(Start)
    /\ m_failed_sync_points = {} /\ m_critical_error = "none"
    /\ made = Start /\ done = Start
    /\ sent = {} /\ events = {} /\ brk = "none"
    /\ markers = {} /\ wait = [w \in Waiter |-> Idle]
    /\ failedAt = {} /\ told = {} /\ untold = {} /\ fails = 0 /\ broke = 0

\* Who waits, and was not told yet.
Waiting(w) == wait[w].pc \in {"test", "asleep"}

\* The assumption on which the one bit rests: the counter does not run a whole
\* cycle ahead of the last completed sync, nor of a marker somebody waits for.
Window(p) == Near(done, p) /\ \A w \in Waiter : Waiting(w) => Near(wait[w].n, p)

\* The positions that are less than a cycle old at p: older ones are forgotten.
Recent(S, p) == {q \in S : Near(q, p)}

\* nnpdrvGetMarker and createMarker; the counter goes on though the write fails.
createMarker(ok) ==
    LET p == Succ(made) IN
    /\ ~broken \/ aborted
    /\ fails' = IF ok THEN fails ELSE fails + 1
    /\ fails' <= MaxFails
    /\ p.cycle <= MaxCycle /\ Window(p)
    /\ m_sync_point' = inc(m_sync_point) /\ made' = p
    /\ sent' = IF ok THEN sent \cup {p} ELSE sent
    /\ markers' = Recent(markers, p) \cup IF ok THEN {p} ELSE {}
    /\ told' = Recent(told, p)
    /\ failedAt' = Recent(failedAt, p)
    /\ UNCHANGED <<m_last_completed_sync_point, m_failed_sync_points, m_critical_error, done, events, brk,
                   wait, untold, broke>>

\* nnpdrvWaitForMarker, for a marker of the current cycle.
waitMarker(w, p) ==
    /\ wait[w].pc = "idle" /\ p \in markers
    /\ Shared \/ (p \notin told /\ \A v \in Waiter : wait[v].n # p)
    /\ wait' = [wait EXCEPT ![w] = [pc |-> "test", n |-> p]]
    /\ UNCHANGED <<syncVars, m_critical_error, cardVars, markers, failedAt, told, untold, fails, broke>>

\* The condition of waitMarker.
cond(sp) == ~LessThan(m_last_completed_sync_point, sp) \/ sp.val \in m_failed_sync_points \/ (broken /\ ~aborted)

waitMarker_sleep(w) ==
    /\ wait[w].pc = "test" /\ ~cond(At(wait[w].n))
    /\ wait' = [wait EXCEPT ![w].pc = "asleep"]
    /\ UNCHANGED <<syncVars, m_critical_error, cardVars, markers, failedAt, told, untold, fails, broke>>

\* Mutant: the failed sync point is not erased.
waitMarker_return_keeps(w) ==
    /\ wait[w].pc = "test" /\ cond(At(wait[w].n))
    /\ LET n == wait[w].n IN
       /\ wait' = [wait EXCEPT ![w].pc = IF broken THEN "NNP_CONTEXT_BROKEN"
                                         ELSE IF n.val \in m_failed_sync_points THEN "NNP_BROKEN_MARKER"
                                         ELSE "NNP_NO_ERROR"]
       /\ told' = told \cup {n}
       /\ untold' = IF ~broken /\ n.val \in m_failed_sync_points THEN {q \in untold : q.val # n.val} ELSE untold
    /\ UNCHANGED <<syncVars, m_critical_error, cardVars, markers, failedAt, fails, broke>>

\* The condition holds: the end of waitMarker, under the same mutex.
waitMarker_return(w) ==
    /\ wait[w].pc = "test" /\ cond(At(wait[w].n))
    /\ LET n == wait[w].n
           fail == ~broken /\ n.val \in m_failed_sync_points IN
       /\ wait' = [wait EXCEPT ![w].pc = IF broken THEN "NNP_CONTEXT_BROKEN"
                                         ELSE IF fail THEN "NNP_BROKEN_MARKER" ELSE "NNP_NO_ERROR"]
       /\ m_failed_sync_points' = IF fail THEN m_failed_sync_points \ {n.val} ELSE m_failed_sync_points
       /\ told' = IF broken THEN told ELSE told \cup {n}
       /\ untold' = IF fail THEN {q \in untold : q.val # n.val} ELSE untold
    /\ UNCHANGED <<m_sync_point, m_last_completed_sync_point, made, done, m_critical_error, cardVars, markers,
                   failedAt, fails, broke>>

waitMarker_timeout(w) ==
    /\ wait[w].pc = "asleep" /\ w \notin Patient /\ ~cond(At(wait[w].n))
    /\ wait' = [wait EXCEPT ![w] = Idle]
    /\ UNCHANGED <<syncVars, m_critical_error, cardVars, markers, failedAt, told, untold, fails, broke>>

\* The application has looked at the result.
returned(w) ==
    /\ wait[w].pc \in {"NNP_NO_ERROR", "NNP_BROKEN_MARKER", "NNP_CONTEXT_BROKEN"}
    /\ wait' = [wait EXCEPT ![w] = Idle]
    /\ UNCHANGED <<syncVars, m_critical_error, cardVars, markers, failedAt, told, untold, fails, broke>>

recover ==
    /\ m_critical_error = "context" /\ m_critical_error' = "none"
    /\ UNCHANGED <<syncVars, cardVars, markers, wait, failedAt, told, untold, fails, broke>>

-----------------------------------------------------------------------------
(***************************************************************************)
(* The response thread, and the card                                       *)
(***************************************************************************)

\* Mutant: the sleepers are not woken.
Notify_nobody(f) == f

\* update_and_notify: who sleeps tests again.
Notify(f) == [w \in Waiter |-> IF f[w].pc = "asleep" THEN [f[w] EXCEPT !.pc = "test"] ELSE f[w]]

\* CHAN_SYNC_DONE
sync_done(p) ==
    /\ IsLeast(p, events) /\ p \notin failedAt
    /\ events' = events \ {p}
    /\ m_last_completed_sync_point' = set(m_last_completed_sync_point, p.val)
    /\ done' = p
    /\ wait' = Notify(wait)
    /\ UNCHANGED <<m_sync_point, m_failed_sync_points, made, m_critical_error, sent, brk, markers,
                   failedAt, told, untold, fails, broke>>

\* CREATE_SYNC_FAILED
sync_failed(p) ==
    /\ IsLeast(p, events) /\ p \in failedAt
    /\ events' = events \ {p}
    /\ m_failed_sync_points' = m_failed_sync_points \cup {p.val}
    /\ untold' = untold \cup {p}
    /\ wait' = Notify(wait)
    /\ UNCHANGED <<m_sync_point, m_last_completed_sync_point, made, done, m_critical_error, sent, brk, markers,
                   failedAt, told, fails, broke>>

\* A critical event; an abort request replaces an earlier one.
critical_event ==
    /\ brk # "none" /\ brk' = "none"
    /\ m_critical_error' = IF ~broken \/ brk = "abort" THEN brk ELSE m_critical_error
    /\ wait' = Notify(wait)
    /\ UNCHANGED <<syncVars, sent, events, markers, failedAt, told, untold, fails, broke>>

\* The card handles the next sync.
card_syncs(p, ok) ==
    /\ IsLeast(p, sent)
    /\ fails' = IF ok THEN fails ELSE fails + 1
    /\ fails' <= MaxFails
    /\ sent' = sent \ {p} /\ events' = events \cup {p}
    /\ failedAt' = IF ok THEN failedAt ELSE failedAt \cup {p}
    /\ UNCHANGED <<syncVars, m_critical_error, brk, markers, wait, told, untold, broke>>

card_breaks(e) ==
    /\ brk = "none" /\ broke < MaxBreaks /\ broke' = broke + 1
    /\ brk' = e
    /\ UNCHANGED <<syncVars, m_critical_error, sent, events, markers, wait, failedAt, told, untold, fails>>

Wait(w) == waitMarker_sleep(w) \/ waitMarker_return(w)
Respond == (\E p \in events : sync_done(p) \/ sync_failed(p)) \/ critical_event
Card == \E p \in sent, ok \in BOOLEAN : card_syncs(p, ok)

Next ==
    \/ \E ok \in BOOLEAN : createMarker(ok)
    \/ \E w \in Waiter : \/ \E p \in markers : waitMarker(w, p)
                         \/ Wait(w) \/ waitMarker_timeout(w) \/ returned(w)
    \/ recover
    \/ Respond
    \/ Card
    \/ \E e \in {"context", "abort", "fatal"} : card_breaks(e)

Spec == Init /\ [][Next]_vars

\* Threads that can go on do, and the card handles the syncs it was sent.
FairSpec ==
    /\ Spec
    /\ \A w \in Waiter : WF_vars(Wait(w)) /\ WF_vars(returned(w))
    /\ WF_vars(Respond) /\ WF_vars(Card)

-----------------------------------------------------------------------------
(***************************************************************************)
(* Properties                                                              *)
(***************************************************************************)

SyncPoints == [val : 0 .. Mod - 1, wrap : BOOLEAN]

TypeOK ==
    /\ m_sync_point \in SyncPoints /\ m_last_completed_sync_point \in SyncPoints
    /\ m_failed_sync_points \subseteq 0 .. Mod - 1
    /\ m_critical_error \in {"none", "context", "abort", "fatal"}
    /\ made \in Pos /\ done \in Pos
    /\ sent \subseteq Pos /\ events \subseteq Pos /\ markers \subseteq Pos
    /\ failedAt \subseteq Pos /\ told \subseteq Pos /\ untold \subseteq Pos
    /\ brk \in {"none", "context", "abort", "fatal"}
    /\ wait \in [Waiter -> [pc : {"idle", "test", "asleep", "NNP_NO_ERROR", "NNP_BROKEN_MARKER", "NNP_CONTEXT_BROKEN"},
                            n : Pos]]
    /\ fails \in Nat /\ broke \in Nat

\* The bit keeps track of the cycles: the two sync points are those of the last
\* marker and of the last completed sync, however often the counter wrapped and
\* whatever syncs failed or were never sent.
SyncPointsRight == m_sync_point = At(made) /\ m_last_completed_sync_point = At(done)

\* waitMarker reports success only when the card has completed the commands
\* before the marker: a sync at or after it is done.
DoneIsDone == \A w \in Waiter : wait[w].pc = "NNP_NO_ERROR" => ~Before(done, wait[w].n)

\* Failed syncs of an earlier cycle that nobody has been told of.
Stale == {p \in untold : ~Near(p, made)}

\* A marker is reported broken only if its own sync failed, unless the value was
\* left over from an earlier cycle.
BrokenIsFailed ==
    [][\A w \in Waiter : Waiting(w) /\ wait'[w].pc = "NNP_BROKEN_MARKER" =>
          wait[w].n \in failedAt \/ \E p \in Stale : p.val = wait[w].n.val]_vars

\* waitMarker without a timeout returns: the card answers every sync, and the
\* answer or a critical error wakes the waiter up.
WaitMarkerReturns == \A w \in Patient : Waiting(w) ~> ~Waiting(w)
===============================================================================
