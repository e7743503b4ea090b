------------------------------- MODULE CmdRing -------------------------------
(***************************************************************************)
(* A command ring of a channel: nnpiRingBuffer (src/nnpi_drv/nnpiUtils.h)  *)
(* with the threads that send commands through it (nnpiDevNet::            *)
(* send_create_or_add, nnpiInfReq::create, nnpiCommandList::send_to_card), *)
(* the response thread that hears how far the card has read                *)
(* (nnpiChannel::handle_ringbuff_head_update), and the exit of that thread *)
(* (handleResponseHandlerExit).                                            *)
(*                                                                         *)
(* Every caller reserves, fills and releases exactly NNP_PAGE_SIZE bytes   *)
(* and the ring is a whole number of pages, so the unit here is the page.  *)
(* A command may take several pages, one message on the channel for each.  *)
(* lockFreeSpace returns with the ring's mutex held and unlockFreeSpace    *)
(* releases it: `owner` is who holds it meanwhile.                         *)
(***************************************************************************)
EXTENDS Integers, Sequences, FiniteSets

CONSTANTS
    N,         \* m_size, in pages (H2C_RINGBUF_SIZE is 2 pages)
    Producer,  \* threads that send one command each
    Pages,     \* [Producer -> Nat \ {0}]: the pages of a thread's command
    Fails      \* may a write to the channel fail, or the channel be killed?

NoOne == "none"

ASSUME RingAssumption ==
    /\ N \in Nat \ {0}
    /\ Pages \in [Producer -> Nat \ {0}]
    /\ NoOne \notin Producer
    /\ Fails \in BOOLEAN

VARIABLES
    m_head, m_tail, m_is_full, m_invalid,
    owner,     \* the thread that holds m_waitq's mutex across its calls
    pc,        \* [Producer -> position in the sending loop]
    sent,      \* [Producer -> pages of the command sent so far]
    mem,       \* [0 .. N-1 -> what the page holds]
    chan,      \* messages to the card it has not read yet: the page each is for
    cardHead,  \* the page the card reads next
    consumed   \* pages read and not yet reported by the card

ringVars == <<m_head, m_tail, m_is_full, m_invalid>>
hostVars == <<owner, pc, sent>>
ringCardVars == <<chan, cardHead, consumed>>
allRingVars == <<ringVars, hostVars, mem, ringCardVars>>

Page == [by : Producer, no : Nat]
Empty == [by |-> NoOne, no |-> 0]

RingInit ==
    /\ m_head = 0 /\ m_tail = 0 /\ m_is_full = FALSE /\ m_invalid = FALSE
    /\ owner = NoOne
    /\ pc = [p \in Producer |-> "want"]
    /\ sent = [p \in Producer |-> 0]
    /\ mem = [s \in 0 .. N - 1 |-> Empty]
    /\ chan = <<>>
    /\ cardHead = 0
    /\ consumed = 0

getFreeBytes ==
    IF m_is_full THEN 0
    ELSE IF m_tail >= m_head THEN m_head + N - m_tail ELSE m_head - m_tail

getAvailBytes ==
    IF m_is_full THEN N
    ELSE IF m_head > m_tail THEN m_tail + N - m_head ELSE m_tail - m_head

\* notify_all
Awake(q) == IF q = "asleep" THEN "want" ELSE q

-----------------------------------------------------------------------------
(***************************************************************************)
(* The sending threads: "want" space, "asleep" on the ring's condition     *)
(* variable, "locked" with the mutex held, "written" once the message for  *)
(* the page is on the channel, "sent" or "failed" at the end.              *)
(***************************************************************************)

\* Mutant: the ring is taken for empty when head and tail meet.
lockFreeSpace_never_full(p) ==
    /\ pc[p] = "want" /\ owner = NoOne
    /\ ~m_invalid
    /\ owner' = p
    /\ pc' = [pc EXCEPT ![p] = "locked"]
    /\ UNCHANGED <<ringVars, sent, mem, ringCardVars>>

\* lockFreeSpace(NNP_PAGE_SIZE): there is room; the mutex stays locked.
lockFreeSpace(p) ==
    /\ pc[p] = "want" /\ owner = NoOne
    /\ getFreeBytes >= 1 /\ ~m_invalid
    /\ owner' = p
    /\ pc' = [pc EXCEPT ![p] = "locked"]
    /\ UNCHANGED <<ringVars, sent, mem, ringCardVars>>

\* There is not: the thread sleeps.
lockFreeSpace_sleep(p) ==
    /\ pc[p] = "want" /\ owner = NoOne
    /\ getFreeBytes < 1 /\ ~m_invalid
    /\ pc' = [pc EXCEPT ![p] = "asleep"]
    /\ UNCHANGED <<ringVars, owner, sent, mem, ringCardVars>>

\* The ring is invalid: lockFreeSpace unlocks and returns NULL, NNP_IO_ERROR.
lockFreeSpace_invalid(p) ==
    /\ pc[p] = "want" /\ owner = NoOne
    /\ m_invalid
    /\ pc' = [pc EXCEPT ![p] = "failed"]
    /\ UNCHANGED <<ringVars, owner, sent, mem, ringCardVars>>

lockFreeSpace_wakeup(p) ==
    /\ pc[p] = "asleep"
    /\ pc' = [pc EXCEPT ![p] = "want"]
    /\ UNCHANGED <<ringVars, owner, sent, mem, ringCardVars>>

\* The page is filled and its message written to the channel ...
write(p) ==
    LET page == [by |-> p, no |-> sent[p] + 1] IN
    /\ pc[p] = "locked"
    /\ mem' = [mem EXCEPT ![m_tail] = page]
    /\ chan' = Append(chan, page)
    /\ pc' = [pc EXCEPT ![p] = "written"]
    /\ UNCHANGED <<ringVars, owner, sent, cardHead, consumed>>

\* ... or the write fails: unlockFreeSpace(0) and NNP_IO_ERROR.
write_fail(p) ==
    /\ pc[p] = "locked"
    /\ Fails
    /\ mem' = [mem EXCEPT ![m_tail] = [by |-> p, no |-> sent[p] + 1]]
    /\ owner' = NoOne
    /\ pc' = [q \in Producer |-> IF q = p THEN "failed" ELSE Awake(pc[q])]
    /\ UNCHANGED <<ringVars, sent, ringCardVars>>

\* Mutant: a ring that becomes full is not marked so.
unlockFreeSpace_not_full(p) ==
    /\ pc[p] = "written"
    /\ m_tail' = (m_tail + 1) % N
    /\ sent' = [sent EXCEPT ![p] = @ + 1]
    /\ owner' = NoOne
    /\ pc' = [q \in Producer |-> IF q = p THEN IF sent[p] + 1 < Pages[p] THEN "want" ELSE "sent"
                                 ELSE Awake(pc[q])]
    /\ UNCHANGED <<m_head, m_is_full, m_invalid, mem, ringCardVars>>

\* unlockFreeSpace(NNP_PAGE_SIZE); the loop goes on with the next page.
unlockFreeSpace(p) ==
    /\ pc[p] = "written"
    /\ m_tail' = (m_tail + 1) % N
    /\ m_is_full' = (m_is_full \/ m_tail' = m_head)
    /\ sent' = [sent EXCEPT ![p] = @ + 1]
    /\ owner' = NoOne
    /\ pc' = [q \in Producer |-> IF q = p THEN IF sent[p] + 1 < Pages[p] THEN "want" ELSE "sent"
                                 ELSE Awake(pc[q])]
    /\ UNCHANGED <<m_head, m_invalid, mem, ringCardVars>>

Send(p) ==
    \/ lockFreeSpace(p) \/ lockFreeSpace_sleep(p) \/ lockFreeSpace_invalid(p)
    \/ write(p) \/ write_fail(p) \/ unlockFreeSpace(p)

-----------------------------------------------------------------------------
(***************************************************************************)
(* The card (external) and the response thread                             *)
(***************************************************************************)

\* The card reads the page of its next message, the one after the last it read.
card_read ==
    /\ chan # <<>>
    /\ chan' = Tail(chan)
    /\ cardHead' = (cardHead + 1) % N
    /\ consumed' = consumed + 1
    /\ UNCHANGED <<ringVars, hostVars, mem>>

\* Mutant: nobody is notified of the room.
updateHead_silent(n) ==
    /\ n \in 1 .. consumed
    /\ ~m_invalid
    /\ owner = NoOne
    /\ consumed' = consumed - n
    /\ m_head' = (m_head + n) % N
    /\ m_is_full' = FALSE
    /\ UNCHANGED <<m_tail, m_invalid, hostVars, mem, chan, cardHead>>

\* The card reports n pages read: updateHead.  The thread that calls it is the
\* one that invalidates the ring when it leaves.
updateHead(n) ==
    /\ n \in 1 .. consumed
    /\ ~m_invalid
    /\ owner = NoOne
    /\ consumed' = consumed - n
    /\ m_head' = (m_head + n) % N
    /\ m_is_full' = FALSE
    /\ pc' = [p \in Producer |-> Awake(pc[p])]
    /\ UNCHANGED <<m_tail, m_invalid, owner, sent, mem, chan, cardHead>>

\* handleResponseHandlerExit: setInvalid.  m_killed is set after it, when no
\* thread is between lockFreeSpace and unlockFreeSpace, so the test of m_killed
\* in nnpiChannel::write stops none of the writes of this module.
setInvalid ==
    /\ Fails
    /\ ~m_invalid
    /\ owner = NoOne
    /\ m_invalid' = TRUE
    /\ pc' = [p \in Producer |-> Awake(pc[p])]
    /\ UNCHANGED <<m_head, m_tail, m_is_full, owner, sent, mem, ringCardVars>>

RingNext ==
    \/ \E p \in Producer : Send(p) \/ lockFreeSpace_wakeup(p)
    \/ card_read
    \/ \E n \in 1 .. N : updateHead(n)
    \/ setInvalid

RingSpec == RingInit /\ [][RingNext]_allRingVars

(***************************************************************************)
(* Threads that can run do run, and the card reads its messages and        *)
(* reports what it has read.                                               *)
(***************************************************************************)
RingFairness ==
    /\ \A p \in Producer : WF_allRingVars(Send(p))
    /\ WF_allRingVars(card_read)
    /\ WF_allRingVars(\E n \in 1 .. N : updateHead(n))

RingFairSpec == RingSpec /\ RingFairness

-----------------------------------------------------------------------------
\* Head and tail stay in the ring, and the mutex is held by nobody or a thread.
RingTypeOK ==
    /\ m_head \in 0 .. N - 1 /\ m_tail \in 0 .. N - 1
    /\ m_is_full \in BOOLEAN /\ m_invalid \in BOOLEAN
    /\ owner \in Producer \cup {NoOne}
    /\ pc \in [Producer -> {"want", "asleep", "locked", "written", "sent", "failed"}]
    /\ sent \in [Producer -> Nat]
    /\ mem \in [0 .. N - 1 -> Page \cup {Empty}]
    /\ chan \in Seq(Page)
    /\ cardHead \in 0 .. N - 1
    /\ consumed \in Nat

\* The page whose message is on the channel before the tail has moved past it.
Ahead == IF \E p \in Producer : pc[p] = "written" THEN 1 ELSE 0

\* m_head, m_tail and m_is_full tell the pages in use exactly, also when the
\* ring is full and when it is empty: what lockFreeSpace takes for free space is
\* what the card has reported read.
CountExact ==
    /\ getAvailBytes + Ahead = Len(chan) + consumed
    /\ getFreeBytes = N - getAvailBytes

\* The page of the i-th message that the card has not read.
Slot(i) == (cardHead + i - 1) % N

\* No thread writes over a page that the card has yet to read, whoever sends
\* and however the sending, reading and reporting interleave.
PagesIntact == \A i \in 1 .. Len(chan) : mem[Slot(i)] = chan[i]

\* Every command is sent or fails: no thread waits for ever for room that the
\* card has reported (updateHead), or on a ring that is no longer served
\* (setInvalid).
CommandEnds == \A p \in Producer : <>(pc[p] \in {"sent", "failed"})

(***************************************************************************)
(* What the card finds in the ring is a FIFO queue of at most N pages.     *)
(***************************************************************************)
Contents == [i \in 1 .. Len(chan) |-> mem[Slot(i)]]

Fifo == INSTANCE BoundedFifo WITH Item <- Page, Capacity <- N, q <- Contents

\* Every step appends one page at the end of what the card will read, takes
\* the first, or changes nothing the card will see.
ImplementsFifo == Fifo!Spec
=============================================================================
