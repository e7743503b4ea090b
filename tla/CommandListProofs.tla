--------------------------- MODULE CommandListProofs ---------------------------
(***************************************************************************)
(* A command list and the command ring through which its commands go.      *)
(***************************************************************************)
EXTENDS CommandList, CmdRing, SequenceTheorems, FiniteSetTheorems, TLAPS

-----------------------------------------------------------------------------
(***************************************************************************)
(* The command ring: of any size, with any threads and commands of any     *)
(* length.                                                                 *)
(*                                                                         *)
(* PagesIntact is not inductive: that the page a thread fills is one the   *)
(* card has finished with rests on CountExact, on the card's place being   *)
(* `consumed` pages behind m_head, and on a single thread being between    *)
(* lockFreeSpace and unlockFreeSpace.                                      *)
(***************************************************************************)

\* x modulo N for the sums that occur, which are below 2 * N.
Wrap(x) == IF x < N THEN x ELSE x - N

\* The mutex: one thread at a time between lockFreeSpace and unlockFreeSpace.
OneOwner == \A p \in Producer : pc[p] \in {"locked", "written"} <=> owner = p

\* Who holds the mutex has a free page at the tail.
HasRoom == owner # NoOne => getFreeBytes >= 1

\* A full ring is one whose head and tail meet.
FullMeets == m_is_full => m_head = m_tail

\* The card is `consumed` pages past the head the host knows of.
CardPlace == cardHead = Wrap(m_head + consumed)

RInv ==
    /\ RingTypeOK
    /\ OneOwner
    /\ HasRoom
    /\ FullMeets
    /\ CountExact
    /\ CardPlace
    /\ PagesIntact

LEMMA ModWrap == \A x \in 0 .. 2 * N - 1 : x % N = Wrap(x)
<1> SUFFICES ASSUME NEW x \in 0 .. 2 * N - 1 PROVE x % N = Wrap(x)
  OBVIOUS
<1> USE RingAssumption
<1>1. CASE x < N
  BY <1>1 DEF Wrap
<1>2. CASE x >= N
  <2>1. x - N \in 0 .. N - 1
    BY <1>2
  <2>2. (x - N) % N = x - N
    BY <2>1
  <2>3. x % N = (x - N) % N
    BY <1>2
  <2> QED
    BY <1>2, <2>2, <2>3 DEF Wrap
<1> QED
  BY <1>1, <1>2

\* Where the tail is, and how much of the ring can be in use.
LEMMA PagePlaces ==
    ASSUME RInv
    PROVE  /\ Ahead \in {0, 1}
           /\ getAvailBytes \in 0 .. N
           /\ m_tail = Wrap(m_head + getAvailBytes)
           /\ m_is_full <=> getAvailBytes = N
           /\ Len(chan) \in Nat
           /\ Len(chan) + consumed <= N
<1> USE RingAssumption DEF RInv, RingTypeOK
<1>1. Ahead \in {0, 1}
  BY DEF Ahead
<1>2. /\ getAvailBytes \in 0 .. N
      /\ m_tail = Wrap(m_head + getAvailBytes)
      /\ m_is_full <=> getAvailBytes = N
  BY DEF getAvailBytes, FullMeets, Wrap
<1>3. Len(chan) \in Nat
  OBVIOUS
<1>4. Ahead = 1 => getAvailBytes < N
  <2>1. Ahead = 1 => owner # NoOne
    BY DEF Ahead, OneOwner
  <2> QED
    BY <1>2, <2>1 DEF HasRoom, CountExact
<1> QED
  BY <1>1, <1>2, <1>3, <1>4 DEF CountExact

\* What a thread knows that holds the mutex and has not written yet.
LEMMA Room ==
    ASSUME RInv, NEW p \in Producer, owner = p, Ahead = 0
    PROVE  getAvailBytes = Len(chan) + consumed /\ getAvailBytes < N
<1>1. getFreeBytes >= 1
  BY RingAssumption DEF RInv, HasRoom
<1>2. getAvailBytes \in 0 .. N /\ N \in Nat
  BY PagePlaces, RingAssumption
<1>3. getFreeBytes = N - getAvailBytes /\ getAvailBytes + Ahead = Len(chan) + consumed
  BY DEF RInv, CountExact
<1> QED
  BY <1>1, <1>2, <1>3

\* The page of a message, without the modulus.
LEMMA SlotWrap ==
    ASSUME RInv, NEW i \in 1 .. N
    PROVE  Slot(i) = Wrap(cardHead + i - 1) /\ Slot(i) \in 0 .. N - 1
<1>1. cardHead + i - 1 \in 0 .. 2 * N - 1
  BY RingAssumption DEF RInv, RingTypeOK
<1>2. (cardHead + i - 1) % N = Wrap(cardHead + i - 1)
  BY <1>1, ModWrap
<1>3. Wrap(cardHead + i - 1) \in 0 .. N - 1
  BY <1>1, RingAssumption DEF Wrap
<1> QED
  BY <1>2, <1>3 DEF Slot

\* A step that moves no page: only who waits, holds the mutex, or has failed.
LEMMA HostStep ==
    ASSUME RInv, UNCHANGED <<m_head, m_tail, m_is_full, ringCardVars, mem, sent>>,
           m_invalid' \in BOOLEAN,
           owner' \in Producer \cup {NoOne},
           pc' \in [Producer -> {"want", "asleep", "locked", "written", "sent", "failed"}],
           OneOwner', Ahead' = Ahead,
           owner' # NoOne => getFreeBytes >= 1
    PROVE  RInv'
<1> USE DEF ringCardVars
<1>1. RingTypeOK'
  BY DEF RInv, RingTypeOK
<1>2. getFreeBytes' = getFreeBytes /\ getAvailBytes' = getAvailBytes
  BY DEF getFreeBytes, getAvailBytes
<1>3. HasRoom' /\ CountExact'
  BY <1>2 DEF RInv, HasRoom, CountExact
<1>4. FullMeets' /\ CardPlace' /\ PagesIntact'
  BY DEF RInv, FullMeets, CardPlace, PagesIntact, Slot, Wrap
<1> QED
  BY <1>1, <1>3, <1>4 DEF RInv

\* The steps of a sending thread that leave the ring as it is.
LEMMA WaitInv ==
    ASSUME RInv, NEW p \in Producer,
           \/ lockFreeSpace(p) \/ lockFreeSpace_sleep(p) \/ lockFreeSpace_invalid(p)
           \/ lockFreeSpace_wakeup(p)
    PROVE  RInv'
<1> USE RingAssumption DEF ringVars, ringCardVars
<1>1. /\ pc \in [Producer -> {"want", "asleep", "locked", "written", "sent", "failed"}]
      /\ owner \in Producer \cup {NoOne} /\ m_invalid \in BOOLEAN
  BY DEF RInv, RingTypeOK
<1>2. CASE lockFreeSpace(p)
  <2>1. OneOwner'
    BY <1>1, <1>2 DEF RInv, OneOwner, lockFreeSpace
  <2>2. Ahead' = Ahead
    BY <1>1, <1>2 DEF Ahead, lockFreeSpace
  <2> QED
    BY <1>1, <1>2, <2>1, <2>2, HostStep DEF lockFreeSpace
<1>3. CASE lockFreeSpace_sleep(p) \/ lockFreeSpace_invalid(p)
  <2>1. OneOwner'
    BY <1>1, <1>3 DEF RInv, OneOwner, lockFreeSpace_sleep, lockFreeSpace_invalid
  <2>2. Ahead' = Ahead
    BY <1>1, <1>3 DEF Ahead, lockFreeSpace_sleep, lockFreeSpace_invalid
  <2> QED
    BY <1>1, <1>3, <2>1, <2>2, HostStep DEF lockFreeSpace_sleep, lockFreeSpace_invalid
<1>4. CASE lockFreeSpace_wakeup(p)
  <2>1. OneOwner'
    BY <1>1, <1>4 DEF RInv, OneOwner, lockFreeSpace_wakeup
  <2>2. Ahead' = Ahead
    BY <1>1, <1>4 DEF Ahead, lockFreeSpace_wakeup
  <2> QED
    BY <1>1, <1>4, <2>1, <2>2, HostStep DEF lockFreeSpace_wakeup, RInv, HasRoom
<1> QED
  BY <1>2, <1>3, <1>4

\* setInvalid wakes everybody up.
LEMMA InvalidInv == ASSUME RInv, setInvalid PROVE RInv'
<1>1. pc \in [Producer -> {"want", "asleep", "locked", "written", "sent", "failed"}]
  BY DEF RInv, RingTypeOK
<1>2. OneOwner' /\ pc' \in [Producer -> {"want", "asleep", "locked", "written", "sent", "failed"}]
  BY <1>1 DEF RInv, OneOwner, setInvalid, Awake
<1>3. Ahead' = Ahead
  BY <1>1 DEF Ahead, setInvalid, Awake
<1> QED
  BY <1>2, <1>3, HostStep DEF setInvalid, ringCardVars, RInv, RingTypeOK, HasRoom

\* The failed write: the page is filled, but the card is not told.
LEMMA WriteFailInv == ASSUME RInv, NEW p \in Producer, write_fail(p) PROVE RInv'
<1> USE RingAssumption DEF ringVars, ringCardVars
<1>1. /\ pc \in [Producer -> {"want", "asleep", "locked", "written", "sent", "failed"}]
      /\ sent \in [Producer -> Nat] /\ m_tail \in 0 .. N - 1
      /\ mem \in [0 .. N - 1 -> Page \cup {Empty}]
  BY DEF RInv, RingTypeOK
<1>2. owner = p
  BY DEF RInv, OneOwner, write_fail
<1>3. OneOwner' /\ pc' \in [Producer -> {"want", "asleep", "locked", "written", "sent", "failed"}]
  BY <1>1, <1>2 DEF RInv, OneOwner, write_fail, Awake
<1>4. Ahead' = 0 /\ Ahead = 0
  BY <1>1, <1>2 DEF Ahead, RInv, OneOwner, write_fail, Awake
<1>5. mem' \in [0 .. N - 1 -> Page \cup {Empty}]
  BY <1>1 DEF write_fail, Page
<1>6. RingTypeOK'
  BY <1>3, <1>5 DEF RInv, RingTypeOK, write_fail
<1>7. getFreeBytes' = getFreeBytes /\ getAvailBytes' = getAvailBytes
  BY DEF getFreeBytes, getAvailBytes, write_fail
<1>8. HasRoom' /\ CountExact' /\ FullMeets' /\ CardPlace'
  BY <1>4, <1>7 DEF RInv, HasRoom, CountExact, FullMeets, CardPlace, Wrap, write_fail
<1>9. PagesIntact'
  <2> SUFFICES ASSUME NEW i \in 1 .. Len(chan) PROVE mem'[Slot(i)] = chan[i]
    BY DEF PagesIntact, Slot, write_fail
  <2>1. i \in 1 .. N
    BY PagePlaces DEF RInv, RingTypeOK
  <2>2. Slot(i) # m_tail
    <3>1. Slot(i) = Wrap(cardHead + i - 1)
      BY <2>1, SlotWrap
    <3>2. getAvailBytes = Len(chan) + consumed /\ getAvailBytes < N
      BY <1>2, <1>4, Room
    <3> QED
      BY <2>1, <3>1, <3>2, PagePlaces DEF RInv, RingTypeOK, CardPlace, Wrap
  <2> QED
    BY <1>1, <2>1, <2>2, SlotWrap DEF RInv, PagesIntact, write_fail
<1> QED
  BY <1>3, <1>6, <1>8, <1>9 DEF RInv

\* The page and its message: it goes to the tail, which is the page the card
\* will read after those that are pending.
LEMMA WriteInv == ASSUME RInv, NEW p \in Producer, write(p) PROVE RInv'
<1> USE RingAssumption DEF ringVars
<1> DEFINE page == [by |-> p, no |-> sent[p] + 1]
<1>1. /\ pc \in [Producer -> {"want", "asleep", "locked", "written", "sent", "failed"}]
      /\ sent \in [Producer -> Nat] /\ m_tail \in 0 .. N - 1
      /\ mem \in [0 .. N - 1 -> Page \cup {Empty}]
      /\ chan \in Seq(Page) /\ page \in Page
  BY DEF RInv, RingTypeOK, Page
<1>2. owner = p
  BY DEF RInv, OneOwner, write
<1>3. OneOwner' /\ pc' \in [Producer -> {"want", "asleep", "locked", "written", "sent", "failed"}]
  BY <1>1, <1>2 DEF RInv, OneOwner, write
<1>4. Ahead' = 1 /\ Ahead = 0
  BY <1>1, <1>2 DEF Ahead, RInv, OneOwner, write
<1>5. /\ mem' = [mem EXCEPT ![m_tail] = page] /\ chan' = Append(chan, page)
      /\ mem' \in [0 .. N - 1 -> Page \cup {Empty}] /\ chan' \in Seq(Page)
  BY <1>1 DEF write
<1>6. RingTypeOK'
  BY <1>3, <1>5 DEF RInv, RingTypeOK, write
<1>7. getFreeBytes' = getFreeBytes /\ getAvailBytes' = getAvailBytes
  BY DEF getFreeBytes, getAvailBytes, write
<1>8. Len(chan') = Len(chan) + 1
  BY <1>1, <1>5
<1>9. HasRoom' /\ CountExact' /\ FullMeets' /\ CardPlace'
  <2>1. CountExact'
    BY <1>4, <1>7, <1>8, PagePlaces DEF RInv, CountExact, write, RingTypeOK
  <2> QED
    BY <1>7, <2>1 DEF RInv, HasRoom, FullMeets, CardPlace, Wrap, write
<1>10. getAvailBytes = Len(chan) + consumed /\ getAvailBytes < N
  BY <1>2, <1>4, Room
<1>11. PagesIntact'
  <2> SUFFICES ASSUME NEW i \in 1 .. Len(chan) + 1 PROVE mem'[Slot(i)] = chan'[i]
    BY <1>8 DEF PagesIntact, Slot, write
  <2>1. i \in 1 .. N /\ Slot(i) = Wrap(cardHead + i - 1) /\ Slot(i) \in 0 .. N - 1
    <3>1. i \in 1 .. N
      BY <1>10, PagePlaces DEF RInv, RingTypeOK
    <3> QED
      BY <3>1, SlotWrap
  <2>2. CASE i = Len(chan) + 1
    <3>1. Slot(i) = m_tail
      BY <1>10, <2>1, <2>2, PagePlaces DEF RInv, RingTypeOK, CardPlace, Wrap
    <3>2. chan'[i] = page
      BY <1>1, <1>5, <2>2
    <3> QED
      BY <1>1, <1>5, <3>1, <3>2
  <2>3. CASE i \in 1 .. Len(chan)
    <3>1. Slot(i) # m_tail
      BY <1>10, <2>1, <2>3, PagePlaces DEF RInv, RingTypeOK, CardPlace, Wrap
    <3>2. chan'[i] = chan[i]
      BY <1>1, <1>5, <2>3
    <3> QED
      BY <1>1, <1>5, <2>1, <2>3, <3>1, <3>2 DEF RInv, PagesIntact
  <2> QED
    BY <2>2, <2>3, PagePlaces
<1> QED
  BY <1>3, <1>6, <1>9, <1>11 DEF RInv

\* The tail moves past the page that was written.
LEMMA UnlockInv == ASSUME RInv, NEW p \in Producer, unlockFreeSpace(p) PROVE RInv'
<1> USE RingAssumption
<1>1. /\ pc \in [Producer -> {"want", "asleep", "locked", "written", "sent", "failed"}]
      /\ sent \in [Producer -> Nat] /\ m_tail \in 0 .. N - 1 /\ m_head \in 0 .. N - 1
      /\ m_is_full \in BOOLEAN
  BY DEF RInv, RingTypeOK
<1>2. owner = p /\ owner # NoOne
  BY DEF RInv, OneOwner, unlockFreeSpace
<1>3. OneOwner' /\ pc' \in [Producer -> {"want", "asleep", "locked", "written", "sent", "failed"}]
  BY <1>1, <1>2 DEF RInv, OneOwner, unlockFreeSpace, Awake
<1>4. Ahead' = 0 /\ Ahead = 1
  BY <1>1, <1>2 DEF Ahead, RInv, OneOwner, unlockFreeSpace, Awake
<1>5. m_tail' = Wrap(m_tail + 1) /\ m_tail' \in 0 .. N - 1
  <2>1. m_tail + 1 \in 0 .. 2 * N - 1
    BY <1>1
  <2>2. (m_tail + 1) % N = Wrap(m_tail + 1)
    BY <2>1, ModWrap
  <2> QED
    BY <1>1, <2>2 DEF Wrap, unlockFreeSpace
<1>6. getFreeBytes >= 1
  BY <1>2 DEF RInv, HasRoom
<1>7. ~m_is_full
  BY <1>6 DEF getFreeBytes
<1>8. m_is_full' = (m_tail' = m_head) /\ m_head' = m_head
  BY <1>1, <1>7 DEF unlockFreeSpace
<1>9. RingTypeOK'
  BY <1>1, <1>3, <1>5, <1>8 DEF RInv, RingTypeOK, unlockFreeSpace, ringCardVars
<1>10. getAvailBytes' = getAvailBytes + 1 /\ getFreeBytes' = getFreeBytes - 1
  <2>1. CASE m_tail' = m_head
    <3>1. m_is_full'
      BY <1>8, <2>1
    <3> QED
      BY <1>1, <1>5, <1>7, <1>8, <2>1, <3>1 DEF getAvailBytes, getFreeBytes, Wrap
  <2>2. CASE m_tail' # m_head
    <3>1. ~m_is_full'
      BY <1>8, <2>2
    <3> QED
      BY <1>1, <1>5, <1>7, <1>8, <2>2, <3>1 DEF getAvailBytes, getFreeBytes, Wrap
  <2> QED
    BY <2>1, <2>2
<1>11. CountExact'
  <2>1. /\ getFreeBytes = N - getAvailBytes /\ getAvailBytes + 1 = Len(chan) + consumed
        /\ getAvailBytes \in 0 .. N
    BY <1>4, PagePlaces DEF RInv, CountExact
  <2>2. Len(chan)' = Len(chan) /\ consumed' = consumed
    BY DEF unlockFreeSpace, ringCardVars
  <2> QED
    BY <1>4, <1>10, <2>1, <2>2, PagePlaces DEF CountExact
<1>12. HasRoom' /\ FullMeets'
  BY <1>8 DEF HasRoom, FullMeets, unlockFreeSpace
<1>13. CardPlace' /\ PagesIntact'
  BY DEF RInv, CardPlace, PagesIntact, Slot, Wrap, unlockFreeSpace, ringCardVars
<1> QED
  BY <1>3, <1>9, <1>11, <1>12, <1>13 DEF RInv

\* The card reads one page.
LEMMA ReadInv == ASSUME RInv, card_read PROVE RInv'
<1> USE RingAssumption DEF ringVars, hostVars
<1>1. /\ chan \in Seq(Page) /\ chan # <<>> /\ consumed \in Nat
      /\ cardHead \in 0 .. N - 1 /\ m_head \in 0 .. N - 1
  BY DEF RInv, RingTypeOK, card_read
<1>2. /\ chan' = Tail(chan) /\ chan' \in Seq(Page)
      /\ Len(chan) \in Nat /\ Len(chan) >= 1 /\ Len(chan') = Len(chan) - 1
      /\ \A i \in 1 .. Len(chan') : chan'[i] = chan[i + 1]
  BY <1>1 DEF card_read
<1>3. cardHead' = Wrap(cardHead + 1) /\ cardHead' \in 0 .. N - 1
  <2>1. cardHead + 1 \in 0 .. 2 * N - 1
    BY <1>1
  <2>2. (cardHead + 1) % N = Wrap(cardHead + 1)
    BY <2>1, ModWrap
  <2> QED
    BY <1>1, <2>2 DEF Wrap, card_read
<1>4. RingTypeOK' /\ OneOwner'
  BY <1>1, <1>2, <1>3 DEF RInv, RingTypeOK, OneOwner, card_read
<1>5. Ahead' = Ahead /\ getAvailBytes' = getAvailBytes /\ getFreeBytes' = getFreeBytes
  BY DEF Ahead, getAvailBytes, getFreeBytes, card_read
<1>6. HasRoom' /\ FullMeets'
  BY <1>5 DEF RInv, HasRoom, FullMeets, card_read
<1>7. consumed' = consumed + 1
  BY DEF card_read
<1>8. CountExact'
  BY <1>1, <1>2, <1>5, <1>7 DEF RInv, CountExact
<1>9. CardPlace'
  <2>1. consumed + 1 <= N
    BY <1>1, <1>2, PagePlaces
  <2> QED
    BY <1>1, <1>3, <1>7, <2>1 DEF RInv, CardPlace, Wrap, card_read
<1>10. PagesIntact'
  <2> SUFFICES ASSUME NEW i \in 1 .. Len(chan') PROVE mem[(cardHead' + i - 1) % N] = chan[i + 1]
    BY <1>2 DEF PagesIntact, Slot, card_read
  <2>1. i + 1 \in 1 .. Len(chan) /\ i + 1 \in 1 .. N /\ i \in 1 .. N
    BY <1>1, <1>2, PagePlaces
  <2>2. Slot(i + 1) = Wrap(cardHead + i)
    <3>1. Slot(i + 1) = Wrap(cardHead + (i + 1) - 1)
      BY <2>1, SlotWrap
    <3>2. cardHead + (i + 1) - 1 = cardHead + i
      BY <1>1, <2>1
    <3> QED
      BY <3>1, <3>2
  <2>3. (cardHead' + i - 1) % N = Wrap(cardHead' + i - 1)
    <3>1. cardHead' + i - 1 \in 0 .. 2 * N - 1
      BY <1>3, <2>1
    <3> QED
      BY <3>1, ModWrap
  <2>4. Wrap(cardHead' + i - 1) = Wrap(cardHead + i)
    BY <1>1, <1>3, <2>1 DEF Wrap
  <2> QED
    BY <2>1, <2>2, <2>3, <2>4 DEF RInv, PagesIntact
<1> QED
  BY <1>4, <1>6, <1>8, <1>9, <1>10 DEF RInv

\* The card's report moves the head.
LEMMA HeadInv == ASSUME RInv, NEW n \in 1 .. N, updateHead(n) PROVE RInv'
<1> USE RingAssumption
<1>1. /\ pc \in [Producer -> {"want", "asleep", "locked", "written", "sent", "failed"}]
      /\ consumed \in Nat /\ m_head \in 0 .. N - 1 /\ m_tail \in 0 .. N - 1
      /\ n >= 1 /\ n <= consumed /\ m_is_full \in BOOLEAN
  BY DEF RInv, RingTypeOK, updateHead
<1>2. owner = NoOne /\ \A p \in Producer : pc[p] # "written"
  BY DEF RInv, OneOwner, updateHead
<1>3. OneOwner' /\ pc' \in [Producer -> {"want", "asleep", "locked", "written", "sent", "failed"}]
  BY <1>1, <1>2 DEF RInv, OneOwner, updateHead, Awake
<1>4. Ahead' = 0 /\ Ahead = 0
  BY <1>1, <1>2 DEF Ahead, updateHead, Awake
<1>5. consumed <= N /\ Len(chan) \in Nat /\ Len(chan) + consumed <= N
  BY <1>1, PagePlaces
<1>6. m_head' = Wrap(m_head + n) /\ m_head' \in 0 .. N - 1 /\ m_is_full' = FALSE
      /\ m_tail' = m_tail /\ consumed' = consumed - n /\ chan' = chan
  <2>1. m_head + n \in 0 .. 2 * N - 1
    BY <1>1
  <2>2. (m_head + n) % N = Wrap(m_head + n)
    BY <2>1, ModWrap
  <2> QED
    BY <1>1, <2>2 DEF Wrap, updateHead
<1>7. RingTypeOK'
  <2>1. consumed' \in Nat
    BY <1>1, <1>6
  <2> QED
    BY <1>3, <1>6, <2>1 DEF RInv, RingTypeOK, updateHead
<1>8. getAvailBytes = Len(chan) + consumed /\ getFreeBytes = N - getAvailBytes
      /\ getAvailBytes \in 0 .. N
  BY <1>1, <1>4, PagePlaces DEF RInv, CountExact
<1>9. getAvailBytes >= n
  BY <1>1, <1>5, <1>8
<1>10. getAvailBytes' = getAvailBytes - n
  <2>1. CASE m_is_full
    BY <1>1, <1>6, <2>1 DEF RInv, FullMeets, getAvailBytes, Wrap
  <2>2. CASE ~m_is_full
    BY <1>1, <1>6, <1>9, <2>2 DEF getAvailBytes, Wrap
  <2> QED
    BY <2>1, <2>2
<1>11. getFreeBytes' = N - getAvailBytes'
  BY <1>1, <1>6 DEF getFreeBytes, getAvailBytes
<1>12. CountExact'
  BY <1>1, <1>4, <1>5, <1>6, <1>8, <1>10, <1>11 DEF CountExact
<1>13. HasRoom' /\ FullMeets'
  BY <1>2, <1>6 DEF HasRoom, FullMeets, updateHead
<1>14. CardPlace'
  <2>1. cardHead' = cardHead /\ cardHead = Wrap(m_head + consumed)
    BY DEF RInv, CardPlace, updateHead
  <2>2. Wrap(m_head' + consumed') = Wrap(m_head + consumed)
    <3>1. CASE m_head + n < N
      <4>1. m_head' + consumed' = m_head + consumed
        BY <1>1, <1>6, <3>1 DEF Wrap
      <4> QED
        BY <4>1
    <3>2. CASE m_head + n >= N
      <4>1. m_head' + consumed' = m_head + consumed - N
        BY <1>1, <1>6, <3>2 DEF Wrap
      <4>2. m_head + consumed >= N /\ m_head + consumed - N < N
        BY <1>1, <1>5, <3>2
      <4> QED
        BY <1>1, <4>1, <4>2 DEF Wrap
    <3> QED
      BY <1>1, <3>1, <3>2
  <2> QED
    BY <2>1, <2>2 DEF CardPlace, Wrap
<1>15. PagesIntact'
  BY DEF RInv, PagesIntact, Slot, updateHead
<1> QED
  BY <1>3, <1>7, <1>12, <1>13, <1>14, <1>15 DEF RInv

-----------------------------------------------------------------------------
(***************************************************************************)
(* The theorems                                                            *)
(***************************************************************************)

LEMMA RingStarts == ASSUME RingInit PROVE RInv
<1> USE RingAssumption DEF RingInit
<1>1. RingTypeOK
  <2>1. mem \in [0 .. N - 1 -> Page \cup {Empty}]
    OBVIOUS
  <2>2. chan \in Seq(Page)
    OBVIOUS
  <2>3. pc \in [Producer -> {"want", "asleep", "locked", "written", "sent", "failed"}]
    OBVIOUS
  <2>4. m_head \in 0 .. N - 1 /\ m_tail \in 0 .. N - 1 /\ cardHead \in 0 .. N - 1
    OBVIOUS
  <2>5. sent \in [Producer -> Nat] /\ consumed \in Nat /\ owner \in Producer \cup {NoOne}
    OBVIOUS
  <2>6. m_is_full \in BOOLEAN /\ m_invalid \in BOOLEAN
    OBVIOUS
  <2> HIDE DEF RingInit
  <2> QED
    BY <2>1, <2>2, <2>3, <2>4, <2>5, <2>6 DEF RingTypeOK
<1>2. Len(chan) = 0
  OBVIOUS
<1>3. getAvailBytes = 0 /\ getFreeBytes = N /\ Ahead = 0
  BY DEF getAvailBytes, getFreeBytes, Ahead
<1>4. CountExact
  BY <1>2, <1>3 DEF CountExact
<1>5. OneOwner /\ HasRoom /\ FullMeets /\ CardPlace
  BY DEF OneOwner, HasRoom, FullMeets, CardPlace, Wrap
<1>6. PagesIntact
  BY <1>2 DEF PagesIntact
<1> QED
  BY <1>1, <1>4, <1>5, <1>6 DEF RInv

LEMMA RingKept == ASSUME RInv, [RingNext]_allRingVars PROVE RInv'
<1>1. CASE UNCHANGED allRingVars
  <2> USE <1>1 DEF allRingVars, ringVars, hostVars, ringCardVars
  <2>1. OneOwner' /\ Ahead' = Ahead
    BY DEF RInv, OneOwner, Ahead
  <2> QED
    BY <2>1, HostStep DEF RInv, RingTypeOK, HasRoom
<1>2. ASSUME NEW p \in Producer, Send(p) \/ lockFreeSpace_wakeup(p) PROVE RInv'
  BY <1>2, WaitInv, WriteInv, WriteFailInv, UnlockInv DEF Send
<1>3. CASE card_read
  BY <1>3, ReadInv
<1>4. ASSUME NEW n \in 1 .. N, updateHead(n) PROVE RInv'
  BY <1>4, HeadInv
<1>5. CASE setInvalid
  BY <1>5, InvalidInv
<1> QED
  BY <1>1, <1>2, <1>3, <1>4, <1>5 DEF RingNext

\* The invariant of the ring, for every size, number of threads and command.
THEOREM RingInductive == RingSpec => []RInv
<1>1. RingInit => RInv
  BY RingStarts
<1>2. RInv /\ [RingNext]_allRingVars => RInv'
  BY RingKept
<1> QED
  BY <1>1, <1>2, PTL DEF RingSpec

\* The ring's variables keep their types: head and tail never leave the ring.
THEOREM RingTypeCorrect == RingSpec => []RingTypeOK
<1>1. RInv => RingTypeOK
  BY DEF RInv
<1> QED
  BY <1>1, RingInductive, PTL

\* m_head, m_tail and m_is_full count the pages in use exactly.
THEOREM RingCountExact == RingSpec => []CountExact
<1>1. RInv => CountExact
  BY DEF RInv
<1> QED
  BY <1>1, RingInductive, PTL

\* No page is written over before the card has read it.
THEOREM RingPagesIntact == RingSpec => []PagesIntact
<1>1. RInv => PagesIntact
  BY DEF RInv
<1> QED
  BY <1>1, RingInductive, PTL

\* What the card will read is what it was sent.
LEMMA ContentsSent == ASSUME RInv PROVE Contents = chan
<1>1. chan \in Seq(Page)
  BY DEF RInv, RingTypeOK
<1>2. chan = [i \in 1 .. Len(chan) |-> chan[i]]
  BY <1>1
<1> QED
  BY <1>2 DEF RInv, PagesIntact, Contents

\* The ring implements the bounded queue: a page written is appended, the one
\* read is the first, and nothing else changes what the card will read.
THEOREM RingIsFifo == RingSpec => ImplementsFifo
<1>1. RingInit => Fifo!Init
  BY DEF RingInit, Fifo!Init, Contents
<1>2. RInv => Contents = chan
  BY ContentsSent
<1>3. RInv /\ Contents = chan /\ (Contents = chan)' /\ [RingNext]_allRingVars => [Fifo!Next]_Contents
  <2> SUFFICES ASSUME RInv, Contents = chan, (Contents = chan)', [RingNext]_allRingVars
               PROVE  [Fifo!Next]_Contents
    OBVIOUS
  <2>1. Contents' = chan'
    OBVIOUS
  <2>2. CASE UNCHANGED chan
    BY <2>1, <2>2
  <2>3. ASSUME NEW p \in Producer, write(p) PROVE Fifo!Put
    <3> DEFINE page == [by |-> p, no |-> sent[p] + 1]
    <3>1. chan \in Seq(Page) /\ page \in Page /\ chan' = Append(chan, page)
      BY <2>3 DEF RInv, RingTypeOK, Page, write
    <3>2. Len(chan) < N
      <4>1. Ahead = 0 /\ owner = p
        BY <2>3 DEF RInv, OneOwner, Ahead, write
      <4>2. getAvailBytes = Len(chan) + consumed /\ getAvailBytes < N
        BY <4>1, Room
      <4> QED
        BY <3>1, <4>2, RingAssumption DEF RInv, RingTypeOK
    <3>3. /\ Len(chan') = Len(chan) + 1
          /\ chan'[Len(chan')] \in Page
          /\ \A i \in 1 .. Len(chan) : chan'[i] = chan[i]
      BY <3>1
    <3> QED
      BY <2>1, <3>2, <3>3 DEF Fifo!Put
  <2>4. CASE card_read
    <3>1. Fifo!Get
      BY <2>1, <2>4 DEF Fifo!Get, card_read
    <3> QED
      BY <3>1 DEF Fifo!Next
  <2>5. (\E p \in Producer : write(p)) \/ card_read \/ UNCHANGED chan
    BY DEF RingNext, Send, allRingVars, ringCardVars, lockFreeSpace, lockFreeSpace_sleep,
       lockFreeSpace_invalid, lockFreeSpace_wakeup, write_fail, unlockFreeSpace,
       updateHead, setInvalid
  <2> QED
    BY <2>2, <2>3, <2>4, <2>5 DEF Fifo!Next
<1> QED
  BY <1>1, <1>2, <1>3, RingInductive, PTL DEF RingSpec, ImplementsFifo, Fifo!Spec
-----------------------------------------------------------------------------
(***************************************************************************)
(* The command list: of any entries, copies and resources.                 *)
(*                                                                         *)
(* That the resources stay locked while the card works is not inductive:   *)
(* it rests on every copy being at one place at a time, with the schedule, *)
(* on the card, in an event or with the response thread, and on the list   *)
(* being in one stage, between which it hands its copies on.               *)
(***************************************************************************)

\* What is in the channel and in the response thread's hands.
HostMsg == [op : {"run", "query", "clear", "copy"}, c : Seq(Copy)]
CardMsg ==
    {e \in [op : {"executed", "errors", "cleared", "break"}, cs : Seq(Copy), ok : BOOLEAN,
            calls : {<<>>, <<"complete">>, <<"addError">>}, n : Nat] :
        e.op # "executed" => e.cs = <<>> /\ e.ok /\ e.calls = <<>>}
PostItem == [c : Copy, failed : BOOLEAN]

Preparing == sched.pc \in {"prepare", "back", "all"}

\* Where a schedule and its undo are in the list.
SchedOK ==
    /\ sched \in [pc : {"idle", "can", "prepare", "back", "all"}, i : Nat, j : Nat, n : Nat]
    /\ sched.i \in 0 .. Len(Vec) + 1
    /\ sched.i \in DOMAIN Vec => sched.j \in 1 .. Len(Vec[sched.i]) + 1 /\ sched.n \in 0 .. Len(Vec[sched.i])
    /\ sched.pc = "can" => sched.i = 1 /\ sched.j = 1
    /\ sched.pc \in {"can", "prepare"} => sched.n = 0
    /\ sched.pc = "back" => sched.i <= Len(Vec)
    /\ sched.pc = "prepare" => sched.i >= 1
    /\ sched.pc = "all" => sched.i >= 1 /\ (sched.i <= Len(Vec) => sched.n = Len(Vec[sched.i]))

LocksShape ==
    /\ m_readers \in [Res -> Int]
    /\ m_cpu_locked \in [Res -> {-1, 0, 1}]
    /\ cpuPc \in [CpuThread -> {"idle", "entered", "asleep", "holds"}]
    /\ m_scheduled \in [Copy -> BOOLEAN]

ListShape ==
    /\ m_in_flight \in BOOLEAN /\ m_failed_commands \in Nat
    /\ m_waitq \in {"free", "sched", "clear"}
    /\ m_errorList \in [state : {"cleared", "started", "completed"}, n : Nat, failed : Seq(Res)]

CallsShape ==
    /\ wait \in {"idle", "test", "asleep", "late", "over", "query"}
    /\ clear \in {"idle", "query"}
    /\ m_critical_error \in {"none", "context"} /\ finalizing \in BOOLEAN

RespShape == post \in Seq(PostItem) /\ calls \in {<<>>, <<"complete">>, <<"addError">>}

CardShape == run \in [i : 0 .. Len(Vec), failed : BOOLEAN] /\ cardErr \in Nat /\ solo \subseteq Solo

BoundShape == runs \in 0 .. MaxRuns /\ solos \in Nat /\ fails \in 0 .. MaxFails /\ broke \in 0 .. MaxBreaks

Shape ==
    /\ LocksShape /\ ListShape /\ SchedOK /\ CallsShape /\ RespShape
    /\ h2c \in Seq(HostMsg) /\ c2h \in Seq(CardMsg)
    /\ CardShape /\ BoundShape

-----------------------------------------------------------------------------
(***************************************************************************)
(* Sequences, locks, and what the actions have in common                   *)
(***************************************************************************)

LEMMA AppendTo ==
    ASSUME NEW M, NEW q \in Seq(M), NEW m \in M
    PROVE  /\ Append(q, m) \in Seq(M) /\ Len(Append(q, m)) = Len(q) + 1
           /\ DOMAIN Append(q, m) = 1 .. Len(q) + 1 /\ DOMAIN q = 1 .. Len(q) /\ Len(q) \in Nat
           /\ \A k \in 1 .. Len(q) : Append(q, m)[k] = q[k]
           /\ Append(q, m)[Len(q) + 1] = m
OBVIOUS

LEMMA TailOf ==
    ASSUME NEW M, NEW q \in Seq(M), q # <<>>
    PROVE  /\ Tail(q) \in Seq(M) /\ Head(q) \in M /\ Head(q) = q[1]
           /\ Len(q) \in Nat \ {0} /\ Len(Tail(q)) = Len(q) - 1
           /\ DOMAIN q = 1 .. Len(q) /\ DOMAIN Tail(q) = 1 .. Len(q) - 1
           /\ \A k \in 1 .. Len(q) - 1 : Tail(q)[k] = q[k + 1]
BY HeadTailProperties, LenProperties

\* How often a sequence has a member of S.
Count(s, S) == Cardinality({k \in DOMAIN s : s[k] \in S})

LEMMA CountType == ASSUME NEW M, NEW q \in Seq(M), NEW S PROVE Count(q, S) \in Nat
<1>1. IsFiniteSet(1 .. Len(q))
  BY FS_Interval
<1>2. IsFiniteSet({k \in DOMAIN q : q[k] \in S})
  BY <1>1, FS_Subset
<1> QED
  BY <1>2, FS_CardinalityType DEF Count

LEMMA CountAppend ==
    ASSUME NEW M, NEW q \in Seq(M), NEW m \in M, NEW S
    PROVE  Count(Append(q, m), S) = Count(q, S) + IF m \in S THEN 1 ELSE 0
<1> DEFINE r == Append(q, m)
           L == {k \in DOMAIN q : q[k] \in S}
           R == {k \in DOMAIN r : r[k] \in S}
<1>1. /\ DOMAIN r = 1 .. Len(q) + 1 /\ DOMAIN q = 1 .. Len(q) /\ Len(q) \in Nat
      /\ \A k \in 1 .. Len(q) : r[k] = q[k]
      /\ r[Len(q) + 1] = m
  BY AppendTo
<1> HIDE DEF r
<1>2. IsFiniteSet(L) /\ Cardinality(L) \in Nat
  <2>1. IsFiniteSet(1 .. Len(q))
    BY <1>1, FS_Interval
  <2> QED
    BY <1>1, <2>1, FS_Subset, FS_CardinalityType
<1>3. m \in S => R = L \cup {Len(q) + 1}
  BY <1>1
<1>4. m \notin S => R = L
  BY <1>1
<1>5. Len(q) + 1 \notin L
  BY <1>1
<1>6. Count(Append(q, m), S) = Cardinality(R) /\ Count(q, S) = Cardinality(L)
  BY DEF Count, r
<1> HIDE DEF L, R
<1>7. Cardinality(L \cup {Len(q) + 1}) = Cardinality(L) + 1
  BY <1>2, <1>5, FS_AddElement
<1>8. m \in S => Cardinality(R) = Cardinality(L) + 1
  BY <1>3, <1>7, Zenon
<1>9. m \notin S => Cardinality(R) = Cardinality(L)
  BY <1>4, Zenon
<1> QED
  BY <1>2, <1>6, <1>8, <1>9

LEMMA CountTail ==
    ASSUME NEW M, NEW q \in Seq(M), q # <<>>, NEW S
    PROVE  Count(q, S) = Count(Tail(q), S) + IF Head(q) \in S THEN 1 ELSE 0
<1> DEFINE r == Tail(q)
           L == {k \in DOMAIN q : q[k] \in S}
           R == {k \in DOMAIN r : r[k] \in S}
           L1 == L \ {1}
           f == [k \in R |-> k + 1]
<1>1. /\ DOMAIN q = 1 .. Len(q) /\ DOMAIN r = 1 .. Len(q) - 1 /\ Len(q) \in Nat \ {0}
      /\ \A k \in 1 .. Len(q) - 1 : r[k] = q[k + 1]
      /\ Head(q) = q[1]
  BY TailOf
<1> HIDE DEF r
<1>2. IsFiniteSet(L) /\ IsFiniteSet(R) /\ Cardinality(L) \in Nat /\ Cardinality(R) \in Nat
  <2>1. IsFiniteSet(1 .. Len(q)) /\ IsFiniteSet(1 .. Len(q) - 1)
    BY <1>1, FS_Interval
  <2>2. L \subseteq 1 .. Len(q) /\ R \subseteq 1 .. Len(q) - 1
    BY <1>1
  <2> QED
    BY <2>1, <2>2, FS_Subset, FS_CardinalityType
<1>3. f \in Bijection(R, L1)
  <2>1. \A k \in R : k \in 1 .. Len(q) - 1 /\ r[k] \in S
    BY <1>1
  <2>2. \A k \in R : k + 1 \in L1
    BY <1>1, <2>1
  <2>3. f \in [R -> L1]
    BY <2>2
  <2>4. \A k \in L1 : k - 1 \in R /\ (k - 1) + 1 = k
    BY <1>1
  <2>5. \A k \in R : k \in Int
    BY <2>1
  <2> HIDE DEF R, L1
  <2> QED
    BY <2>3, <2>4, <2>5 DEF Bijection, Injection, Surjection, IsInjective
<1>4. Cardinality(L1) = Cardinality(R)
  <2>1. ExistsBijection(R, L1)
    BY <1>3 DEF ExistsBijection
  <2>2. IsFiniteSet(L1)
    BY <1>2, FS_Subset
  <2> QED
    BY <1>2, <2>1, <2>2, FS_Bijection
<1>5. Cardinality(L1) = IF 1 \in L THEN Cardinality(L) - 1 ELSE Cardinality(L)
  BY <1>2, FS_RemoveElement
<1>6. (1 \in L) <=> (Head(q) \in S)
  BY <1>1
<1>7. Count(q, S) = Cardinality(L) /\ Count(Tail(q), S) = Cardinality(R)
  BY DEF Count, r
<1> HIDE DEF L, R, L1
<1> QED
  BY <1>2, <1>4, <1>5, <1>6, <1>7

\* m_readers is n when the copies S have the resource.
LockIs(n, S) ==
    /\ IsFiniteSet(S)
    /\ IF S \cap C2H = {} THEN n = Cardinality(S) ELSE n = -1 /\ \E c \in Copy : S = {c}

Locking(r) == {c \in Copy : m_scheduled[c] /\ CopyRes[c] = r}
LocksExact == \A r \in Res : ~Lockless(r) => LockIs(m_readers[r], Locking(r))

\* lock_device_access for one more copy.
LEMMA TakeLock ==
    ASSUME NEW n \in Int, NEW S, NEW c \in Copy, LockIs(n, S), c \notin S,
           IF c \in C2H THEN n = 0 ELSE n >= 0
    PROVE  LockIs(IF c \in C2H THEN -1 ELSE n + 1, S \cup {c})
<1>1. S \cap C2H = {} /\ n = Cardinality(S) /\ IsFiniteSet(S)
  BY DEF LockIs
<1>2. IsFiniteSet(S \cup {c}) /\ Cardinality(S \cup {c}) = Cardinality(S) + 1
  BY <1>1, FS_AddElement
<1>3. CASE c \in C2H
  <2>1. S = {}
    BY <1>1, <1>3, FS_EmptySet
  <2> QED
    BY <1>2, <1>3, <2>1 DEF LockIs
<1>4. CASE c \notin C2H
  <2>1. (S \cup {c}) \cap C2H = {}
    BY <1>1, <1>4
  <2> QED
    BY <1>1, <1>2, <1>4, <2>1 DEF LockIs
<1> QED
  BY <1>3, <1>4

\* unlock_device_access of one of them.
LEMMA GiveLock ==
    ASSUME NEW n \in Int, NEW S, NEW c \in S, LockIs(n, S)
    PROVE  LockIs(IF c \in C2H THEN 0 ELSE n - 1, S \ {c})
<1>1. IsFiniteSet(S \ {c}) /\ Cardinality(S \ {c}) = Cardinality(S) - 1
  BY FS_RemoveElement DEF LockIs
<1>2. CASE S \cap C2H = {}
  <2>1. (S \ {c}) \cap C2H = {} /\ c \notin C2H
    BY <1>2
  <2> QED
    BY <1>1, <1>2, <2>1 DEF LockIs
<1>3. CASE S \cap C2H # {}
  <2>1. c \in C2H /\ S \ {c} = {}
    BY <1>3 DEF LockIs
  <2>2. Cardinality({}) = 0 /\ IsFiniteSet({})
    BY FS_EmptySet
  <2> QED
    BY <2>1, <2>2 DEF LockIs
<1> QED
  BY <1>2, <1>3

\* preSchedule of a copy that has no lock.
LEMMA PreLocks ==
    ASSUME Shape, LocksExact, NEW c \in Copy, preSchedule(c),
           ~Lockless(CopyRes[c]) => ~m_scheduled[c]
    PROVE  LocksExact'
<1> USE ListAssumption, HostResAssumption
<1> DEFINE r == CopyRes[c]
<1>1. r \in Res /\ m_readers[r] \in Int
  BY DEF Shape, LocksShape
<1>2. m_scheduled' = [m_scheduled EXCEPT ![c] = TRUE] /\ m_scheduled \in [Copy -> BOOLEAN]
  BY DEF preSchedule, Shape, LocksShape
<1>3. \A q \in Res : Locking(q)' = IF q = r THEN Locking(q) \cup {c} ELSE Locking(q)
  BY <1>2 DEF Locking
<1>4. \A q \in Res : q # r => m_readers'[q] = m_readers[q]
  BY <1>1 DEF preSchedule, lock_device_access, Shape, LocksShape
<1>5. ASSUME ~Lockless(r) PROVE LockIs(m_readers'[r], Locking(r)')
  <2>1. m_readers'[r] = IF c \in C2H THEN -1 ELSE m_readers[r] + 1
    BY <1>1, <1>5 DEF preSchedule, lock_device_access, Shape, LocksShape
  <2>2. IF c \in C2H THEN m_readers[r] = 0 ELSE m_readers[r] >= 0
    BY <1>5 DEF preSchedule, DeviceLockable
  <2>3. c \notin Locking(r) /\ LockIs(m_readers[r], Locking(r))
    BY <1>1, <1>5 DEF Locking, LocksExact
  <2>4. LockIs(IF c \in C2H THEN -1 ELSE m_readers[r] + 1, Locking(r) \cup {c})
    BY <1>1, <2>2, <2>3, TakeLock
  <2> QED
    BY <1>1, <1>3, <2>1, <2>4
<1> SUFFICES ASSUME NEW q \in Res, ~Lockless(q) PROVE LockIs(m_readers'[q], Locking(q)')
  BY DEF LocksExact, LockIs, Lockless
<1> QED
  BY <1>3, <1>4, <1>5 DEF LocksExact

\* A step that locks and unlocks nothing.
LEMMA SameLocks ==
    ASSUME LocksExact, UNCHANGED <<m_readers, m_scheduled>>
    PROVE  LocksExact'
BY DEF LocksExact, LockIs, Locking, Lockless

\* postSchedule leaves the copy without a lock, and no other.
LEMMA PostMarks ==
    ASSUME Shape, NEW c \in Copy, postSchedule(c)
    PROVE  m_scheduled' = [m_scheduled EXCEPT ![c] = FALSE]
BY DEF Shape, LocksShape, postSchedule

LEMMA PostLocks ==
    ASSUME Shape, LocksExact, NEW c \in Copy, postSchedule(c)
    PROVE  LocksExact'
<1> USE ListAssumption, HostResAssumption
<1> DEFINE r == CopyRes[c]
<1>1. r \in Res /\ m_readers[r] \in Int
  BY DEF Shape, LocksShape
<1>2. CASE ~m_scheduled[c]
  <2>1. UNCHANGED <<m_readers, m_scheduled>>
    BY <1>2 DEF postSchedule
  <2> QED
    BY <2>1, SameLocks
<1>3. CASE m_scheduled[c]
  <2>1. m_scheduled' = [m_scheduled EXCEPT ![c] = FALSE] /\ m_scheduled \in [Copy -> BOOLEAN]
    BY PostMarks DEF Shape, LocksShape
  <2>2. \A q \in Res : Locking(q)' = IF q = r THEN Locking(q) \ {c} ELSE Locking(q)
    BY <2>1 DEF Locking
  <2>3. \A q \in Res : q # r => m_readers'[q] = m_readers[q]
    BY <1>1, <1>3 DEF postSchedule, unlock_device_access, Shape, LocksShape
  <2>4. ASSUME ~Lockless(r) PROVE LockIs(m_readers'[r], Locking(r)')
    <3>1. m_readers'[r] = IF c \in C2H THEN 0 ELSE m_readers[r] - 1
      BY <1>1, <1>3, <2>4 DEF postSchedule, unlock_device_access, Shape, LocksShape
    <3>2. c \in Locking(r) /\ LockIs(m_readers[r], Locking(r))
      BY <1>1, <1>3, <2>4 DEF Locking, LocksExact
    <3>3. LockIs(IF c \in C2H THEN 0 ELSE m_readers[r] - 1, Locking(r) \ {c})
      BY <1>1, <3>2, GiveLock
    <3> QED
      BY <1>1, <2>2, <3>1, <3>3
  <2> SUFFICES ASSUME NEW q \in Res, ~Lockless(q) PROVE LockIs(m_readers'[q], Locking(q)')
    BY DEF LocksExact, LockIs, Lockless
  <2> QED
    BY <2>2, <2>3, <2>4 DEF LocksExact
<1> QED
  BY <1>2, <1>3

-----------------------------------------------------------------------------
(***************************************************************************)
(* Types                                                                   *)
(***************************************************************************)

\* What keeps its type because it does not change.
LEMMA Stays ==
    ASSUME Shape
    PROVE  /\ UNCHANGED resVars /\ UNCHANGED m_scheduled => LocksShape'
           /\ UNCHANGED listVars => ListShape'
           /\ UNCHANGED sched => SchedOK'
           /\ UNCHANGED wait /\ UNCHANGED clear /\ UNCHANGED ctxVars => CallsShape'
           /\ UNCHANGED respVars => RespShape'
           /\ UNCHANGED h2c => h2c' \in Seq(HostMsg)
           /\ UNCHANGED c2h => c2h' \in Seq(CardMsg)
           /\ UNCHANGED cardVars => CardShape'
           /\ UNCHANGED histVars => BoundShape'
<1> USE DEF Shape
<1>1. UNCHANGED resVars /\ UNCHANGED m_scheduled => LocksShape'
  BY DEF LocksShape, resVars, hostResVars
<1>2. UNCHANGED listVars => ListShape'
  BY DEF ListShape, listVars
<1>3. UNCHANGED sched => SchedOK'
  BY DEF SchedOK
<1>4. UNCHANGED wait /\ UNCHANGED clear /\ UNCHANGED ctxVars => CallsShape'
  BY DEF CallsShape, ctxVars
<1>5. UNCHANGED respVars => RespShape'
  BY DEF RespShape, respVars
<1>6. UNCHANGED cardVars => CardShape'
  BY DEF CardShape, cardVars
<1>7. UNCHANGED histVars => BoundShape'
  BY DEF BoundShape, histVars
<1> QED
  BY <1>1, <1>2, <1>3, <1>4, <1>5, <1>6, <1>7

LEMMA PreShape ==
    ASSUME Shape, NEW c \in Copy, preSchedule(c)
    PROVE  LocksShape' /\ UNCHANGED <<m_cpu_locked, m_failed_copy_ops, cpuPc>>
<1>1. CopyRes[c] \in Res /\ m_readers[CopyRes[c]] \in Int
  BY ListAssumption DEF Shape, LocksShape
<1>2. m_readers' \in [Res -> Int]
  BY <1>1 DEF Shape, LocksShape, preSchedule, lock_device_access
<1> QED
  BY <1>2 DEF Shape, LocksShape, preSchedule

LEMMA PostShape ==
    ASSUME Shape, NEW c \in Copy, postSchedule(c)
    PROVE  LocksShape'
<1>1. CopyRes[c] \in Res /\ m_readers[CopyRes[c]] \in Int
  BY ListAssumption DEF Shape, LocksShape
<1>2. CASE m_scheduled[c]
  <2>1. m_readers' \in [Res -> Int]
    BY <1>1, <1>2 DEF Shape, LocksShape, postSchedule, unlock_device_access
  <2>2. cpuPc' \in [CpuThread -> {"idle", "entered", "asleep", "holds"}]
    BY <1>2 DEF Shape, LocksShape, postSchedule, unlock_device_access
  <2> QED
    BY <1>2, <2>1, <2>2 DEF Shape, LocksShape, postSchedule
<1>3. CASE ~m_scheduled[c]
  BY <1>3 DEF Shape, LocksShape, postSchedule
<1> QED
  BY <1>2, <1>3

\* The entries of the list.
LEMMA VecShape ==
    /\ Len(Vec) \in Nat \ {0} /\ DOMAIN Vec = 1 .. Len(Vec)
    /\ \A i \in 1 .. Len(Vec) :
          /\ Vec[i] \in Seq(Copy) /\ Len(Vec[i]) \in Nat /\ DOMAIN Vec[i] = 1 .. Len(Vec[i])
          /\ \A j \in 1 .. Len(Vec[i]) : Vec[i][j] \in Copy
<1>1. Vec \in Seq(Seq(Copy)) /\ Vec # <<>>
  BY ListAssumption
<1>2. Len(Vec) \in Nat \ {0} /\ DOMAIN Vec = 1 .. Len(Vec) /\ \A i \in 1 .. Len(Vec) : Vec[i] \in Seq(Copy)
  BY <1>1, EmptySeq, LenProperties, ElementOfSeq
<1> QED
  BY <1>2, LenProperties, ElementOfSeq

LEMMA UndoShape ==
    ASSUME NEW p \in {"back", "all"}, NEW i \in 0 .. Len(Vec) + 1
    PROVE  /\ Undo(p, i) \in [pc : {"idle", "can", "prepare", "back", "all"}, i : Nat, j : Nat, n : Nat]
           /\ Undo(p, i).pc = p /\ Undo(p, i).i = i /\ Undo(p, i).j = 1
           /\ i \in 1 .. Len(Vec) => Undo(p, i).n = Len(Vec[i])
BY VecShape DEF Undo

LEMMA UndoOK ==
    ASSUME NEW p \in {"back", "all"}, NEW i \in 0 .. Len(Vec) + 1,
           p = "back" => i <= Len(Vec), p = "all" => i >= 1, sched' = Undo(p, i)
    PROVE  SchedOK'
<1> DEFINE u == Undo(p, i)
<1>1. /\ u \in [pc : {"idle", "can", "prepare", "back", "all"}, i : Nat, j : Nat, n : Nat]
      /\ u.pc = p /\ u.i = i /\ u.j = 1
      /\ i \in 1 .. Len(Vec) => u.n = Len(Vec[i])
  BY UndoShape
<1> HIDE DEF u
<1>2. sched' = u
  BY DEF u
<1> QED
  BY <1>1, <1>2, VecShape DEF SchedOK

\* The copy at which a schedule or its undo is.
LEMMA SchedCopy ==
    ASSUME SchedOK, sched.i \in DOMAIN Vec, sched.j <= Len(Vec[sched.i]) \/ sched.j <= sched.n
    PROVE  /\ sched.i \in 1 .. Len(Vec) /\ sched.j \in 1 .. Len(Vec[sched.i])
           /\ Vec[sched.i][sched.j] \in Copy
<1>1. sched.i \in 1 .. Len(Vec) /\ Len(Vec[sched.i]) \in Nat
  BY VecShape
<1>2. sched.j \in 1 .. Len(Vec[sched.i])
  BY <1>1 DEF SchedOK
<1> QED
  BY <1>1, <1>2, VecShape

\* The steps of a schedule move it as SchedOK says.
LEMMA SchedMoves ==
    ASSUME Shape, schedule \/ Schedule
    PROVE  SchedOK'
<1>0. SchedOK
  BY DEF Shape
<1>a. /\ sched.i \in Nat /\ sched.j \in Nat /\ sched.n \in Nat /\ Len(Vec) \in Nat \ {0} /\ DOMAIN Vec = 1 .. Len(Vec)
      /\ \A i \in 1 .. Len(Vec) : Len(Vec[i]) \in Nat
  BY <1>0, VecShape DEF SchedOK
<1>b. sched \in [pc : {"idle", "can", "prepare", "back", "all"}, i : Nat, j : Nat, n : Nat]
  BY <1>0 DEF SchedOK
<1>1. CASE schedule
  BY <1>a, <1>1 DEF schedule, SchedOK, Idle
<1>2. CASE schedule_can
  BY <1>0, <1>a, <1>2 DEF schedule_can, SchedOK
<1>3. CASE schedule_prepare
  BY <1>0, <1>a, <1>3 DEF schedule_prepare, SchedOK
<1>4. CASE schedule_next
  <2>1. sched' = [sched EXCEPT !.i = sched.i + 1, !.j = 1] /\ sched.pc = "prepare" /\ sched.i <= Len(Vec)
    BY <1>4 DEF schedule_next
  <2>2. sched' \in [pc : {"idle", "can", "prepare", "back", "all"}, i : Nat, j : Nat, n : Nat]
    <3>1. [sched EXCEPT !.i = sched.i + 1] \in [pc : {"idle", "can", "prepare", "back", "all"}, i : Nat, j : Nat, n : Nat]
      BY <1>a, <1>b
    <3>2. sched' = [[sched EXCEPT !.i = sched.i + 1] EXCEPT !.j = 1]
      BY <2>1
    <3> QED
      BY <3>1, <3>2
  <2>3. sched'.pc = "prepare" /\ sched'.i = sched.i + 1 /\ sched'.j = 1 /\ sched'.n = sched.n
    BY <1>0, <2>1 DEF SchedOK
  <2>4. sched.n = 0
    BY <1>0, <2>1 DEF SchedOK
  <2> QED
    BY <1>a, <2>1, <2>2, <2>3, <2>4 DEF SchedOK
<1>5. CASE schedule_busy
  <2>1. sched.i \in 1 .. Len(Vec) /\ sched.j \in 1 .. Len(Vec[sched.i])
    BY <1>0, <1>a, <1>5 DEF schedule_busy, SchedOK
  <2>2. CASE Len(Vec[sched.i]) > 1
    <3>1. sched' = [pc |-> "back", i |-> sched.i, j |-> 1, n |-> sched.j]
      BY <1>5, <2>2 DEF schedule_busy
    <3> QED
      BY <1>a, <2>1, <3>1 DEF SchedOK
  <2>3. CASE ~(Len(Vec[sched.i]) > 1)
    <3>1. sched' = Undo("back", sched.i - 1) /\ sched.i - 1 \in 0 .. Len(Vec) + 1 /\ sched.i - 1 <= Len(Vec)
      BY <1>a, <1>5, <2>1, <2>3 DEF schedule_busy
    <3> QED
      BY <3>1, UndoOK
  <2> QED
    BY <2>2, <2>3
<1>6. CASE schedule_send
  BY <1>a, <1>6 DEF schedule_send, SchedOK, Idle
<1>7. CASE schedule_send_fail
  <2>1. sched' = Undo("all", 1) /\ 1 \in 0 .. Len(Vec) + 1
    BY <1>a, <1>7 DEF schedule_send_fail
  <2> QED
    BY <2>1, UndoOK
<1>8. CASE schedule_undo
  <2>1. sched.i \in 1 .. Len(Vec) /\ sched.j \in 1 .. Len(Vec[sched.i]) /\ sched' = [sched EXCEPT !.j = sched.j + 1]
    BY <1>0, <1>8, SchedCopy DEF schedule_undo
  <2>2. /\ sched' \in [pc : {"idle", "can", "prepare", "back", "all"}, i : Nat, j : Nat, n : Nat]
        /\ sched'.pc = sched.pc /\ sched'.i = sched.i /\ sched'.j = sched.j + 1 /\ sched'.n = sched.n
    BY <1>0, <1>a, <2>1 DEF SchedOK
  <2>3. sched.pc \in {"back", "all"}
    BY <1>8 DEF schedule_undo
  <2> QED
    BY <1>0, <1>a, <2>1, <2>2, <2>3 DEF SchedOK
<1>9. CASE schedule_undo_next
  <2>1. sched.i \in 1 .. Len(Vec) /\ sched.pc \in {"back", "all"}
    BY <1>a, <1>9 DEF schedule_undo_next
  <2>2. CASE sched.pc = "back"
    <3>1. sched' = Undo("back", sched.i - 1) /\ sched.i - 1 \in 0 .. Len(Vec) + 1 /\ sched.i - 1 <= Len(Vec)
      BY <1>a, <1>9, <2>1, <2>2 DEF schedule_undo_next
    <3> QED
      BY <3>1, UndoOK
  <2>3. CASE sched.pc = "all"
    <3>1. sched' = Undo("all", sched.i + 1) /\ sched.i + 1 \in 0 .. Len(Vec) + 1 /\ sched.i + 1 >= 1
      BY <1>a, <1>9, <2>1, <2>3 DEF schedule_undo_next
    <3> QED
      BY <3>1, UndoOK
  <2> QED
    BY <2>1, <2>2, <2>3
<1>10. CASE schedule_undone
  BY <1>a, <1>10 DEF schedule_undone, SchedOK, Idle
<1> QED
  BY <1>1, <1>2, <1>3, <1>4, <1>5, <1>6, <1>7, <1>8, <1>9, <1>10 DEF Schedule

LEMMA SchedShape ==
    ASSUME Shape, schedule \/ Schedule
    PROVE  Shape'
<1>0. SchedOK /\ SchedOK'
  BY SchedMoves DEF Shape
<1> USE Stays
<1>1. CASE schedule
  <2>1. ListShape'
    BY <1>1 DEF schedule, Shape, ListShape
  <2>2. BoundShape'
    BY <1>1, ListAssumption DEF schedule, Shape, BoundShape
  <2> QED
    BY <1>0, <1>1, <2>1, <2>2 DEF schedule, Shape
<1>2. CASE schedule_can
  <2>1. ListShape'
    BY <1>2 DEF schedule_can, Shape, ListShape
  <2> QED
    BY <1>0, <1>2, <2>1 DEF schedule_can, Shape
<1>3. CASE schedule_prepare
  <2>1. LocksShape'
    BY <1>0, <1>3, SchedCopy, PreShape, VecShape DEF schedule_prepare, SchedOK
  <2> QED
    BY <1>0, <1>3, <2>1 DEF schedule_prepare, Shape
<1>4. CASE schedule_next
  BY <1>0, <1>4 DEF schedule_next, Shape
<1>5. CASE schedule_busy
  BY <1>0, <1>5 DEF schedule_busy, Shape
<1>6. CASE schedule_send
  <2>1. [op |-> "run", c |-> <<>>] \in HostMsg
    BY DEF HostMsg
  <2>2. h2c' \in Seq(HostMsg)
    BY <1>6, <2>1, AppendTo DEF schedule_send, Shape
  <2> QED
    BY <1>0, <1>6, <2>2 DEF schedule_send, Shape
<1>7. CASE schedule_send_fail
  <2>1. BoundShape'
    BY <1>7, ListAssumption DEF schedule_send_fail, Shape, BoundShape
  <2> QED
    BY <1>0, <1>7, <2>1 DEF schedule_send_fail, Shape
<1>8. CASE schedule_undo
  <2>1. LocksShape'
    BY <1>0, <1>8, SchedCopy, PostShape DEF schedule_undo
  <2> QED
    BY <1>0, <1>8, <2>1 DEF schedule_undo, Shape
<1>9. CASE schedule_undo_next
  BY <1>0, <1>9 DEF schedule_undo_next, Shape
<1>10. CASE schedule_undone
  <2>1. ListShape' /\ CallsShape'
    BY <1>10 DEF schedule_undone, Completed, Shape, ListShape, CallsShape, ctxVars
  <2> QED
    BY <1>0, <1>10, <2>1 DEF schedule_undone, Shape
<1> QED
  BY <1>1, <1>2, <1>3, <1>4, <1>5, <1>6, <1>7, <1>8, <1>9, <1>10 DEF Schedule

\* wait, clearErrors and the other calls of the application.
UserStep ==
    \/ wait_start \/ wait_test \/ wait_timeout \/ wait_late \/ wait_over \/ wait_queried
    \/ clearErrors \/ clearErrors_done
    \/ (\E c \in Solo : schedule_copy(c))
    \/ (\E b \in BOOLEAN : finalize(b))
    \/ recover

LEMMA UserShape ==
    ASSUME Shape, UserStep
    PROVE  Shape'
<1> USE Stays
<1>0. /\ UNCHANGED ctxVars => UNCHANGED <<m_critical_error, finalizing>>
      /\ UNCHANGED Keep => /\ UNCHANGED resVars /\ UNCHANGED m_scheduled /\ UNCHANGED ctxVars /\ UNCHANGED respVars
                           /\ UNCHANGED c2h /\ UNCHANGED cardVars /\ UNCHANGED histVars
  BY DEF ctxVars, Keep
<1>a. [op |-> "query", c |-> <<>>] \in HostMsg /\ [op |-> "clear", c |-> <<>>] \in HostMsg
  BY DEF HostMsg
<1>1. CASE wait_start \/ wait_test \/ wait_timeout \/ wait_queried
  <2>1. CallsShape' /\ UNCHANGED Keep /\ UNCHANGED listVars /\ UNCHANGED sched /\ UNCHANGED h2c
    BY <1>0, <1>1 DEF wait_start, wait_test, wait_timeout, wait_queried, Shape, CallsShape
  <2> QED
    BY <1>0, <2>1 DEF Shape
<1>2. CASE wait_late \/ clearErrors_done
  <2>1. CallsShape' /\ UNCHANGED Keep /\ UNCHANGED sched /\ UNCHANGED h2c
    BY <1>0, <1>2 DEF wait_late, clearErrors_done, Shape, CallsShape
  <2>2. ListShape'
    BY <1>2 DEF wait_late, clearErrors_done, Shape, ListShape
  <2> QED
    BY <1>0, <2>1, <2>2 DEF Shape
<1>b. /\ m_errorList \in [state : {"cleared", "started", "completed"}, n : Nat, failed : Seq(Res)]
      /\ h2c \in Seq(HostMsg)
  BY DEF Shape, ListShape
<1>3. CASE wait_over \/ clearErrors
  <2>1. CallsShape' /\ UNCHANGED Keep /\ UNCHANGED sched
    BY <1>0, <1>3 DEF wait_over, clearErrors, Shape, CallsShape
  <2>2. m_errorList' \in [state : {"cleared", "started", "completed"}, n : Nat, failed : Seq(Res)]
    <3>1. CASE wait_over
      <4>1. CASE m_failed_commands = 0
        BY <1>b, <3>1, <4>1 DEF wait_over
      <4>2. CASE m_failed_commands # 0
        <5>1. [m_errorList EXCEPT !.state = "started"] \in [state : {"cleared", "started", "completed"}, n : Nat, failed : Seq(Res)]
          BY <1>b
        <5>2. m_errorList' = [[m_errorList EXCEPT !.state = "started"] EXCEPT !.n = 0]
          BY <3>1, <4>2 DEF wait_over
        <5> QED
          BY <5>1, <5>2
      <4> QED
        BY <4>1, <4>2
    <3>2. CASE clearErrors
      BY <1>b, <3>2 DEF clearErrors
    <3> QED
      BY <1>3, <3>1, <3>2
  <2>3. ListShape'
    BY <1>3, <2>2 DEF wait_over, clearErrors, Shape, ListShape
  <2>4. h2c' \in Seq(HostMsg)
    <3>1. CASE wait_over
      <4>1. h2c' = h2c \/ h2c' = Append(h2c, [op |-> "query", c |-> <<>>])
        BY <3>1 DEF wait_over
      <4> QED
        BY <1>a, <1>b, <4>1, AppendTo
    <3>2. CASE clearErrors
      <4>1. h2c' = h2c \/ h2c' = Append(h2c, [op |-> "clear", c |-> <<>>])
        BY <3>2 DEF clearErrors
      <4> QED
        BY <1>a, <1>b, <4>1, AppendTo
    <3> QED
      BY <1>3, <3>1, <3>2
  <2> QED
    BY <1>0, <2>1, <2>3, <2>4 DEF Shape
<1>4. ASSUME NEW c \in Solo, schedule_copy(c) PROVE Shape'
  <2>1. c \in Copy
    BY ListAssumption
  <2>2. LocksShape'
    BY <1>4, <2>1, PreShape DEF schedule_copy
  <2>3. [op |-> "copy", c |-> <<c>>] \in HostMsg
    BY <2>1 DEF HostMsg
  <2>4. h2c' \in Seq(HostMsg)
    BY <1>4, <2>3, AppendTo DEF schedule_copy, Shape
  <2>5. CardShape' /\ BoundShape'
    BY <1>4 DEF schedule_copy, Shape, CardShape, BoundShape
  <2> QED
    BY <1>4, <2>2, <2>4, <2>5 DEF schedule_copy, Shape, userVars
<1>5. ASSUME NEW b \in BOOLEAN, finalize(b) PROVE Shape'
  <2>1. CallsShape'
    BY <1>5 DEF finalize, Shape, CallsShape, userVars
  <2> QED
    BY <1>5, <2>1 DEF finalize, Shape, userVars
<1>6. CASE recover
  <2>1. CallsShape'
    BY <1>6 DEF recover, Shape, CallsShape, userVars
  <2> QED
    BY <1>6, <2>1 DEF recover, Shape, userVars
<1> QED
  BY <1>1, <1>2, <1>3, <1>4, <1>5, <1>6 DEF UserStep

LEMMA PostsShape ==
    ASSUME NEW cs \in Seq(Copy), NEW f \in BOOLEAN
    PROVE  /\ Posts(cs, f) \in Seq(PostItem) /\ DOMAIN Posts(cs, f) = DOMAIN cs
           /\ \A k \in DOMAIN cs : Posts(cs, f)[k] = [c |-> cs[k], failed |-> f]
<1>1. /\ DOMAIN cs = 1 .. Len(cs) /\ Len(cs) \in Nat
      /\ \A k \in DOMAIN cs : cs[k] \in Copy
  BY LenProperties, ElementOfSeq
<1>2. Posts(cs, f) \in [1 .. Len(cs) -> PostItem]
  BY <1>1 DEF Posts, PostItem
<1> QED
  BY <1>1, <1>2 DEF Posts

\* An event that arrives.
LEMMA Received ==
    ASSUME Shape, NEW o, Receive(o)
    PROVE  /\ c2h' \in Seq(CardMsg) /\ Head(c2h) \in CardMsg /\ Head(c2h) = c2h[1] /\ Head(c2h).op = o
           /\ Len(c2h) \in Nat \ {0}
           /\ DOMAIN c2h = 1 .. Len(c2h) /\ DOMAIN c2h' = 1 .. Len(c2h) - 1
           /\ \A k \in 1 .. Len(c2h) - 1 : c2h'[k] = c2h[k + 1]
           /\ Head(c2h).cs \in Seq(Copy) /\ Head(c2h).ok \in BOOLEAN
           /\ Head(c2h).calls \in {<<>>, <<"complete">>, <<"addError">>} /\ Head(c2h).n \in Nat
           /\ o # "executed" => Head(c2h).cs = <<>> /\ Head(c2h).ok /\ Head(c2h).calls = <<>>
<1>1. c2h \in Seq(CardMsg) /\ c2h # <<>> /\ c2h' = Tail(c2h) /\ Head(c2h).op = o
  BY DEF Shape, Receive
<1>2. /\ c2h' \in Seq(CardMsg) /\ Head(c2h) \in CardMsg /\ Head(c2h) = c2h[1]
      /\ Len(c2h) \in Nat \ {0}
      /\ DOMAIN c2h = 1 .. Len(c2h) /\ DOMAIN c2h' = 1 .. Len(c2h) - 1
      /\ \A k \in 1 .. Len(c2h) - 1 : c2h'[k] = c2h[k + 1]
  BY <1>1, TailOf
<1>3. \A e \in CardMsg : /\ e.cs \in Seq(Copy) /\ e.ok \in BOOLEAN /\ e.n \in Nat
                         /\ e.calls \in {<<>>, <<"complete">>, <<"addError">>}
                         /\ e.op # "executed" => e.cs = <<>> /\ e.ok /\ e.calls = <<>>
  BY DEF CardMsg
<1> QED
  BY <1>1, <1>2, <1>3

LEMMA TailOne == \A x : Tail(<<x>>) = <<>>
<1> SUFFICES ASSUME NEW x PROVE Tail(<<x>>) = <<>>
  OBVIOUS
<1>1. <<x>> \in Seq({x}) /\ <<x>> # <<>> /\ Len(<<x>>) = 1
  OBVIOUS
<1>2. Tail(<<x>>) \in Seq({x}) /\ Len(Tail(<<x>>)) = 0
  BY <1>1, HeadTailProperties
<1> QED
  BY <1>2, EmptySeq

LEMMA RespondShape ==
    ASSUME Shape, Respond
    PROVE  Shape'
<1> USE Stays
<1>1. CASE list_call
  <2>1. calls' = <<>>
    BY <1>1, TailOne DEF list_call, Shape, RespShape
  <2>2. RespShape'
    BY <1>1, <2>1 DEF list_call, Shape, RespShape
  <2>3. ListShape'
    <3>1. m_in_flight \in BOOLEAN /\ m_failed_commands \in Nat
      BY DEF Shape, ListShape
    <3>2. (m_in_flight' = FALSE /\ m_failed_commands' = m_failed_commands)
            \/ (m_failed_commands' = m_failed_commands + 1 /\ m_in_flight' = m_in_flight)
      BY <1>1 DEF list_call, Completed
    <3>3. m_in_flight' \in BOOLEAN
      BY <3>1, <3>2, Zenon
    <3>4. m_failed_commands' \in Nat
      BY <3>1, <3>2
    <3> QED
      BY <1>1, <3>3, <3>4 DEF list_call, Shape, ListShape
  <2>4. CallsShape'
    BY <1>1 DEF list_call, Completed, Shape, CallsShape, ctxVars
  <2> QED
    BY <1>1, <2>2, <2>3, <2>4 DEF list_call, Shape
<1>2. CASE release_copy
  <2>1. Head(post).c \in Copy /\ post' \in Seq(PostItem)
    <3>1. post \in Seq(PostItem) /\ post # <<>> /\ post' = Tail(post)
      BY <1>2 DEF release_copy, Shape, RespShape
    <3>2. Head(post) \in PostItem /\ post' \in Seq(PostItem)
      BY <3>1, TailOf
    <3> QED
      BY <3>2 DEF PostItem
  <2>2. LocksShape'
    BY <1>2, <2>1, PostShape DEF release_copy
  <2>3. Append(m_errorList.failed, CopyRes[Head(post).c]) \in Seq(Res)
    BY <2>1, ListAssumption DEF Shape, ListShape
  <2>4. ListShape'
    BY <1>2, <2>3 DEF release_copy, Shape, ListShape
  <2>5. RespShape'
    BY <1>2, <2>1 DEF release_copy, Shape, RespShape
  <2> QED
    BY <1>2, <2>2, <2>4, <2>5 DEF release_copy, Shape, userVars
<1>3. CASE executed
  <2>1. Posts(Head(c2h).cs, ~Head(c2h).ok) \in Seq(PostItem) /\ c2h' \in Seq(CardMsg)
    BY <1>3, Received, PostsShape DEF executed
  <2>2. RespShape'
    BY <1>3, <2>1, Received DEF executed, RespShape
  <2> QED
    BY <1>3, <2>1, <2>2 DEF executed, Shape, userVars
<1>4. CASE context_fatal
  <2>1. c2h' \in Seq(CardMsg)
    BY <1>4, Received DEF context_fatal
  <2>2. RespShape' /\ CallsShape'
    BY <1>4 DEF context_fatal, Shape, RespShape, CallsShape, userVars
  <2> QED
    BY <1>4, <2>1, <2>2 DEF context_fatal, Shape, userVars
<1>5. CASE errors_arrive
  <2>1. c2h' \in Seq(CardMsg) /\ Head(c2h).n \in Nat
    BY <1>5, Received DEF errors_arrive
  <2>2. ListShape'
    BY <1>5, <2>1 DEF errors_arrive, Shape, ListShape
  <2> QED
    BY <1>5, <2>1, <2>2 DEF errors_arrive, Shape, userVars
<1>6. CASE clearRequestSucceeded
  <2>1. c2h' \in Seq(CardMsg)
    BY <1>6, Received DEF clearRequestSucceeded
  <2>2. ListShape' /\ LocksShape'
    BY <1>6 DEF clearRequestSucceeded, Shape, ListShape, LocksShape
  <2> QED
    BY <1>6, <2>1, <2>2 DEF clearRequestSucceeded, Shape, userVars
<1> QED
  BY <1>1, <1>2, <1>3, <1>4, <1>5, <1>6 DEF Respond

\* The event of an entry that has run, and of a list that has.
Ran(ok) ==
    [Event("executed") EXCEPT
        !.cs = Vec[run.i], !.ok = ok,
        !.calls = IF ~ok THEN <<"addError">> ELSE IF run.i = Len(Vec) /\ ~run.failed THEN <<"complete">> ELSE <<>>]
AllRan == [Event("executed") EXCEPT !.calls = <<"complete">>]

LEMMA EventShape ==
    /\ \A cs \in Seq(Copy), ok \in BOOLEAN, cl \in {<<>>, <<"complete">>, <<"addError">>} :
          LET e == [Event("executed") EXCEPT !.cs = cs, !.ok = ok, !.calls = cl] IN
          /\ e \in CardMsg
          /\ e.op = "executed" /\ e.cs = cs /\ e.ok = ok /\ e.calls = cl /\ e.n = 0
    /\ AllRan \in CardMsg
    /\ AllRan.op = "executed" /\ AllRan.cs = <<>> /\ AllRan.ok /\ AllRan.calls = <<"complete">> /\ AllRan.n = 0
    /\ \A o \in {"cleared", "break"} :
          /\ Event(o) \in CardMsg
          /\ Event(o).op = o /\ Event(o).cs = <<>> /\ Event(o).ok /\ Event(o).calls = <<>> /\ Event(o).n = 0
    /\ \A k \in Nat :
          LET e == [Event("errors") EXCEPT !.n = k] IN
          /\ e \in CardMsg
          /\ e.op = "errors" /\ e.cs = <<>> /\ e.ok /\ e.calls = <<>> /\ e.n = k
    /\ \A c \in Copy :
          LET e == [Event("executed") EXCEPT !.cs = <<c>>] IN
          /\ e \in CardMsg
          /\ e.op = "executed" /\ e.cs = <<c>> /\ e.ok /\ e.calls = <<>> /\ e.n = 0
<1>1. <<>> \in Seq(Copy) /\ \A c \in Copy : <<c>> \in Seq(Copy)
  OBVIOUS
<1>2. ASSUME NEW cs \in Seq(Copy), NEW ok \in BOOLEAN, NEW cl \in {<<>>, <<"complete">>, <<"addError">>}
      PROVE  LET e == [Event("executed") EXCEPT !.cs = cs, !.ok = ok, !.calls = cl] IN
             /\ e \in CardMsg
             /\ e.op = "executed" /\ e.cs = cs /\ e.ok = ok /\ e.calls = cl /\ e.n = 0
  BY DEF Event, CardMsg
<1>3. /\ AllRan \in CardMsg
      /\ AllRan.op = "executed" /\ AllRan.cs = <<>> /\ AllRan.ok /\ AllRan.calls = <<"complete">> /\ AllRan.n = 0
  BY <1>1 DEF AllRan, Event, CardMsg
<1>4. ASSUME NEW o \in {"cleared", "break"}
      PROVE  /\ Event(o) \in CardMsg
             /\ Event(o).op = o /\ Event(o).cs = <<>> /\ Event(o).ok /\ Event(o).calls = <<>> /\ Event(o).n = 0
  BY <1>1 DEF Event, CardMsg
<1>5. ASSUME NEW k \in Nat
      PROVE  LET e == [Event("errors") EXCEPT !.n = k] IN
             /\ e \in CardMsg
             /\ e.op = "errors" /\ e.cs = <<>> /\ e.ok /\ e.calls = <<>> /\ e.n = k
  BY <1>1 DEF Event, CardMsg
<1>6. ASSUME NEW c \in Copy
      PROVE  LET e == [Event("executed") EXCEPT !.cs = <<c>>] IN
             /\ e \in CardMsg
             /\ e.op = "executed" /\ e.cs = <<c>> /\ e.ok /\ e.calls = <<>> /\ e.n = 0
  BY <1>1 DEF Event, CardMsg
<1> QED
  BY <1>2, <1>3, <1>4, <1>5, <1>6

LEMMA RunsEvents ==
    ASSUME Shape, NEW ok \in BOOLEAN, card_runs(ok)
    PROVE  LET two == run.i = Len(Vec) /\ (run.failed \/ ~ok) IN
           /\ run.i \in 1 .. Len(Vec)
           /\ Ran(ok) \in CardMsg
           /\ Ran(ok).op = "executed" /\ Ran(ok).cs = Vec[run.i] /\ Ran(ok).ok = ok /\ Ran(ok).n = 0
           /\ Ran(ok).calls = IF ~ok THEN <<"addError">>
                              ELSE IF run.i = Len(Vec) /\ ~run.failed THEN <<"complete">> ELSE <<>>
           /\ c2h' = IF two THEN Append(Append(c2h, Ran(ok)), AllRan) ELSE Append(c2h, Ran(ok))
           /\ c2h' \in Seq(CardMsg) /\ Len(c2h) \in Nat
           /\ DOMAIN c2h = 1 .. Len(c2h)
           /\ DOMAIN c2h' = 1 .. Len(c2h) + (IF two THEN 2 ELSE 1)
           /\ \A k \in 1 .. Len(c2h) : c2h'[k] = c2h[k]
           /\ c2h'[Len(c2h) + 1] = Ran(ok)
           /\ two => c2h'[Len(c2h) + 2] = AllRan
<1> DEFINE two == run.i = Len(Vec) /\ (run.failed \/ ~ok)
<1>1. run.i \in 1 .. Len(Vec) /\ c2h \in Seq(CardMsg) /\ Vec[run.i] \in Seq(Copy)
  BY VecShape DEF card_runs, Shape, CardShape
<1>2. /\ Ran(ok) \in CardMsg /\ AllRan \in CardMsg
      /\ Ran(ok).op = "executed" /\ Ran(ok).cs = Vec[run.i] /\ Ran(ok).ok = ok /\ Ran(ok).n = 0
      /\ Ran(ok).calls = IF ~ok THEN <<"addError">>
                         ELSE IF run.i = Len(Vec) /\ ~run.failed THEN <<"complete">> ELSE <<>>
  <2> DEFINE cl == IF ~ok THEN <<"addError">> ELSE IF run.i = Len(Vec) /\ ~run.failed THEN <<"complete">> ELSE <<>>
  <2>1. cl \in {<<>>, <<"complete">>, <<"addError">>}
    OBVIOUS
  <2>2. Ran(ok) = [Event("executed") EXCEPT !.cs = Vec[run.i], !.ok = ok, !.calls = cl]
    BY DEF Ran
  <2> HIDE DEF cl
  <2>3. /\ Ran(ok) \in CardMsg
        /\ Ran(ok).op = "executed" /\ Ran(ok).cs = Vec[run.i] /\ Ran(ok).ok = ok /\ Ran(ok).n = 0
        /\ Ran(ok).calls = cl
    <3> DEFINE e == [Event("executed") EXCEPT !.cs = Vec[run.i], !.ok = ok, !.calls = cl]
    <3>1. e \in CardMsg /\ e.op = "executed" /\ e.cs = Vec[run.i] /\ e.ok = ok /\ e.n = 0 /\ e.calls = cl
      BY <1>1, <2>1 DEF Event, CardMsg
    <3> HIDE DEF e
    <3>2. Ran(ok) = e
      BY <2>2 DEF e
    <3> QED
      BY <3>1, <3>2, Zenon
  <2>4. AllRan \in CardMsg
    BY EventShape
  <2> QED
    BY <2>3, <2>4 DEF cl
<1>3. c2h' = Append(c2h, Ran(ok)) \o (IF two THEN <<AllRan>> ELSE <<>>)
  BY DEF card_runs, Ran, AllRan
<1>5. /\ Append(c2h, Ran(ok)) \in Seq(CardMsg) /\ Len(Append(c2h, Ran(ok))) = Len(c2h) + 1
      /\ DOMAIN Append(c2h, Ran(ok)) = 1 .. Len(c2h) + 1 /\ DOMAIN c2h = 1 .. Len(c2h) /\ Len(c2h) \in Nat
      /\ \A k \in 1 .. Len(c2h) : Append(c2h, Ran(ok))[k] = c2h[k]
      /\ Append(c2h, Ran(ok))[Len(c2h) + 1] = Ran(ok)
  BY <1>1, <1>2, AppendTo
<1> HIDE DEF two
<1>4. c2h' = IF two THEN Append(Append(c2h, Ran(ok)), AllRan) ELSE Append(c2h, Ran(ok))
  BY <1>2, <1>3, <1>5, AppendIsConcat, ConcatEmptySeq
<1>6. CASE ~two
  BY <1>1, <1>2, <1>4, <1>5, <1>6 DEF two
<1>7. CASE two
  <2> DEFINE q == Append(c2h, Ran(ok))
  <2> HIDE DEF q
  <2>1. q \in Seq(CardMsg) /\ Len(q) = Len(c2h) + 1 /\ c2h' = Append(q, AllRan)
    BY <1>4, <1>5, <1>7 DEF q
  <2>2. /\ c2h' \in Seq(CardMsg) /\ DOMAIN c2h' = 1 .. Len(q) + 1
        /\ \A k \in 1 .. Len(q) : c2h'[k] = q[k]
        /\ c2h'[Len(q) + 1] = AllRan
    BY <1>2, <2>1, AppendTo
  <2>3. \A k \in 1 .. Len(c2h) + 1 : c2h'[k] = q[k]
    BY <1>5, <2>1, <2>2
  <2>4. /\ \A k \in 1 .. Len(c2h) : c2h'[k] = c2h[k]
        /\ c2h'[Len(c2h) + 1] = Ran(ok)
    BY <1>5, <2>3 DEF q
  <2>5. c2h'[Len(c2h) + 2] = AllRan /\ DOMAIN c2h' = 1 .. Len(c2h) + 2
    BY <1>5, <2>1, <2>2
  <2> QED
    BY <1>1, <1>2, <1>4, <1>5, <1>7, <2>2, <2>4, <2>5 DEF two
<1> QED
  BY <1>6, <1>7

\* The card takes a message.
LEMMA Taken ==
    ASSUME Shape, card_takes
    PROVE  /\ h2c' \in Seq(HostMsg) /\ Head(h2c) = h2c[1]
           /\ Head(h2c).op \in {"run", "query", "clear", "copy"}
           /\ Len(h2c) \in Nat \ {0}
           /\ DOMAIN h2c = 1 .. Len(h2c) /\ DOMAIN h2c' = 1 .. Len(h2c) - 1
           /\ \A k \in 1 .. Len(h2c) - 1 : h2c'[k] = h2c[k + 1]
<1>1. h2c \in Seq(HostMsg) /\ h2c # <<>> /\ h2c' = Tail(h2c)
  BY DEF Shape, card_takes
<1>2. \A e \in HostMsg : e.op \in {"run", "query", "clear", "copy"}
  BY DEF HostMsg
<1> QED
  BY <1>1, <1>2, TailOf

LEMMA CardKeepsShape ==
    ASSUME Shape, Card \/ card_breaks
    PROVE  Shape'
<1> USE Stays
<1>0. UNCHANGED HostVars => /\ UNCHANGED resVars /\ UNCHANGED m_scheduled /\ UNCHANGED listVars
                           /\ UNCHANGED sched /\ UNCHANGED wait /\ UNCHANGED clear
                           /\ UNCHANGED ctxVars /\ UNCHANGED respVars
  BY DEF HostVars, userVars
<1>1. CASE card_takes
  <2>1. h2c' \in Seq(HostMsg) /\ Head(h2c).op \in {"run", "query", "clear", "copy"}
    BY <1>1, Taken
  <2>2. [Event("errors") EXCEPT !.n = cardErr] \in CardMsg /\ Event("cleared") \in CardMsg
    BY EventShape DEF Shape, CardShape
  <2>3. c2h' \in Seq(CardMsg)
    <3>1. c2h \in Seq(CardMsg)
      BY DEF Shape
    <3>2. \/ c2h' = c2h \/ c2h' = Append(c2h, Event("cleared"))
          \/ c2h' = Append(c2h, [Event("errors") EXCEPT !.n = cardErr])
      BY <1>1, <2>1 DEF card_takes
    <3> QED
      BY <2>2, <3>1, <3>2, AppendTo
  <2>4. run' \in [i : 0 .. Len(Vec), failed : BOOLEAN] /\ cardErr' \in Nat
    <3>1. [i |-> 1, failed |-> FALSE] \in [i : 0 .. Len(Vec), failed : BOOLEAN]
      BY VecShape
    <3>2. run \in [i : 0 .. Len(Vec), failed : BOOLEAN] /\ cardErr \in Nat
      BY DEF Shape, CardShape
    <3>3. (run' = run \/ run' = [i |-> 1, failed |-> FALSE]) /\ (cardErr' = cardErr \/ cardErr' = 0)
      BY <1>1, <2>1 DEF card_takes
    <3>4. run' \in [i : 0 .. Len(Vec), failed : BOOLEAN]
      BY <3>1, <3>2, <3>3, Zenon
    <3> QED
      BY <3>2, <3>3, <3>4
  <2>5. CardShape'
    BY <1>1, <2>4 DEF card_takes, Shape, CardShape
  <2> QED
    BY <1>0, <1>1, <2>1, <2>3, <2>5 DEF card_takes, Shape
<1>2. ASSUME NEW ok \in BOOLEAN, card_runs(ok) PROVE Shape'
  <2>1. c2h' \in Seq(CardMsg)
    BY <1>2, RunsEvents
  <2>2. CardShape'
    BY <1>2, VecShape DEF card_runs, NoRun, Shape, CardShape
  <2>3. BoundShape'
    BY <1>2, ListAssumption DEF card_runs, Shape, BoundShape
  <2> QED
    BY <1>0, <1>2, <2>1, <2>2, <2>3 DEF card_runs, Shape
<1>3. ASSUME NEW c \in Copy, card_copies(c) PROVE Shape'
  <2>1. [Event("executed") EXCEPT !.cs = <<c>>] \in CardMsg
    BY EventShape
  <2>2. c2h' \in Seq(CardMsg) /\ CardShape'
    BY <1>3, <2>1, AppendTo DEF card_copies, Shape, CardShape
  <2> QED
    BY <1>0, <1>3, <2>2 DEF card_copies, Shape
<1>4. CASE card_breaks
  <2>1. Event("break") \in CardMsg
    BY EventShape
  <2>2. c2h' \in Seq(CardMsg) /\ BoundShape'
    BY <1>4, <2>1, AppendTo, ListAssumption DEF card_breaks, Shape, BoundShape
  <2> QED
    BY <1>0, <1>4, <2>2 DEF card_breaks, Shape
<1> QED
  BY <1>1, <1>2, <1>3, <1>4 DEF Card

LEMMA ShapeStarts == Init => Shape
<1> SUFFICES ASSUME Init PROVE Shape
  OBVIOUS
<1>1. LocksShape
  BY DEF Init, HostResInit, LocksShape
<1>2. SchedOK
  BY VecShape DEF Init, Idle, SchedOK
<1>3. ListShape
  <2>1. [state |-> "cleared", n |-> 0, failed |-> <<>>]
           \in [state : {"cleared", "started", "completed"}, n : Nat, failed : Seq(Res)]
    OBVIOUS
  <2> QED
    BY <2>1 DEF Init, ListShape
<1>5. CallsShape
  BY DEF Init, CallsShape
<1>6. RespShape
  BY DEF Init, RespShape
<1>4. CardShape /\ BoundShape
  BY VecShape, ListAssumption DEF Init, NoRun, CardShape, BoundShape
<1> QED
  BY <1>1, <1>2, <1>3, <1>4, <1>5, <1>6 DEF Init, Shape

LEMMA ShapeKept == ASSUME Shape, [Next]_vars PROVE Shape'
<1>1. CASE UNCHANGED vars
  BY <1>1, Stays DEF vars, userVars, Shape
<1>2. CASE Next
  BY <1>2, SchedShape, UserShape, RespondShape, CardKeepsShape DEF Next, UserStep
<1> QED
  BY <1>1, <1>2

-----------------------------------------------------------------------------
(***************************************************************************)
(* Counters                                                                *)
(***************************************************************************)

\* A resource counts its entries in the list of failed resources.
FailedExact ==
    /\ m_failed_copy_ops \in [Res -> Nat]
    /\ \A r \in Res : m_failed_copy_ops[r] = Count(m_errorList.failed, {r})

AddEvents == {e \in CardMsg : e.calls = <<"addError">>}
AddNow == IF calls = <<"addError">> THEN 1 ELSE 0

\* Nobody knows of more failures than there were.
CountsBound ==
    /\ m_failed_commands + Count(c2h, AddEvents) + AddNow <= fails
    /\ cardErr <= fails /\ m_errorList.n <= fails
    /\ \A k \in DOMAIN c2h : c2h[k].n <= fails

LEMMA CallsDiffer == <<"addError">> # <<"complete">> /\ <<"addError">> # <<>> /\ <<"complete">> # <<>>
<1>1. <<"addError">>[1] = "addError" /\ <<"complete">>[1] = "complete"
  OBVIOUS
<1>2. Len(<<"addError">>) = 1 /\ Len(<<"complete">>) = 1 /\ Len(<<>>) = 0
  OBVIOUS
<1> QED
  BY <1>1, <1>2

LEMMA FailedSame ==
    ASSUME FailedExact, UNCHANGED m_failed_copy_ops, m_errorList'.failed = m_errorList.failed
    PROVE  FailedExact'
BY DEF FailedExact, Count

LEMMA FailedOne ==
    ASSUME Shape, FailedExact, release_copy
    PROVE  FailedExact'
<1> DEFINE c == Head(post).c
           failed == Head(post).failed /\ m_scheduled[c]
<1>1. c \in Copy
  <2>1. Head(post) \in PostItem
    BY TailOf DEF release_copy, Shape, RespShape
  <2> QED
    BY <2>1 DEF PostItem
<1>2. /\ CopyRes[c] \in Res /\ m_errorList.failed \in Seq(Res)
      /\ m_errorList \in [state : {"cleared", "started", "completed"}, n : Nat, failed : Seq(Res)]
  BY <1>1, ListAssumption DEF Shape, ListShape
<1>3. /\ m_failed_copy_ops' = IF failed THEN [m_failed_copy_ops EXCEPT ![CopyRes[c]] = @ + 1] ELSE m_failed_copy_ops
      /\ m_errorList' = IF failed THEN [m_errorList EXCEPT !.failed = Append(@, CopyRes[c])] ELSE m_errorList
  BY DEF release_copy
<1> HIDE DEF failed, c
<1>4. CASE failed
  <2>1. m_errorList'.failed = Append(m_errorList.failed, CopyRes[c])
    BY <1>2, <1>3, <1>4
  <2>2. \A r \in Res : Count(m_errorList'.failed, {r})
                          = Count(m_errorList.failed, {r}) + IF CopyRes[c] \in {r} THEN 1 ELSE 0
    BY <1>2, <2>1, CountAppend
  <2>3. \A r \in Res : Count(m_errorList.failed, {r}) \in Nat
    BY <1>2, CountType
  <2>4. /\ m_failed_copy_ops' \in [Res -> Nat]
        /\ \A r \in Res : m_failed_copy_ops'[r] = IF r = CopyRes[c] THEN m_failed_copy_ops[r] + 1 ELSE m_failed_copy_ops[r]
    BY <1>2, <1>3, <1>4 DEF FailedExact
  <2>5. \A r \in Res : m_failed_copy_ops'[r] = Count(m_errorList'.failed, {r})
    <3> SUFFICES ASSUME NEW r \in Res PROVE m_failed_copy_ops'[r] = Count(m_errorList'.failed, {r})
      OBVIOUS
    <3>1. m_failed_copy_ops[r] = Count(m_errorList.failed, {r}) /\ m_failed_copy_ops[r] \in Nat
      BY DEF FailedExact
    <3>2. Count(m_errorList'.failed, {r}) = Count(m_errorList.failed, {r}) + IF CopyRes[c] \in {r} THEN 1 ELSE 0
      BY <2>2
    <3>3. m_failed_copy_ops'[r] = IF r = CopyRes[c] THEN m_failed_copy_ops[r] + 1 ELSE m_failed_copy_ops[r]
      BY <2>4
    <3> HIDE DEF FailedExact
    <3>4. CASE r = CopyRes[c]
      BY <3>1, <3>2, <3>3, <3>4
    <3>5. CASE r # CopyRes[c]
      BY <3>1, <3>2, <3>3, <3>5
    <3> QED
      BY <3>4, <3>5
  <2> QED
    BY <2>4, <2>5 DEF FailedExact, Count
<1>5. CASE ~failed
  BY <1>3, <1>5, FailedSame
<1> QED
  BY <1>4, <1>5

LEMMA FailedNone ==
    ASSUME Shape, FailedExact, clearRequestSucceeded
    PROVE  FailedExact'
<1>1. m_errorList.failed \in Seq(Res)
  BY DEF Shape, ListShape
<1>2. \A r \in Res : Count(m_errorList.failed, {r}) \in Nat
  BY <1>1, CountType
<1>3. \A r \in Res : {k \in DOMAIN m_errorList.failed : m_errorList.failed[k] = r}
                       = {k \in DOMAIN m_errorList.failed : m_errorList.failed[k] \in {r}}
  OBVIOUS
<1>4. \A r \in Res : Cardinality({k \in DOMAIN m_errorList.failed : m_errorList.failed[k] = r})
                        = Count(m_errorList.failed, {r})
  BY <1>3 DEF Count
<1>5. \A r \in Res : m_failed_copy_ops[r] - Cardinality({k \in DOMAIN m_errorList.failed : m_errorList.failed[k] = r}) = 0
  <2> SUFFICES ASSUME NEW r \in Res
               PROVE  m_failed_copy_ops[r] - Cardinality({k \in DOMAIN m_errorList.failed : m_errorList.failed[k] = r}) = 0
    OBVIOUS
  <2> DEFINE n == Cardinality({k \in DOMAIN m_errorList.failed : m_errorList.failed[k] = r})
  <2>1. n = Count(m_errorList.failed, {r}) /\ m_failed_copy_ops[r] = Count(m_errorList.failed, {r})
    BY <1>4 DEF FailedExact
  <2>2. Count(m_errorList.failed, {r}) \in Nat
    BY <1>2
  <2> HIDE DEF n
  <2>3. m_failed_copy_ops[r] - n = 0
    BY <2>1, <2>2
  <2> QED
    BY <2>3 DEF n
<1>6. m_failed_copy_ops' \in [Res -> Nat] /\ \A r \in Res : m_failed_copy_ops'[r] = 0
  BY <1>5 DEF clearRequestSucceeded
<1>7. m_errorList'.failed = <<>>
  BY DEF clearRequestSucceeded
<1>8. \A r \in Res : Count(<<>>, {r}) = 0
  <2> SUFFICES ASSUME NEW r \in Res PROVE Count(<<>>, {r}) = 0
    OBVIOUS
  <2>1. {k \in DOMAIN <<>> : <<>>[k] \in {r}} = {}
    OBVIOUS
  <2>2. Cardinality({}) = 0
    BY FS_EmptySet
  <2> QED
    BY <2>1, <2>2 DEF Count
<1>9. \A r \in Res : m_failed_copy_ops'[r] = Count(m_errorList'.failed, {r})
  BY <1>6, <1>7, <1>8
<1> QED
  BY <1>6, <1>9 DEF FailedExact, Count

\* A step that neither counts a failure nor sends an event of one.
LEMMA CountsStay ==
    ASSUME Shape, Shape', CountsBound, UNCHANGED <<c2h, calls, cardErr>>,
           m_failed_commands' <= m_failed_commands, m_errorList'.n <= m_errorList.n, fails' >= fails
    PROVE  CountsBound'
<1>1. /\ m_failed_commands \in Nat /\ m_failed_commands' \in Nat /\ m_errorList.n \in Nat /\ m_errorList'.n \in Nat
      /\ fails \in Nat /\ fails' \in Nat /\ cardErr \in Nat /\ Count(c2h, AddEvents) \in Nat /\ AddNow \in Nat
      /\ \A k \in DOMAIN c2h : c2h[k].n \in Nat
  <2>1. /\ m_failed_commands \in Nat /\ m_failed_commands' \in Nat /\ m_errorList.n \in Nat /\ m_errorList'.n \in Nat
        /\ cardErr \in Nat
    BY DEF Shape, ListShape, CardShape
  <2>2. fails \in Nat /\ fails' \in Nat
    BY ListAssumption DEF Shape, BoundShape
  <2>3. c2h \in Seq(CardMsg)
    BY DEF Shape
  <2>4. Count(c2h, AddEvents) \in Nat
    BY <2>3, CountType
  <2>5. \A k \in DOMAIN c2h : c2h[k] \in CardMsg
    BY <2>3, LenProperties, ElementOfSeq
  <2>6. \A k \in DOMAIN c2h : c2h[k].n \in Nat
    BY <2>5 DEF CardMsg
  <2> QED
    BY <2>1, <2>2, <2>4, <2>6 DEF AddNow
<1>2. Count(c2h, AddEvents)' = Count(c2h, AddEvents) /\ AddNow' = AddNow
  BY DEF Count, AddEvents, AddNow
<1>3. /\ m_failed_commands' + Count(c2h, AddEvents) + AddNow <= fails'
      /\ cardErr' <= fails' /\ m_errorList'.n <= fails'
  BY <1>1 DEF CountsBound
<1>4. \A k \in DOMAIN c2h : c2h[k].n <= fails'
  BY <1>1 DEF CountsBound
<1> QED
  BY <1>2, <1>3, <1>4 DEF CountsBound

\* An event is handled: what it adds is due in the response thread.
LEMMA CountsReceive ==
    ASSUME Shape, Shape', CountsBound, NEW o, Receive(o), UNCHANGED <<m_failed_commands, cardErr, fails>>,
           calls' = Head(c2h).calls \/ (calls' = <<"complete">> /\ Head(c2h).calls = <<>>),
           m_errorList'.n <= m_errorList.n \/ m_errorList'.n = Head(c2h).n
    PROVE  CountsBound'
<1>1. /\ c2h \in Seq(CardMsg) /\ c2h # <<>> /\ c2h' = Tail(c2h) /\ Head(c2h) \in CardMsg /\ calls = <<>>
  BY Received DEF Receive, respIdle, Shape
<1>2. Count(c2h, AddEvents) = Count(c2h', AddEvents) + (IF Head(c2h) \in AddEvents THEN 1 ELSE 0)
  BY <1>1, CountTail
<1>3. Count(c2h, AddEvents)' = Count(c2h', AddEvents) /\ Count(c2h', AddEvents) \in Nat /\ Count(c2h, AddEvents) \in Nat
  <2>1. c2h' \in Seq(CardMsg)
    BY DEF Shape
  <2> QED
    BY <1>1, <2>1, CountType DEF Count, AddEvents
<1>4. AddNow = 0 /\ AddNow' = IF Head(c2h) \in AddEvents THEN 1 ELSE 0
  <2>1. AddNow = 0
    BY <1>1, CallsDiffer DEF AddNow
  <2>2. calls' = <<"addError">> <=> Head(c2h) \in AddEvents
    BY <1>1, CallsDiffer DEF AddEvents
  <2> QED
    BY <2>1, <2>2 DEF AddNow
<1>5. /\ m_failed_commands \in Nat /\ m_errorList.n \in Nat /\ m_errorList'.n \in Nat
      /\ fails \in Nat /\ cardErr \in Nat /\ Head(c2h).n \in Nat
  <2>1. /\ m_failed_commands \in Nat /\ m_errorList.n \in Nat /\ m_errorList'.n \in Nat
    BY DEF Shape, ListShape
  <2>2. fails \in Nat /\ cardErr \in Nat
    BY ListAssumption DEF Shape, BoundShape, CardShape
  <2> QED
    BY <2>1, <2>2, Received
<1>6. /\ Head(c2h).n <= fails /\ \A k \in DOMAIN c2h' : c2h'[k].n <= fails
  <2>1. /\ Head(c2h) = c2h[1] /\ Len(c2h) \in Nat \ {0}
        /\ DOMAIN c2h = 1 .. Len(c2h) /\ DOMAIN c2h' = 1 .. Len(c2h) - 1
        /\ \A k \in 1 .. Len(c2h) - 1 : c2h'[k] = c2h[k + 1]
    BY Received
  <2>2. \A k \in 1 .. Len(c2h) : c2h[k].n <= fails
    BY <2>1 DEF CountsBound
  <2>3. \A k \in 1 .. Len(c2h) - 1 : k + 1 \in 1 .. Len(c2h)
    BY <2>1
  <2> QED
    BY <2>1, <2>2, <2>3
<1>7. m_errorList'.n <= fails
  BY <1>5, <1>6 DEF CountsBound
<1>8. m_failed_commands + Count(c2h', AddEvents) + (IF Head(c2h) \in AddEvents THEN 1 ELSE 0) <= fails
  BY <1>2, <1>3, <1>4, <1>5 DEF CountsBound
<1> QED
  BY <1>3, <1>4, <1>6, <1>7, <1>8 DEF CountsBound

\* The card reports something, e, other than a failure.
LEMMA CountsSend ==
    ASSUME Shape, Shape', CountsBound, NEW e \in CardMsg, e \notin AddEvents, e.n <= fails, c2h' = Append(c2h, e),
           cardErr' <= cardErr, UNCHANGED <<calls, m_failed_commands, m_errorList, fails>>
    PROVE  CountsBound'
<1>1. c2h \in Seq(CardMsg) /\ c2h' \in Seq(CardMsg)
  BY DEF Shape
<1>2. Count(c2h, AddEvents)' = Count(c2h, AddEvents)
  <2>1. Count(c2h', AddEvents) = Count(c2h, AddEvents)
    BY <1>1, CountAppend, CountType
  <2> QED
    BY <2>1 DEF Count, AddEvents
<1>3. cardErr \in Nat /\ cardErr' \in Nat /\ fails \in Nat
  BY ListAssumption DEF Shape, CardShape, BoundShape
<1>4. \A k \in DOMAIN c2h' : c2h'[k].n <= fails
  BY <1>1, AppendTo DEF CountsBound
<1>5. AddNow' = AddNow
  BY DEF AddNow
<1> QED
  BY <1>2, <1>3, <1>4, <1>5 DEF CountsBound

\* A failed entry is counted once.
LEMMA CountsRun ==
    ASSUME Shape, Shape', CountsBound, NEW ok \in BOOLEAN, card_runs(ok)
    PROVE  CountsBound'
<1> DEFINE two == run.i = Len(Vec) /\ (run.failed \/ ~ok)
           q == Append(c2h, Ran(ok))
<1>1. /\ Ran(ok) \in CardMsg /\ AllRan \in CardMsg /\ Ran(ok).n = 0 /\ AllRan.n = 0
      /\ (Ran(ok) \in AddEvents <=> ~ok)
      /\ AllRan \notin AddEvents
  <2>1. /\ Ran(ok) \in CardMsg /\ Ran(ok).n = 0
        /\ Ran(ok).calls = IF ~ok THEN <<"addError">>
                           ELSE IF run.i = Len(Vec) /\ ~run.failed THEN <<"complete">> ELSE <<>>
    BY RunsEvents
  <2>2. Ran(ok).calls = <<"addError">> <=> ~ok
    BY <2>1, CallsDiffer
  <2> QED
    BY <2>1, <2>2, EventShape, CallsDiffer DEF AddEvents
<1>2. c2h \in Seq(CardMsg) /\ q \in Seq(CardMsg) /\ c2h' = IF two THEN Append(q, AllRan) ELSE q
  BY <1>1, RunsEvents, AppendTo DEF Shape
<1>3. Count(q, AddEvents) = Count(c2h, AddEvents) + (IF ~ok THEN 1 ELSE 0) /\ Count(c2h, AddEvents) \in Nat
  BY <1>1, <1>2, CountAppend, CountType
<1> HIDE DEF q, two
<1>4. Count(c2h', AddEvents) = Count(c2h, AddEvents) + (IF ~ok THEN 1 ELSE 0)
  <2>1. Count(q, AddEvents) \in Nat
    BY <1>3
  <2>2. Count(Append(q, AllRan), AddEvents) = Count(q, AddEvents)
    BY <1>1, <1>2, <2>1, CountAppend
  <2> QED
    BY <1>2, <1>3, <2>2
<1>5. Count(c2h, AddEvents)' = Count(c2h', AddEvents)
  BY DEF Count, AddEvents
<1>6. /\ cardErr \in Nat /\ fails \in Nat /\ m_failed_commands \in Nat /\ m_errorList.n \in Nat /\ AddNow \in Nat
      /\ fails' = fails + (IF ~ok THEN 1 ELSE 0) /\ cardErr' = cardErr + (IF ~ok THEN 1 ELSE 0)
  <2>1. /\ cardErr \in Nat /\ fails \in Nat /\ m_failed_commands \in Nat /\ m_errorList.n \in Nat
    BY ListAssumption DEF Shape, CardShape, BoundShape, ListShape
  <2> QED
    BY <2>1 DEF card_runs, AddNow
<1>7. UNCHANGED <<m_failed_commands, m_errorList, AddNow>>
  BY DEF card_runs, HostVars, listVars, respVars, AddNow
<1>8. \A k \in DOMAIN c2h' : c2h'[k].n <= fails'
  <2>1. \A k \in DOMAIN c2h' : (k \in DOMAIN c2h /\ c2h'[k] = c2h[k]) \/ c2h'[k] = Ran(ok) \/ c2h'[k] = AllRan
    BY RunsEvents
  <2>2. \A k \in DOMAIN c2h : c2h[k].n \in Nat
    <3>1. \A k \in DOMAIN c2h : c2h[k] \in CardMsg
      BY <1>2, LenProperties, ElementOfSeq
    <3> QED
      BY <3>1 DEF CardMsg
  <2>3. fails <= fails' /\ fails' \in Nat
    BY <1>6
  <2>4. \A k \in DOMAIN c2h : c2h[k].n <= fails'
    BY <1>6, <2>2, <2>3 DEF CountsBound
  <2> QED
    BY <1>1, <2>1, <2>3, <2>4
<1>9. m_failed_commands + Count(c2h', AddEvents) + AddNow <= fails'
  BY <1>3, <1>4, <1>6 DEF CountsBound
<1>10. cardErr' <= fails' /\ m_errorList.n <= fails'
  BY <1>6 DEF CountsBound
<1> QED
  BY <1>5, <1>7, <1>8, <1>9, <1>10 DEF CountsBound

CountInv == FailedExact /\ CountsBound

\* The steps of the application change no counter but clearErrors, which resets one.
LEMMA CountsApp ==
    ASSUME Shape, Shape', CountInv, schedule \/ Schedule \/ UserStep
    PROVE  CountInv'
<1>a. /\ UNCHANGED listVars => UNCHANGED <<m_failed_commands, m_errorList>>
      /\ UNCHANGED respVars => UNCHANGED calls
      /\ UNCHANGED cardVars => UNCHANGED cardErr
      /\ UNCHANGED histVars => UNCHANGED fails
      /\ UNCHANGED resVars => UNCHANGED m_failed_copy_ops
      /\ UNCHANGED Keep => /\ UNCHANGED resVars /\ UNCHANGED respVars
                           /\ UNCHANGED c2h /\ UNCHANGED cardVars /\ UNCHANGED histVars
  BY DEF listVars, respVars, cardVars, histVars, resVars, hostResVars, Keep
<1>b. /\ m_errorList \in [state : {"cleared", "started", "completed"}, n : Nat, failed : Seq(Res)]
      /\ m_errorList.n \in Nat /\ m_failed_commands \in Nat /\ fails \in Nat
  BY ListAssumption DEF Shape, ListShape, BoundShape
<1>1. /\ UNCHANGED <<c2h, calls, cardErr, m_failed_copy_ops>>
      /\ m_failed_commands' <= m_failed_commands /\ m_errorList'.n <= m_errorList.n /\ fails' >= fails
      /\ m_errorList'.failed = m_errorList.failed
  <2>1. CASE schedule \/ schedule_can \/ schedule_next \/ schedule_busy \/ schedule_send \/ schedule_undo_next \/ schedule_undone
    BY <1>a, <1>b, <2>1 DEF schedule, schedule_can, schedule_next, schedule_busy, schedule_send, schedule_undo_next, schedule_undone
  <2>2. CASE schedule_prepare
    BY <1>a, <1>b, <2>2 DEF schedule_prepare, preSchedule
  <2>3. CASE schedule_send_fail
    BY <1>a, <1>b, <2>3 DEF schedule_send_fail
  <2>4. CASE schedule_undo
    BY <1>a, <1>b, <2>4 DEF schedule_undo
  <2>5. CASE wait_start \/ wait_test \/ wait_timeout \/ wait_late \/ wait_queried \/ clearErrors_done
    BY <1>a, <1>b, <2>5 DEF wait_start, wait_test, wait_timeout, wait_late, wait_queried, clearErrors_done
  <2>6. CASE wait_over
    <3>1. UNCHANGED Keep /\ UNCHANGED m_failed_commands
      BY <2>6 DEF wait_over
    <3>2. m_errorList'.n <= m_errorList.n /\ m_errorList'.failed = m_errorList.failed
      <4>1. CASE m_failed_commands = 0
        BY <1>b, <2>6, <4>1 DEF wait_over
      <4>2. CASE m_failed_commands # 0
        <5>1. m_errorList' = [m_errorList EXCEPT !.state = "started", !.n = 0]
          BY <2>6, <4>2 DEF wait_over
        <5>2. m_errorList'.n = 0 /\ m_errorList'.failed = m_errorList.failed
          BY <1>b, <5>1
        <5> QED
          BY <1>b, <5>2
      <4> QED
        BY <4>1, <4>2
    <3> QED
      BY <1>a, <1>b, <3>1, <3>2
  <2>7. CASE clearErrors
    <3>1. m_errorList'.n = m_errorList.n /\ m_errorList'.failed = m_errorList.failed
      BY <1>b, <2>7 DEF clearErrors
    <3> QED
      BY <1>a, <1>b, <2>7, <3>1 DEF clearErrors
  <2>8. ASSUME NEW c \in Solo, schedule_copy(c)
        PROVE  UNCHANGED <<c2h, calls, cardErr, m_failed_copy_ops, m_failed_commands, m_errorList, fails>>
    BY <1>a, <2>8 DEF schedule_copy, preSchedule
  <2>9. ASSUME NEW b \in BOOLEAN, finalize(b)
        PROVE  UNCHANGED <<c2h, calls, cardErr, m_failed_copy_ops, m_failed_commands, m_errorList, fails>>
    BY <1>a, <2>9 DEF finalize
  <2>10. CASE recover
    BY <1>a, <1>b, <2>10 DEF recover
  <2>11. CASE (\E c \in Solo : schedule_copy(c)) \/ \E b \in BOOLEAN : finalize(b)
    BY <1>b, <2>8, <2>9, <2>11
  <2> QED
    BY <2>1, <2>2, <2>3, <2>4, <2>5, <2>6, <2>7, <2>10, <2>11 DEF Schedule, UserStep
<1> QED
  BY <1>1, FailedSame, CountsStay DEF CountInv

LEMMA CountsRespond ==
    ASSUME Shape, Shape', CountInv, Respond
    PROVE  CountInv'
<1>a. /\ UNCHANGED listVars => UNCHANGED <<m_failed_commands, m_errorList>>
      /\ UNCHANGED cardVars => UNCHANGED cardErr
      /\ UNCHANGED histVars => UNCHANGED fails
      /\ UNCHANGED resVars => UNCHANGED m_failed_copy_ops
  BY DEF listVars, cardVars, histVars, resVars, hostResVars
<1>b. /\ m_errorList \in [state : {"cleared", "started", "completed"}, n : Nat, failed : Seq(Res)]
      /\ m_errorList.n \in Nat /\ m_failed_commands \in Nat /\ fails \in Nat /\ cardErr \in Nat
  BY ListAssumption DEF Shape, ListShape, BoundShape, CardShape
<1>1. CASE list_call
  <2>1. /\ UNCHANGED <<c2h, cardErr, fails, m_errorList, m_failed_copy_ops>> /\ calls' = <<>>
        /\ \/ calls = <<"complete">> /\ m_failed_commands' = m_failed_commands
           \/ calls = <<"addError">> /\ m_failed_commands' = m_failed_commands + 1
    BY <1>a, <1>1, TailOne DEF list_call, Shape, RespShape
  <2>2. Count(c2h, AddEvents)' = Count(c2h, AddEvents) /\ Count(c2h, AddEvents) \in Nat
    BY <2>1, CountType DEF Count, AddEvents, Shape
  <2>3. m_failed_commands' + AddNow' = m_failed_commands + AddNow /\ AddNow' = 0 /\ AddNow \in Nat
    BY <1>b, <2>1, CallsDiffer DEF AddNow
  <2>4. m_failed_commands' + Count(c2h, AddEvents) + AddNow' <= fails
    BY <1>b, <2>1, <2>2, <2>3 DEF CountInv, CountsBound
  <2>5. CountsBound'
    BY <2>1, <2>2, <2>4 DEF CountInv, CountsBound
  <2> QED
    BY <2>1, <2>5, FailedSame DEF CountInv
<1>2. CASE release_copy
  <2>1. UNCHANGED <<c2h, calls, cardErr, m_failed_commands, fails>>
    BY <1>a, <1>2 DEF release_copy
  <2>2. m_errorList'.n = m_errorList.n
    BY <1>b, <1>2 DEF release_copy
  <2> QED
    BY <1>2, <1>b, <2>1, <2>2, CountsStay, FailedOne DEF CountInv
<1>3. CASE executed
  <2>1. /\ Receive("executed") /\ UNCHANGED <<m_failed_commands, cardErr, fails, m_failed_copy_ops, m_errorList>>
        /\ calls' = Head(c2h).calls
    BY <1>a, <1>3 DEF executed
  <2> QED
    BY <1>b, <2>1, CountsReceive, FailedSame DEF CountInv
<1>4. CASE context_fatal
  <2>1. /\ Receive("break") /\ UNCHANGED <<m_failed_commands, cardErr, fails, m_failed_copy_ops, m_errorList>>
        /\ calls' = <<"complete">> /\ Head(c2h).calls = <<>>
    BY <1>a, <1>4, Received DEF context_fatal
  <2> QED
    BY <1>b, <2>1, CountsReceive, FailedSame DEF CountInv
<1>5. CASE errors_arrive
  <2>1. /\ Receive("errors") /\ UNCHANGED <<m_failed_commands, cardErr, fails, m_failed_copy_ops, calls>>
        /\ calls = <<>> /\ Head(c2h).calls = <<>>
    BY <1>a, <1>5, Received DEF errors_arrive, respVars, Receive, respIdle
  <2>2. (m_errorList'.n = m_errorList.n \/ m_errorList'.n = Head(c2h).n) /\ m_errorList'.failed = m_errorList.failed
    BY <1>b, <1>5 DEF errors_arrive
  <2> QED
    BY <1>b, <2>1, <2>2, Received, CountsReceive, FailedSame DEF CountInv
<1>6. CASE clearRequestSucceeded
  <2>1. /\ Receive("cleared") /\ UNCHANGED <<m_failed_commands, cardErr, fails, calls>>
        /\ calls = <<>> /\ Head(c2h).calls = <<>> /\ m_errorList'.n = 0
    BY <1>a, <1>6, Received DEF clearRequestSucceeded, respVars, Receive, respIdle
  <2> QED
    BY <1>b, <1>6, <2>1, CountsReceive, FailedNone DEF CountInv
<1> QED
  BY <1>1, <1>2, <1>3, <1>4, <1>5, <1>6 DEF Respond

LEMMA CountsCard ==
    ASSUME Shape, Shape', CountInv, Card \/ card_breaks
    PROVE  CountInv'
<1>a. UNCHANGED HostVars => UNCHANGED <<calls, m_failed_commands, m_errorList, m_failed_copy_ops>>
  BY DEF HostVars, respVars, listVars, resVars, hostResVars
<1>b. cardErr \in Nat /\ fails \in Nat /\ cardErr <= fails /\ 0 <= fails
  BY ListAssumption DEF Shape, CardShape, BoundShape, CountInv, CountsBound
<1>c. /\ Event("cleared") \in CardMsg \ AddEvents /\ Event("cleared").n = 0
      /\ Event("break") \in CardMsg \ AddEvents /\ Event("break").n = 0
      /\ [Event("errors") EXCEPT !.n = cardErr] \in CardMsg \ AddEvents
      /\ [Event("errors") EXCEPT !.n = cardErr].n = cardErr
      /\ \A c \in Copy : /\ [Event("executed") EXCEPT !.cs = <<c>>] \in CardMsg \ AddEvents
                          /\ [Event("executed") EXCEPT !.cs = <<c>>].n = 0
  BY <1>b, EventShape, CallsDiffer DEF AddEvents
<1>1. CASE card_takes
  <2>1. /\ UNCHANGED <<calls, m_failed_commands, m_errorList, m_failed_copy_ops, fails>>
        /\ \/ c2h' = c2h /\ cardErr' = cardErr
           \/ c2h' = Append(c2h, Event("cleared")) /\ cardErr' = 0
           \/ c2h' = Append(c2h, [Event("errors") EXCEPT !.n = cardErr]) /\ cardErr' = cardErr
    BY <1>a, <1>1, Taken DEF card_takes, histVars
  <2>2. m_errorList.n \in Nat /\ m_failed_commands \in Nat
    BY DEF Shape, ListShape
  <2>3. CASE c2h' = c2h /\ cardErr' = cardErr
    BY <1>b, <2>1, <2>2, <2>3, CountsStay, FailedSame DEF CountInv
  <2>4. CASE c2h' = Append(c2h, Event("cleared")) /\ cardErr' = 0
    BY <1>b, <1>c, <2>1, <2>4, CountsSend, FailedSame DEF CountInv
  <2>5. CASE c2h' = Append(c2h, [Event("errors") EXCEPT !.n = cardErr]) /\ cardErr' = cardErr
    <3> DEFINE e == [Event("errors") EXCEPT !.n = cardErr]
    <3>1. e \in CardMsg /\ e \notin AddEvents /\ e.n <= fails /\ c2h' = Append(c2h, e)
      BY <1>b, <1>c, <2>5
    <3> HIDE DEF e
    <3> QED
      BY <1>b, <2>1, <2>5, <3>1, CountsSend, FailedSame DEF CountInv
  <2> QED
    BY <2>1, <2>3, <2>4, <2>5
<1>2. ASSUME NEW ok \in BOOLEAN, card_runs(ok) PROVE CountInv'
  <2>1. UNCHANGED <<m_failed_copy_ops, m_errorList>>
    BY <1>a, <1>2 DEF card_runs
  <2> QED
    BY <1>2, <2>1, CountsRun, FailedSame DEF CountInv
<1>3. ASSUME NEW c \in Copy, card_copies(c) PROVE CountInv'
  <2> DEFINE e == [Event("executed") EXCEPT !.cs = <<c>>]
  <2>1. e \in CardMsg /\ e \notin AddEvents /\ e.n <= fails /\ c2h' = Append(c2h, e)
    BY <1>3, <1>b, <1>c DEF card_copies
  <2>2. UNCHANGED <<calls, m_failed_commands, m_errorList, m_failed_copy_ops, cardErr, fails>>
    BY <1>3, <1>a DEF card_copies, histVars
  <2> HIDE DEF e
  <2> QED
    BY <1>b, <2>1, <2>2, CountsSend, FailedSame DEF CountInv
<1>4. CASE card_breaks
  <2>1. /\ UNCHANGED <<calls, m_failed_commands, m_errorList, m_failed_copy_ops, cardErr, fails>>
        /\ c2h' = Append(c2h, Event("break"))
    BY <1>4, <1>a DEF card_breaks, cardVars
  <2> QED
    BY <1>b, <1>c, <2>1, CountsSend, FailedSame DEF CountInv
<1> QED
  BY <1>1, <1>2, <1>3, <1>4 DEF Card

LEMMA CountsStart == Init => CountInv
<1> SUFFICES ASSUME Init PROVE CountInv
  OBVIOUS
<1>1. \A S : Count(<<>>, S) = 0
  <2> SUFFICES ASSUME NEW S PROVE Count(<<>>, S) = 0
    OBVIOUS
  <2>1. {k \in DOMAIN <<>> : <<>>[k] \in S} = {}
    OBVIOUS
  <2> QED
    BY <2>1, FS_EmptySet DEF Count
<1>2. FailedExact
  BY <1>1 DEF Init, HostResInit, FailedExact
<1>3. AddNow = 0
  BY CallsDiffer DEF Init, AddNow
<1>4. Count(c2h, AddEvents) = 0
  BY <1>1 DEF Init
<1>5. CountsBound
  BY <1>3, <1>4 DEF Init, CountsBound
<1> QED
  BY <1>2, <1>5 DEF CountInv

LEMMA CountsKept == ASSUME Shape, Shape', CountInv, [Next]_vars PROVE CountInv'
<1>1. CASE UNCHANGED vars
  BY <1>1 DEF vars, resVars, hostResVars, listVars, respVars, cardVars, histVars,
              CountInv, FailedExact, CountsBound, Count, AddEvents, AddNow
<1>2. CASE Next
  BY <1>2, CountsApp, CountsRespond, CountsCard DEF Next, UserStep
<1> QED
  BY <1>1, <1>2

LEMMA ShapeIsType == Shape /\ CountInv => TypeOK
<1> SUFFICES ASSUME Shape, CountInv PROVE TypeOK
  OBVIOUS
<1>1. HostResTypeOK
  BY DEF Shape, LocksShape, CountInv, FailedExact, HostResTypeOK
<1>2. /\ m_failed_commands \in 0 .. MaxFails /\ m_errorList.n \in 0 .. MaxFails /\ cardErr \in 0 .. MaxFails
  <2>1. /\ m_failed_commands \in Nat /\ m_errorList.n \in Nat /\ cardErr \in Nat /\ fails \in 0 .. MaxFails
        /\ MaxFails \in Nat /\ Count(c2h, AddEvents) \in Nat /\ AddNow \in Nat
    BY ListAssumption, CountType DEF Shape, ListShape, CardShape, BoundShape, AddNow
  <2>2. m_failed_commands + Count(c2h, AddEvents) + AddNow <= fails /\ cardErr <= fails /\ m_errorList.n <= fails
    BY DEF CountInv, CountsBound
  <2> QED
    BY <2>1, <2>2
<1>3. /\ m_errorList.state \in {"cleared", "started", "completed"}
      /\ m_in_flight \in BOOLEAN /\ m_waitq \in {"free", "sched", "clear"}
  BY DEF Shape, ListShape
<1>4. /\ sched.pc \in {"idle", "can", "prepare", "back", "all"} /\ sched.i \in 0 .. Len(Vec) + 1
      /\ (sched.i \in DOMAIN Vec => /\ sched.j \in 1 .. Len(Vec[sched.i]) + 1
                                    /\ sched.n \in 0 .. Len(Vec[sched.i]))
  BY DEF Shape, SchedOK
<1>5. /\ run.i \in 0 .. Len(Vec) /\ solo \subseteq Solo
  BY DEF Shape, CardShape
<1> QED
  BY <1>1, <1>2, <1>3, <1>4, <1>5 DEF TypeOK, Shape, LocksShape, CallsShape, BoundShape

\* Type correctness of the list, with or without a broken context: its counters
\* stay below the number of failures.
THEOREM ListTypeCorrect == Spec => []TypeOK
<1>1. Init => Shape /\ CountInv
  BY ShapeStarts, CountsStart
<1>2. (Shape /\ CountInv) /\ [Next]_vars => (Shape /\ CountInv)'
  BY ShapeKept, CountsKept
<1> QED
  BY <1>1, <1>2, ShapeIsType, PTL DEF Spec

-----------------------------------------------------------------------------
(***************************************************************************)
(* The stages of a run                                                     *)
(***************************************************************************)

Mine == {c \in Copy : \E i \in DOMAIN Vec : InEntry(c, i)}

\* What the application keeps to: a copy is in a list once, and is not scheduled
\* on its own as well.
ListDisciplined ==
    /\ \A i, k \in DOMAIN Vec : \A j \in DOMAIN Vec[i], l \in DOMAIN Vec[k] : Vec[i][j] = Vec[k][l] => i = k /\ j = l
    /\ Mine \cap Solo = {}

Completing == \E k \in DOMAIN c2h : c2h[k].calls = <<"complete">>
CallDue == calls = <<"complete">>

\* An event of the list, and what the response thread has to do for it.
OfList(e) == e.calls # <<>> \/ \E m \in DOMAIN e.cs : e.cs[m] \in Mine
ListEvents == \E k \in DOMAIN c2h : OfList(c2h[k])
ListPosts == calls # <<>> \/ \E p \in DOMAIN post : post[p].c \in Mine

NoBreak == m_critical_error = "none" /\ \A k \in DOMAIN c2h : c2h[k].op # "break"

OneRunMsg == \A k, l \in DOMAIN h2c : h2c[k].op = "run" /\ h2c[l].op = "run" => k = l

\* A list in flight is being prepared, queued, run, reported complete or about to
\* be completed: one of these, one at a time.
OneStage ==
    /\ m_in_flight <=> Preparing \/ RunQueued \/ run.i # 0 \/ Completing \/ CallDue
    /\ Preparing => ~RunQueued /\ run.i = 0 /\ ~Completing /\ ~CallDue
    /\ RunQueued => run.i = 0 /\ ~Completing /\ ~CallDue
    /\ run.i # 0 => ~Completing /\ ~CallDue
    /\ Completing => ~CallDue
    /\ sched.pc = "can" => ~m_in_flight

\* The report that the list is complete is the last event of a run.
CompleteLast == \A k, l \in DOMAIN c2h : c2h[k].calls = <<"complete">> /\ OfList(c2h[l]) => l <= k

LastEvent ==
    /\ CallDue => ~ListEvents
    /\ ListEvents => run.i # 0 \/ Completing
    /\ ListPosts => run.i # 0 \/ Completing \/ CallDue

StageInv == NoBreak /\ OneRunMsg /\ OneStage /\ CompleteLast /\ LastEvent

\* Messages to the card.
LEMMA SendOther ==
    ASSUME Shape, OneRunMsg, NEW m \in HostMsg, m.op # "run", h2c' = Append(h2c, m)
    PROVE  OneRunMsg' /\ (RunQueued' <=> RunQueued)
<1>1. /\ DOMAIN h2c' = 1 .. Len(h2c) + 1 /\ DOMAIN h2c = 1 .. Len(h2c) /\ Len(h2c) \in Nat
      /\ \A k \in 1 .. Len(h2c) : h2c'[k] = h2c[k]
      /\ h2c'[Len(h2c) + 1] = m
  BY AppendTo DEF Shape
<1>2. \A k \in DOMAIN h2c' : h2c'[k].op = "run" => k \in DOMAIN h2c /\ h2c[k].op = "run"
  BY <1>1
<1>3. \A k \in DOMAIN h2c : k \in DOMAIN h2c' /\ h2c'[k] = h2c[k]
  BY <1>1
<1>4. OneRunMsg'
  BY <1>2 DEF OneRunMsg
<1>5. RunQueued' <=> RunQueued
  BY <1>2, <1>3 DEF RunQueued
<1> QED
  BY <1>4, <1>5

LEMMA SendRun ==
    ASSUME Shape, ~RunQueued, h2c' = Append(h2c, [op |-> "run", c |-> <<>>])
    PROVE  OneRunMsg' /\ RunQueued'
<1> DEFINE m == [op |-> "run", c |-> <<>>]
<1>0. m \in HostMsg /\ m.op = "run"
  BY DEF HostMsg
<1> HIDE DEF m
<1>1. /\ DOMAIN h2c' = 1 .. Len(h2c) + 1 /\ DOMAIN h2c = 1 .. Len(h2c) /\ Len(h2c) \in Nat
      /\ \A k \in 1 .. Len(h2c) : h2c'[k] = h2c[k]
      /\ h2c'[Len(h2c) + 1] = m
  BY <1>0, AppendTo DEF Shape, m
<1>2. \A k \in DOMAIN h2c' : h2c'[k].op = "run" => k = Len(h2c) + 1
  BY <1>1 DEF RunQueued
<1>3. OneRunMsg'
  BY <1>2 DEF OneRunMsg
<1>4. RunQueued'
  BY <1>0, <1>1 DEF RunQueued
<1> QED
  BY <1>3, <1>4

LEMMA TakeMsg ==
    ASSUME Shape, OneRunMsg, card_takes
    PROVE  /\ OneRunMsg'
           /\ Head(h2c).op = "run" => RunQueued /\ ~RunQueued'
           /\ Head(h2c).op # "run" => (RunQueued' <=> RunQueued)
<1>1. /\ Head(h2c) = h2c[1] /\ Len(h2c) \in Nat \ {0}
      /\ DOMAIN h2c = 1 .. Len(h2c) /\ DOMAIN h2c' = 1 .. Len(h2c) - 1
      /\ \A k \in 1 .. Len(h2c) - 1 : h2c'[k] = h2c[k + 1]
  BY Taken
<1>2. \A k \in DOMAIN h2c' : k \in Nat \ {0} /\ k + 1 \in DOMAIN h2c /\ h2c'[k] = h2c[k + 1]
  BY <1>1
<1>3. \A k \in DOMAIN h2c : k = 1 \/ (k - 1 \in DOMAIN h2c' /\ h2c'[k - 1] = h2c[k])
  BY <1>1
<1>4. 1 \in DOMAIN h2c
  BY <1>1
<1>5. OneRunMsg'
  <2> SUFFICES ASSUME NEW k \in DOMAIN h2c', NEW l \in DOMAIN h2c', h2c'[k].op = "run", h2c'[l].op = "run"
               PROVE  k = l
    BY DEF OneRunMsg
  <2>1. k + 1 = l + 1
    BY <1>2 DEF OneRunMsg
  <2> QED
    BY <1>2, <2>1
<1>6. ASSUME Head(h2c).op = "run" PROVE RunQueued /\ ~RunQueued'
  <2>1. \A k \in DOMAIN h2c' : h2c'[k].op # "run"
    <3> SUFFICES ASSUME NEW k \in DOMAIN h2c', h2c'[k].op = "run" PROVE FALSE
      OBVIOUS
    <3>1. k + 1 = 1
      BY <1>1, <1>2, <1>4, <1>6 DEF OneRunMsg
    <3> QED
      BY <1>2, <3>1
  <2> QED
    BY <1>1, <1>4, <1>6, <2>1 DEF RunQueued
<1>7. ASSUME Head(h2c).op # "run" PROVE RunQueued' <=> RunQueued
  <2>1. RunQueued' => RunQueued
    BY <1>2 DEF RunQueued
  <2>2. RunQueued => RunQueued'
    <3> SUFFICES ASSUME NEW k \in DOMAIN h2c, h2c[k].op = "run" PROVE RunQueued'
      BY DEF RunQueued
    <3>1. k # 1
      BY <1>1, <1>7
    <3> QED
      BY <1>3, <3>1 DEF RunQueued
  <2> QED
    BY <2>1, <2>2
<1> QED
  BY <1>5, <1>6, <1>7

\* An event is taken from the channel.
LEMMA TakeEvent ==
    ASSUME Shape, CompleteLast, NEW o, Receive(o)
    PROVE  /\ CompleteLast'
           /\ Completing <=> Completing' \/ Head(c2h).calls = <<"complete">>
           /\ ListEvents <=> ListEvents' \/ OfList(Head(c2h))
           /\ Head(c2h).calls = <<"complete">> => ~ListEvents' /\ ~Completing'
<1>1. /\ Head(c2h) = c2h[1] /\ Len(c2h) \in Nat \ {0}
      /\ DOMAIN c2h = 1 .. Len(c2h) /\ DOMAIN c2h' = 1 .. Len(c2h) - 1
      /\ \A k \in 1 .. Len(c2h) - 1 : c2h'[k] = c2h[k + 1]
  BY Received
<1>2. \A k \in DOMAIN c2h' : k \in Nat \ {0} /\ k + 1 \in DOMAIN c2h /\ c2h'[k] = c2h[k + 1]
  BY <1>1
<1>3. \A k \in DOMAIN c2h : k = 1 \/ (k - 1 \in DOMAIN c2h' /\ c2h'[k - 1] = c2h[k])
  BY <1>1
<1>4. 1 \in DOMAIN c2h
  BY <1>1
<1>5. \A e : OfList(e)' <=> OfList(e)
  BY DEF OfList
<1>6. CompleteLast'
  <2> SUFFICES ASSUME NEW k \in DOMAIN c2h', NEW l \in DOMAIN c2h', c2h'[k].calls = <<"complete">>, OfList(c2h'[l])
               PROVE  l <= k
    BY DEF CompleteLast, OfList
  <2>1. l + 1 <= k + 1
    BY <1>2 DEF CompleteLast
  <2> QED
    BY <1>2, <2>1
<1>7. Completing <=> Completing' \/ Head(c2h).calls = <<"complete">>
  <2>1. Completing' => Completing
    BY <1>2 DEF Completing
  <2>2. Head(c2h).calls = <<"complete">> => Completing
    BY <1>1, <1>4 DEF Completing
  <2>3. Completing => Completing' \/ Head(c2h).calls = <<"complete">>
    BY <1>1, <1>3 DEF Completing
  <2> QED
    BY <2>1, <2>2, <2>3
<1>8. ListEvents <=> ListEvents' \/ OfList(Head(c2h))
  <2>1. ListEvents' => ListEvents
    BY <1>2 DEF ListEvents, OfList
  <2>2. OfList(Head(c2h)) => ListEvents
    BY <1>1, <1>4 DEF ListEvents
  <2>3. ListEvents => ListEvents' \/ OfList(Head(c2h))
    BY <1>1, <1>3 DEF ListEvents, OfList
  <2> QED
    BY <2>1, <2>2, <2>3
<1>9. ASSUME Head(c2h).calls = <<"complete">> PROVE ~ListEvents' /\ ~Completing'
  <2>1. \A k \in DOMAIN c2h' : ~OfList(c2h'[k])
    <3> SUFFICES ASSUME NEW k \in DOMAIN c2h', OfList(c2h'[k]) PROVE FALSE
      OBVIOUS
    <3>1. k + 1 <= 1
      BY <1>1, <1>2, <1>4, <1>9 DEF CompleteLast
    <3> QED
      BY <1>2, <3>1
  <2>2. ~ListEvents'
    BY <2>1 DEF ListEvents, OfList
  <2>3. ~Completing'
    BY <2>1, CallsDiffer DEF Completing, OfList
  <2> QED
    BY <2>2, <2>3
<1> QED
  BY <1>6, <1>7, <1>8, <1>9

\* The card reports something that is not of the list.
LEMMA SendEvent ==
    ASSUME Shape, CompleteLast, NEW e \in CardMsg, ~OfList(e), c2h' = Append(c2h, e)
    PROVE  /\ CompleteLast'
           /\ Completing' <=> Completing
           /\ ListEvents' <=> ListEvents
<1>1. /\ DOMAIN c2h' = 1 .. Len(c2h) + 1 /\ DOMAIN c2h = 1 .. Len(c2h) /\ Len(c2h) \in Nat
      /\ \A k \in 1 .. Len(c2h) : c2h'[k] = c2h[k]
      /\ c2h'[Len(c2h) + 1] = e
  BY AppendTo DEF Shape
<1>2. \A k \in DOMAIN c2h' : (k \in DOMAIN c2h /\ c2h'[k] = c2h[k]) \/ c2h'[k] = e
  BY <1>1
<1>3. \A k \in DOMAIN c2h : k \in DOMAIN c2h' /\ c2h'[k] = c2h[k]
  BY <1>1
<1>4. e.calls # <<"complete">>
  BY CallsDiffer DEF OfList
<1>5. CompleteLast'
  BY <1>2, <1>4 DEF CompleteLast, OfList
<1>6. Completing' <=> Completing
  BY <1>2, <1>3, <1>4 DEF Completing
<1>7. ListEvents' <=> ListEvents
  BY <1>2, <1>3 DEF ListEvents, OfList
<1> QED
  BY <1>5, <1>6, <1>7

\* The card reports an entry that has run.
LEMMA RunEvent ==
    ASSUME Shape, StageInv, NEW ok \in BOOLEAN, card_runs(ok)
    PROVE  /\ run.i # 0 /\ CompleteLast'
           /\ run.i # Len(Vec) => run'.i = run.i + 1 /\ ~Completing'
           /\ run.i = Len(Vec) => run'.i = 0 /\ Completing'
<1> DEFINE two == run.i = Len(Vec) /\ (run.failed \/ ~ok)
<1>1. /\ Ran(ok).calls = IF ~ok THEN <<"addError">>
                         ELSE IF run.i = Len(Vec) /\ ~run.failed THEN <<"complete">> ELSE <<>>
      /\ Len(c2h) \in Nat /\ DOMAIN c2h = 1 .. Len(c2h)
      /\ DOMAIN c2h' = 1 .. Len(c2h) + (IF two THEN 2 ELSE 1)
      /\ \A k \in 1 .. Len(c2h) : c2h'[k] = c2h[k]
      /\ c2h'[Len(c2h) + 1] = Ran(ok)
      /\ two => c2h'[Len(c2h) + 2] = AllRan
      /\ run.i \in 1 .. Len(Vec)
  BY RunsEvents
<1>2. AllRan.calls = <<"complete">> /\ run.i # 0 /\ Len(Vec) \in Nat
  <2>1. AllRan.calls = <<"complete">>
    BY EventShape
  <2>2. Len(Vec) \in Nat
    BY VecShape
  <2>3. run.i # 0
    BY <1>1
  <2> QED
    BY <2>1, <2>2, <2>3
<1>3. \A k \in DOMAIN c2h : c2h[k].calls # <<"complete">>
  BY <1>2 DEF StageInv, OneStage, Completing
<1>4. ok \/ ~ok
  OBVIOUS
<1>5. run'.i = IF run.i = Len(Vec) THEN 0 ELSE run.i + 1
  BY DEF card_runs, NoRun
<1>6. CASE two
  <2>1. \A k \in DOMAIN c2h' : c2h'[k].calls = <<"complete">> => k = Len(c2h) + 2
    <3>1. Ran(ok).calls # <<"complete">>
      BY <1>1, <1>6, CallsDiffer
    <3>2. \A k \in DOMAIN c2h' : k \in DOMAIN c2h \/ k = Len(c2h) + 1 \/ k = Len(c2h) + 2
      BY <1>1, <1>6
    <3> QED
      BY <1>1, <1>3, <3>1, <3>2
  <2>2. CompleteLast'
    BY <1>1, <1>6, <2>1 DEF CompleteLast
  <2>3. Completing'
    BY <1>1, <1>2, <1>6 DEF Completing
  <2> QED
    BY <1>2, <1>5, <1>6, <2>2, <2>3
<1>7. CASE ~two
  <2>1. \A k \in DOMAIN c2h' : k \in DOMAIN c2h \/ k = Len(c2h) + 1
    BY <1>1, <1>7
  <2>2. \A k \in DOMAIN c2h' : c2h'[k].calls = <<"complete">> => k = Len(c2h) + 1
    BY <1>1, <1>3, <2>1
  <2>3. CompleteLast'
    BY <1>1, <1>7, <2>2 DEF CompleteLast
  <2>4. CASE run.i = Len(Vec)
    <3>1. Ran(ok).calls = <<"complete">>
      BY <1>1, <1>7, <2>4
    <3>2. Completing'
      BY <1>1, <1>7, <3>1 DEF Completing
    <3> QED
      BY <1>2, <1>5, <2>3, <2>4, <3>2
  <2>5. CASE run.i # Len(Vec)
    <3>1. Ran(ok).calls # <<"complete">>
      BY <1>1, <2>5, CallsDiffer
    <3>2. ~Completing'
      BY <1>1, <1>3, <2>1, <3>1 DEF Completing
    <3> QED
      BY <1>2, <1>5, <2>3, <2>5, <3>2
  <2> QED
    BY <2>4, <2>5
<1> QED
  BY <1>6, <1>7

\* What a step leaves alone.
LEMMA Unfold ==
    /\ UNCHANGED listVars => UNCHANGED <<m_in_flight, m_failed_commands, m_waitq, m_errorList>>
    /\ UNCHANGED userVars => UNCHANGED <<sched, wait, clear>>
    /\ UNCHANGED ctxVars => UNCHANGED <<m_critical_error, finalizing>>
    /\ UNCHANGED respVars => UNCHANGED <<post, calls>>
    /\ UNCHANGED cardVars => UNCHANGED <<run, cardErr, solo>>
    /\ UNCHANGED histVars => UNCHANGED <<runs, solos, fails, broke>>
    /\ UNCHANGED resVars => UNCHANGED <<m_readers, m_cpu_locked, m_failed_copy_ops, cpuPc>>
    /\ UNCHANGED Keep => /\ UNCHANGED <<m_readers, m_cpu_locked, m_failed_copy_ops, cpuPc, m_scheduled>>
                         /\ UNCHANGED <<m_critical_error, finalizing, post, calls, c2h>>
                         /\ UNCHANGED <<run, cardErr, solo, runs, solos, fails, broke>>
    /\ UNCHANGED HostVars => /\ UNCHANGED <<m_readers, m_cpu_locked, m_failed_copy_ops, cpuPc, m_scheduled>>
                             /\ UNCHANGED <<m_in_flight, m_failed_commands, m_waitq, m_errorList>>
                             /\ UNCHANGED <<sched, wait, clear, m_critical_error, finalizing, post, calls>>
BY DEF listVars, userVars, ctxVars, respVars, cardVars, histVars, resVars, hostResVars, Keep, HostVars

\* The steps of a schedule that stay within its stage.
Within ==
    \/ schedule_prepare \/ schedule_next \/ schedule_busy \/ schedule_send_fail
    \/ schedule_undo \/ schedule_undo_next

LEMMA WithinStage ==
    ASSUME Shape, Within
    PROVE  Preparing /\ Preparing' /\ sched'.pc # "can"
<1>1. sched \in [pc : {"idle", "can", "prepare", "back", "all"}, i : Nat, j : Nat, n : Nat]
  BY DEF Shape, SchedOK
<1>2. CASE schedule_prepare \/ schedule_next \/ schedule_undo
  BY <1>1, <1>2 DEF schedule_prepare, schedule_next, schedule_undo, Preparing
<1>3. CASE schedule_busy
  BY <1>1, <1>3 DEF schedule_busy, Undo, Preparing
<1>4. CASE schedule_send_fail \/ schedule_undo_next
  BY <1>1, <1>4 DEF schedule_send_fail, schedule_undo_next, Undo, Preparing
<1> QED
  BY <1>2, <1>3, <1>4 DEF Within

\* A step that does not move the run.
LEMMA StageSame ==
    ASSUME StageInv, UNCHANGED <<m_in_flight, c2h, run, post, calls, m_critical_error>>,
           OneRunMsg', RunQueued' <=> RunQueued,
           Preparing' <=> Preparing, sched'.pc = "can" => ~m_in_flight
    PROVE  StageInv'
<1>1. /\ Completing' <=> Completing
      /\ CallDue' <=> CallDue
      /\ ListEvents' <=> ListEvents
      /\ ListPosts' <=> ListPosts
  BY DEF Completing, CallDue, ListEvents, ListPosts, OfList
<1>2. OneStage'
  BY <1>1 DEF StageInv, OneStage
<1>3. LastEvent'
  BY <1>1 DEF StageInv, LastEvent
<1>4. NoBreak' /\ CompleteLast'
  BY DEF StageInv, NoBreak, CompleteLast, OfList
<1> QED
  BY <1>2, <1>3, <1>4 DEF StageInv

\* The application's own calls send no list to the card.
LEMMA UserMsgs ==
    ASSUME Shape, OneRunMsg, UserStep
    PROVE  OneRunMsg' /\ (RunQueued' <=> RunQueued)
<1> USE Unfold
<1>1. \/ h2c' = h2c
      \/ \E m \in HostMsg : m.op # "run" /\ h2c' = Append(h2c, m)
  <2>0. /\ [op |-> "query", c |-> <<>>] \in HostMsg /\ [op |-> "clear", c |-> <<>>] \in HostMsg
        /\ \A c \in Copy : [op |-> "copy", c |-> <<c>>] \in HostMsg
    BY DEF HostMsg
  <2>1. CASE wait_start \/ wait_test \/ wait_timeout \/ wait_queried \/ wait_late \/ clearErrors_done \/ recover
    BY <2>1 DEF wait_start, wait_test, wait_timeout, wait_queried, wait_late, clearErrors_done, recover
  <2>2. CASE wait_over
    <3>1. h2c' = h2c \/ h2c' = Append(h2c, [op |-> "query", c |-> <<>>])
      BY <2>2 DEF wait_over
    <3>2. [op |-> "query", c |-> <<>>].op # "run"
      OBVIOUS
    <3> QED
      BY <2>0, <3>1, <3>2
  <2>3. CASE clearErrors
    <3>1. h2c' = h2c \/ h2c' = Append(h2c, [op |-> "clear", c |-> <<>>])
      BY <2>3 DEF clearErrors
    <3>2. [op |-> "clear", c |-> <<>>].op # "run"
      OBVIOUS
    <3> QED
      BY <2>0, <3>1, <3>2
  <2>4. ASSUME NEW c \in Solo, schedule_copy(c) PROVE \E m \in HostMsg : m.op # "run" /\ h2c' = Append(h2c, m)
    <3>1. h2c' = Append(h2c, [op |-> "copy", c |-> <<c>>]) /\ c \in Copy
      BY <2>4, ListAssumption DEF schedule_copy
    <3>2. [op |-> "copy", c |-> <<c>>].op # "run"
      OBVIOUS
    <3> QED
      BY <2>0, <3>1, <3>2
  <2>5. ASSUME NEW b \in BOOLEAN, finalize(b) PROVE h2c' = h2c
    BY <2>5 DEF finalize
  <2> QED
    BY <2>1, <2>2, <2>3, <2>4, <2>5 DEF UserStep
<1>2. CASE h2c' = h2c
  BY <1>2 DEF OneRunMsg, RunQueued
<1>3. CASE \E m \in HostMsg : m.op # "run" /\ h2c' = Append(h2c, m)
  BY <1>3, SendOther
<1> QED
  BY <1>1, <1>2, <1>3

LEMMA StageUser ==
    ASSUME Shape, StageInv, UserStep
    PROVE  StageInv'
<1> USE Unfold
<1>1. UNCHANGED <<m_in_flight, c2h, run, post, calls, m_critical_error, sched>>
  <2>1. CASE wait_start \/ wait_test \/ wait_timeout \/ wait_queried
    BY <2>1 DEF wait_start, wait_test, wait_timeout, wait_queried
  <2>2. CASE wait_late \/ wait_over \/ clearErrors \/ clearErrors_done
    BY <2>2 DEF wait_late, wait_over, clearErrors, clearErrors_done
  <2>3. ASSUME NEW c \in Solo, schedule_copy(c) PROVE UNCHANGED <<m_in_flight, c2h, run, post, calls, m_critical_error, sched>>
    BY <2>3 DEF schedule_copy
  <2>4. ASSUME NEW b \in BOOLEAN, finalize(b) PROVE UNCHANGED <<m_in_flight, c2h, run, post, calls, m_critical_error, sched>>
    BY <2>4 DEF finalize
  <2>5. ~recover
    BY DEF recover, StageInv, NoBreak, ctxBroken
  <2> QED
    BY <2>1, <2>2, <2>3, <2>4, <2>5 DEF UserStep
<1>2. OneRunMsg' /\ (RunQueued' <=> RunQueued)
  BY UserMsgs DEF StageInv
<1>3. (Preparing' <=> Preparing) /\ (sched'.pc = "can" => ~m_in_flight)
  BY <1>1 DEF Preparing, StageInv, OneStage
<1> QED
  BY <1>1, <1>2, <1>3, StageSame

LEMMA StageSchedule ==
    ASSUME Shape, StageInv, schedule \/ Schedule
    PROVE  StageInv'
<1> USE Unfold
<1>0. UNCHANGED h2c => OneRunMsg' /\ (RunQueued' <=> RunQueued)
  BY DEF StageInv, OneRunMsg, RunQueued
<1>1. CASE schedule
  <2>1. sched.pc = "idle" /\ sched'.pc = "can" /\ ~m_in_flight
    BY <1>1 DEF schedule, Idle
  <2>2. UNCHANGED <<m_in_flight, c2h, run, post, calls, m_critical_error, h2c>>
    BY <1>1 DEF schedule
  <2> QED
    BY <1>0, <2>1, <2>2, StageSame DEF Preparing
<1>2. CASE Within
  <2>1. UNCHANGED <<m_in_flight, c2h, run, post, calls, m_critical_error, h2c>>
    BY <1>2 DEF Within, schedule_prepare, schedule_next, schedule_busy, schedule_send_fail, schedule_undo, schedule_undo_next
  <2> QED
    BY <1>0, <1>2, <2>1, WithinStage, StageSame
<1>3. ASSUME UNCHANGED <<c2h, run, post, calls, m_critical_error>>
      PROVE  /\ Completing' <=> Completing
             /\ CallDue' <=> CallDue
             /\ ListEvents' <=> ListEvents
             /\ ListPosts' <=> ListPosts
             /\ NoBreak' /\ CompleteLast'
             /\ LastEvent'
  <2>1. /\ Completing' <=> Completing
        /\ CallDue' <=> CallDue
        /\ ListEvents' <=> ListEvents
        /\ ListPosts' <=> ListPosts
    BY <1>3 DEF Completing, CallDue, ListEvents, ListPosts, OfList
  <2>2. NoBreak' /\ CompleteLast'
    BY <1>3 DEF StageInv, NoBreak, CompleteLast, OfList
  <2>3. LastEvent'
    BY <1>3, <2>1 DEF StageInv, LastEvent
  <2> QED
    BY <2>1, <2>2, <2>3
<1>4. CASE schedule_can
  <2>1. UNCHANGED <<c2h, run, post, calls, m_critical_error, h2c>> /\ m_in_flight' = TRUE
    BY <1>4 DEF schedule_can, ctxBroken, StageInv, NoBreak
  <2>2. sched.pc = "can" /\ sched'.pc = "prepare"
    <3>1. sched \in [pc : {"idle", "can", "prepare", "back", "all"}, i : Nat, j : Nat, n : Nat]
      BY DEF Shape, SchedOK
    <3> QED
      BY <1>4, <3>1 DEF schedule_can, ctxBroken, StageInv, NoBreak
  <2>3. Preparing' /\ ~m_in_flight
    BY <2>2 DEF Preparing, StageInv, OneStage
  <2>4. OneStage'
    BY <1>0, <1>3, <2>1, <2>2, <2>3 DEF StageInv, OneStage
  <2> QED
    BY <1>0, <1>3, <2>1, <2>4 DEF StageInv
<1>5. CASE schedule_send
  <2>1. /\ UNCHANGED <<c2h, run, post, calls, m_critical_error, m_in_flight>>
        /\ h2c' = Append(h2c, [op |-> "run", c |-> <<>>])
        /\ sched.pc = "prepare" /\ sched'.pc = "idle"
    BY <1>5 DEF schedule_send, Idle
  <2>2. Preparing /\ ~Preparing'
    BY <2>1 DEF Preparing
  <2>3. ~RunQueued
    BY <2>2 DEF StageInv, OneStage
  <2>4. RunQueued' /\ OneRunMsg'
    BY <2>1, <2>3, SendRun
  <2>5. OneStage'
    BY <1>3, <2>1, <2>2, <2>4 DEF StageInv, OneStage
  <2> QED
    BY <1>3, <2>1, <2>4, <2>5 DEF StageInv
<1>6. CASE schedule_undone
  <2>1. /\ UNCHANGED <<c2h, run, post, calls, m_critical_error, h2c>>
        /\ m_in_flight' = FALSE
        /\ sched.pc \in {"back", "all"} /\ sched'.pc = "idle"
    BY <1>6 DEF schedule_undone, Completed, Idle
  <2>2. Preparing /\ ~Preparing'
    BY <2>1 DEF Preparing
  <2>3. OneStage'
    BY <1>0, <1>3, <2>1, <2>2 DEF StageInv, OneStage
  <2> QED
    BY <1>0, <1>3, <2>1, <2>3 DEF StageInv
<1> QED
  BY <1>1, <1>2, <1>4, <1>5, <1>6 DEF Schedule, Within

LEMMA StageRespond ==
    ASSUME Shape, StageInv, Respond
    PROVE  StageInv'
<1> USE Unfold
<1>1. CASE list_call
  <2>1. UNCHANGED <<c2h, h2c, run, m_critical_error, sched>> /\ post = <<>> /\ post' = <<>> /\ calls # <<>>
    BY <1>1 DEF list_call
  <2>2. calls' = <<>> /\ ~CallDue'
    BY <1>1, TailOne, CallsDiffer DEF list_call, Shape, RespShape, CallDue
  <2>3. /\ Completing' <=> Completing
        /\ ListEvents' <=> ListEvents
        /\ RunQueued' <=> RunQueued
        /\ Preparing' <=> Preparing
        /\ ~ListPosts'
    BY <2>1, <2>2 DEF Completing, ListEvents, RunQueued, Preparing, ListPosts, OfList
  <2>4. CASE calls = <<"complete">>
    <3>1. CallDue /\ m_in_flight' = FALSE
      BY <1>1, <2>4 DEF list_call, Completed, CallDue
    <3>2. OneStage'
      BY <2>1, <2>2, <2>3, <3>1 DEF StageInv, OneStage
    <3> QED
      BY <2>1, <2>2, <2>3, <3>2 DEF StageInv, NoBreak, OneRunMsg, CompleteLast, LastEvent, OfList
  <2>5. CASE calls = <<"addError">>
    <3>1. ~CallDue /\ m_in_flight' = m_in_flight
      BY <1>1, <2>5, CallsDiffer DEF list_call, CallDue
    <3>2. OneStage'
      BY <2>1, <2>2, <2>3, <3>1 DEF StageInv, OneStage
    <3> QED
      BY <2>1, <2>2, <2>3, <3>2 DEF StageInv, NoBreak, OneRunMsg, CompleteLast, LastEvent, OfList
  <2> QED
    BY <2>1, <2>4, <2>5 DEF Shape, RespShape
<1>2. CASE release_copy
  <2>1. UNCHANGED <<c2h, h2c, run, m_critical_error, sched, calls, m_in_flight>> /\ post' = Tail(post) /\ post # <<>>
    BY <1>2 DEF release_copy
  <2>2. /\ Completing' <=> Completing
        /\ ListEvents' <=> ListEvents
        /\ RunQueued' <=> RunQueued
        /\ Preparing' <=> Preparing
        /\ CallDue' <=> CallDue
    BY <2>1 DEF Completing, ListEvents, RunQueued, Preparing, CallDue, OfList
  <2>3. ListPosts' => ListPosts
    <3>1. \A p \in DOMAIN post' : p + 1 \in DOMAIN post /\ post'[p] = post[p + 1]
      BY <2>1, TailOf DEF Shape, RespShape
    <3> QED
      BY <2>1, <3>1 DEF ListPosts
  <2>4. OneStage'
    BY <2>1, <2>2 DEF StageInv, OneStage
  <2>5. LastEvent'
    BY <2>1, <2>2, <2>3 DEF StageInv, LastEvent
  <2> QED
    BY <2>1, <2>4, <2>5 DEF StageInv, NoBreak, OneRunMsg, CompleteLast, OfList
<1>3. ASSUME NEW o, Receive(o), UNCHANGED <<h2c, run, m_critical_error, sched, m_in_flight>>,
             calls' = Head(c2h).calls, ListPosts' => OfList(Head(c2h))
      PROVE  StageInv'
  <2>1. /\ CompleteLast'
        /\ Completing <=> Completing' \/ Head(c2h).calls = <<"complete">>
        /\ ListEvents <=> ListEvents' \/ OfList(Head(c2h))
        /\ Head(c2h).calls = <<"complete">> => ~ListEvents' /\ ~Completing'
    BY <1>3, TakeEvent DEF StageInv
  <2>2. ~CallDue /\ (CallDue' <=> Head(c2h).calls = <<"complete">>)
    BY <1>3, CallsDiffer DEF Receive, respIdle, CallDue
  <2>3. (RunQueued' <=> RunQueued) /\ (Preparing' <=> Preparing)
    BY <1>3 DEF RunQueued, Preparing
  <2>4. OneStage'
    BY <1>3, <2>1, <2>2, <2>3 DEF StageInv, OneStage
  <2>5. LastEvent'
    BY <1>3, <2>1, <2>2 DEF StageInv, LastEvent
  <2>6. NoBreak' /\ OneRunMsg'
    <3>1. \A k \in DOMAIN c2h' : k + 1 \in DOMAIN c2h /\ c2h'[k] = c2h[k + 1]
      BY <1>3, Received
    <3>2. NoBreak'
      BY <1>3, <3>1 DEF StageInv, NoBreak
    <3> QED
      BY <1>3, <3>2 DEF StageInv, OneRunMsg
  <2> QED
    BY <2>1, <2>4, <2>5, <2>6 DEF StageInv
<1>4. CASE executed
  <2>1. /\ Receive("executed") /\ UNCHANGED <<h2c, run, m_critical_error, sched, m_in_flight>>
        /\ calls' = Head(c2h).calls /\ post' = Posts(Head(c2h).cs, ~Head(c2h).ok)
    BY <1>4 DEF executed
  <2>2. Head(c2h).cs \in Seq(Copy) /\ Head(c2h).ok \in BOOLEAN
    BY <2>1, Received
  <2>3. ListPosts' => OfList(Head(c2h))
    <3>1. \A p \in DOMAIN post' : p \in DOMAIN Head(c2h).cs /\ post'[p].c = Head(c2h).cs[p]
      BY <2>1 DEF Posts
    <3> QED
      BY <2>1, <3>1 DEF ListPosts, OfList
  <2> QED
    BY <1>3, <2>1, <2>3
<1>5. ~context_fatal
  <2> SUFFICES ASSUME context_fatal PROVE FALSE
    OBVIOUS
  <2>1. Head(c2h) = c2h[1] /\ Head(c2h).op = "break" /\ 1 \in DOMAIN c2h
    BY Received DEF context_fatal
  <2> QED
    BY <2>1 DEF StageInv, NoBreak
<1>6. CASE errors_arrive \/ clearRequestSucceeded
  <2>1. \E o \in {"errors", "cleared"} : Receive(o)
    BY <1>6 DEF errors_arrive, clearRequestSucceeded
  <2>2. UNCHANGED <<h2c, run, m_critical_error, sched, m_in_flight, post, calls>>
    BY <1>6 DEF errors_arrive, clearRequestSucceeded
  <2>3. post = <<>> /\ calls = <<>>
    BY <2>1 DEF Receive, respIdle
  <2>4. ~ListPosts'
    BY <2>2, <2>3 DEF ListPosts
  <2> QED
    BY <1>3, <2>1, <2>2, <2>3, <2>4, Received
<1> QED
  BY <1>1, <1>2, <1>4, <1>5, <1>6 DEF Respond

LEMMA StageCard ==
    ASSUME Shape, StageInv, ListDisciplined, Card
    PROVE  StageInv'
<1> USE Unfold
<1>0. UNCHANGED HostVars
  BY DEF Card, card_takes, card_runs, card_copies
<1>a. /\ Preparing' <=> Preparing
      /\ CallDue' <=> CallDue
      /\ ListPosts' <=> ListPosts
      /\ UNCHANGED <<m_in_flight, m_critical_error, sched>>
  BY <1>0 DEF Preparing, CallDue, ListPosts
<1>b. ASSUME NEW e \in CardMsg, ~OfList(e), e.op # "break", c2h' = Append(c2h, e)
      PROVE  /\ CompleteLast' /\ NoBreak'
             /\ Completing' <=> Completing
             /\ ListEvents' <=> ListEvents
  <2>1. \A k \in DOMAIN c2h' : (k \in DOMAIN c2h /\ c2h'[k] = c2h[k]) \/ c2h'[k] = e
    BY <1>b, AppendTo DEF Shape
  <2>2. NoBreak'
    BY <1>a, <1>b, <2>1 DEF StageInv, NoBreak
  <2> QED
    BY <1>b, <2>2, SendEvent DEF StageInv
<1>c. ASSUME UNCHANGED c2h
      PROVE  /\ CompleteLast' /\ NoBreak'
             /\ Completing' <=> Completing
             /\ ListEvents' <=> ListEvents
  BY <1>a, <1>c DEF StageInv, CompleteLast, NoBreak, Completing, ListEvents, OfList
<1>1. CASE card_takes
  <2>1. /\ OneRunMsg'
        /\ Head(h2c).op = "run" => RunQueued /\ ~RunQueued'
        /\ Head(h2c).op # "run" => (RunQueued' <=> RunQueued)
    BY <1>1, TakeMsg DEF StageInv
  <2>2. CASE Head(h2c).op = "run"
    <3>1. UNCHANGED c2h /\ run.i = 0 /\ run' = [i |-> 1, failed |-> FALSE]
      BY <1>1, <2>2 DEF card_takes
    <3>0. run'.i # 0
      BY <3>1
    <3>2. OneStage'
      BY <1>a, <1>c, <2>1, <2>2, <3>0, <3>1 DEF StageInv, OneStage
    <3>3. LastEvent'
      BY <1>a, <1>c, <3>0, <3>1 DEF StageInv, LastEvent
    <3> QED
      BY <1>c, <2>1, <3>1, <3>2, <3>3 DEF StageInv
  <2>3. CASE Head(h2c).op # "run"
    <3>1. /\ UNCHANGED run
          /\ \/ c2h' = c2h
             \/ c2h' = Append(c2h, Event("cleared"))
             \/ c2h' = Append(c2h, [Event("errors") EXCEPT !.n = cardErr])
      BY <1>1, <2>3, Taken DEF card_takes
    <3>2. /\ Event("cleared") \in CardMsg /\ Event("cleared").op # "break"
          /\ [Event("errors") EXCEPT !.n = cardErr] \in CardMsg /\ [Event("errors") EXCEPT !.n = cardErr].op # "break"
      BY EventShape DEF Shape, CardShape
    <3>3. ~OfList(Event("cleared")) /\ ~OfList([Event("errors") EXCEPT !.n = cardErr])
      <4>1. /\ Event("cleared").cs = <<>> /\ Event("cleared").calls = <<>>
            /\ [Event("errors") EXCEPT !.n = cardErr].cs = <<>> /\ [Event("errors") EXCEPT !.n = cardErr].calls = <<>>
        BY EventShape DEF Shape, CardShape
      <4> QED
        BY <4>1 DEF OfList
    <3>4. /\ CompleteLast' /\ NoBreak'
          /\ Completing' <=> Completing
          /\ ListEvents' <=> ListEvents
      BY <1>b, <1>c, <3>1, <3>2, <3>3
    <3>5. OneStage'
      BY <1>a, <2>1, <2>3, <3>1, <3>4 DEF StageInv, OneStage
    <3>6. LastEvent'
      BY <1>a, <3>1, <3>4 DEF StageInv, LastEvent
    <3> QED
      BY <2>1, <3>4, <3>5, <3>6 DEF StageInv
  <2> QED
    BY <2>2, <2>3
<1>2. ASSUME NEW ok \in BOOLEAN, card_runs(ok) PROVE StageInv'
  <2>1. /\ run.i # 0 /\ CompleteLast'
        /\ run.i # Len(Vec) => run'.i = run.i + 1 /\ ~Completing'
        /\ run.i = Len(Vec) => run'.i = 0 /\ Completing'
    BY <1>2, RunEvent
  <2>2. (RunQueued' <=> RunQueued) /\ OneRunMsg'
    BY <1>2 DEF card_runs, RunQueued, OneRunMsg, StageInv
  <2>3. run.i + 1 # 0
    BY DEF Shape, CardShape
  <2>4. OneStage'
    BY <1>a, <2>1, <2>2, <2>3 DEF StageInv, OneStage
  <2>5. LastEvent'
    BY <1>a, <2>1, <2>3 DEF StageInv, LastEvent, OneStage
  <2>6. NoBreak'
    <3>1. Ran(ok).op = "executed" /\ AllRan.op = "executed"
      BY <1>2, RunsEvents, EventShape
    <3>2. \A k \in DOMAIN c2h' : (k \in DOMAIN c2h /\ c2h'[k] = c2h[k]) \/ c2h'[k] = Ran(ok) \/ c2h'[k] = AllRan
      BY <1>2, RunsEvents
    <3> QED
      BY <1>a, <3>1, <3>2 DEF StageInv, NoBreak
  <2> QED
    BY <2>1, <2>2, <2>4, <2>5, <2>6 DEF StageInv
<1>3. ASSUME NEW c \in Copy, card_copies(c) PROVE StageInv'
  <2> DEFINE e == [Event("executed") EXCEPT !.cs = <<c>>]
  <2>1. e \in CardMsg /\ e.cs = <<c>> /\ e.calls = <<>> /\ e.op = "executed"
    BY EventShape
  <2>2. c2h' = Append(c2h, e) /\ UNCHANGED <<h2c, run>> /\ c \in solo
    BY <1>3 DEF card_copies
  <2> HIDE DEF e
  <2>3. ~OfList(e)
    <3>1. c \notin Mine
      BY <2>2 DEF ListDisciplined, Shape, CardShape
    <3>2. \A m \in DOMAIN e.cs : e.cs[m] = c
      BY <2>1
    <3> QED
      BY <2>1, <3>1, <3>2 DEF OfList
  <2>4. /\ CompleteLast' /\ NoBreak'
        /\ Completing' <=> Completing
        /\ ListEvents' <=> ListEvents
    BY <1>b, <2>1, <2>2, <2>3
  <2>5. (RunQueued' <=> RunQueued) /\ OneRunMsg'
    BY <2>2 DEF RunQueued, OneRunMsg, StageInv
  <2>6. OneStage'
    BY <1>a, <2>2, <2>4, <2>5 DEF StageInv, OneStage
  <2>7. LastEvent'
    BY <1>a, <2>2, <2>4 DEF StageInv, LastEvent
  <2> QED
    BY <2>4, <2>5, <2>6, <2>7 DEF StageInv
<1> QED
  BY <1>1, <1>2, <1>3 DEF Card

\* While the context has not broken the list keeps to its stages.
LEMMA StageStarts == Init => StageInv
BY CallsDiffer DEF Init, NoRun, Idle, StageInv, NoBreak, OneRunMsg, OneStage, CompleteLast, LastEvent,
                   Preparing, RunQueued, Completing, CallDue, ListEvents, ListPosts

LEMMA NotBroken ==
    ASSUME Shape, [Next]_vars, broke' = 0
    PROVE  broke = 0 /\ ~card_breaks
<1>1. broke \in Nat
  BY ListAssumption DEF Shape, BoundShape
<1>2. ~card_breaks
  BY <1>1 DEF card_breaks
<1>3. UNCHANGED broke
  <2> USE Unfold
  <2>1. CASE schedule \/ Schedule
    BY <2>1 DEF schedule, Schedule, schedule_can, schedule_prepare, schedule_next, schedule_busy, schedule_send,
                schedule_send_fail, schedule_undo, schedule_undo_next, schedule_undone
  <2>2. CASE UserStep
    BY <2>2 DEF UserStep, wait_start, wait_test, wait_timeout, wait_late, wait_over, wait_queried,
                clearErrors, clearErrors_done, schedule_copy, finalize, recover
  <2>3. CASE Respond
    BY <2>3 DEF Respond, list_call, release_copy, executed, context_fatal, errors_arrive, clearRequestSucceeded
  <2>4. CASE Card
    BY <2>4 DEF Card, card_takes, card_runs, card_copies
  <2>5. CASE UNCHANGED vars
    BY <2>5 DEF vars
  <2> QED
    BY <1>2, <2>1, <2>2, <2>3, <2>4, <2>5 DEF Next, UserStep
<1> QED
  BY <1>2, <1>3

LEMMA StageKept ==
    ASSUME Shape, StageInv, ListDisciplined, [Next]_vars, broke' = 0
    PROVE  StageInv'
<1>1. CASE UNCHANGED vars
  <2>1. UNCHANGED <<m_in_flight, c2h, h2c, run, post, calls, m_critical_error, sched>>
    BY <1>1, Unfold DEF vars
  <2> QED
    BY <2>1, StageSame DEF OneRunMsg, RunQueued, Preparing, StageInv, OneStage
<1>2. CASE Next
  BY <1>2, NotBroken, StageSchedule, StageUser, StageRespond, StageCard DEF Next, UserStep
<1> QED
  BY <1>1, <1>2

-----------------------------------------------------------------------------
(***************************************************************************)
(* Where the copies are                                                    *)
(***************************************************************************)

\* A copy that only the list schedules, or that has a lock to lose.
Firm == Mine \cup {c \in Copy : ~Lockless(CopyRes[c])}

InEvent(c) == \E k \in DOMAIN c2h : \E m \in DOMAIN c2h[k].cs : c2h[k].cs[m] = c
InPost(c) == \E p \in DOMAIN post : post[p].c = c

\* A copy is scheduled while it is in an event, with the response thread or
\* scheduled on its own, and is at one of these places at a time.
Held == \A c \in Firm : InEvent(c) \/ InPost(c) \/ c \in solo => m_scheduled[c]
Apart ==
    \A c \in Firm : /\ InEvent(c) => ~InPost(c) /\ c \notin solo
                    /\ InPost(c) => c \notin solo
EventsOnce ==
    \A k, l \in DOMAIN c2h : \A m \in DOMAIN c2h[k].cs, n \in DOMAIN c2h[l].cs :
        c2h[k].cs[m] = c2h[l].cs[n] /\ c2h[k].cs[m] \in Firm => k = l /\ m = n
PostsOnce == \A p, q \in DOMAIN post : post[p].c = post[q].c /\ post[p].c \in Firm => p = q

\* What the card has reported of a run is behind it.
Behind ==
    \A i \in DOMAIN Vec : \A j \in DOMAIN Vec[i] :
        InEvent(Vec[i][j]) \/ InPost(Vec[i][j]) => run.i = 0 \/ i < run.i

Places == Held /\ Apart /\ EventsOnce /\ PostsOnce /\ Behind

\* Copy j of entry i is scheduled for the run, or may still be to undo.
Needs(i, j) ==
    \/ sched.pc = "prepare" /\ (i < sched.i \/ (i = sched.i /\ j < sched.j))
    \/ RunQueued
    \/ run.i # 0 /\ run.i <= i
May(i, j) ==
    \/ Needs(i, j)
    \/ sched.pc = "back" /\ (i < sched.i \/ (i = sched.i /\ sched.j <= j /\ j <= sched.n))
    \/ sched.pc = "all" /\ (i > sched.i \/ (i = sched.i /\ sched.j <= j))

ListOwn ==
    \A i \in DOMAIN Vec : \A j \in DOMAIN Vec[i] :
        /\ Needs(i, j) => m_scheduled[Vec[i][j]]
        /\ m_scheduled[Vec[i][j]] => May(i, j) \/ InEvent(Vec[i][j]) \/ InPost(Vec[i][j])

LEMMA MineFirm ==
    /\ Mine \subseteq Firm /\ Firm \subseteq Copy
    /\ \A i \in DOMAIN Vec : \A j \in DOMAIN Vec[i] : Vec[i][j] \in Mine
    /\ \A c \in Mine : \E i \in DOMAIN Vec : \E j \in DOMAIN Vec[i] : c = Vec[i][j]
<1>1. \A i \in DOMAIN Vec : \A j \in DOMAIN Vec[i] : Vec[i][j] \in Mine
  BY VecShape DEF Mine, InEntry
<1> QED
  BY <1>1 DEF Firm, Mine, InEntry

\* While the list is prepared or queued, none of its copies is elsewhere.
LEMMA Elsewhere ==
    ASSUME StageInv, run.i = 0, ~Completing, ~CallDue, NEW c \in Mine
    PROVE  ~InEvent(c) /\ ~InPost(c)
<1>1. ~ListEvents /\ ~ListPosts
  BY DEF StageInv, LastEvent
<1>2. ~InEvent(c)
  BY <1>1 DEF ListEvents, OfList, InEvent
<1>3. ~InPost(c)
  BY <1>1 DEF ListPosts, InPost
<1> QED
  BY <1>2, <1>3

LEMMA PlacesSame ==
    ASSUME Places, UNCHANGED <<c2h, post, solo, run, m_scheduled>>
    PROVE  Places' /\ \A c : (InEvent(c)' <=> InEvent(c)) /\ (InPost(c)' <=> InPost(c))
<1>1. \A c : (InEvent(c)' <=> InEvent(c)) /\ (InPost(c)' <=> InPost(c))
  BY DEF InEvent, InPost
<1>2. Held' /\ Apart'
  BY <1>1 DEF Places, Held, Apart, Firm, Mine, InEntry, Lockless
<1>3. EventsOnce' /\ PostsOnce'
  BY DEF Places, EventsOnce, PostsOnce, Firm, Mine, InEntry, Lockless
<1>4. Behind'
  BY <1>1 DEF Places, Behind
<1> QED
  BY <1>1, <1>2, <1>3, <1>4 DEF Places

\* preSchedule of a copy that was nowhere.
LEMMA PlacesPre ==
    ASSUME Shape, Places, NEW c \in Copy, c \in Firm => ~m_scheduled[c],
           m_scheduled' = [m_scheduled EXCEPT ![c] = TRUE],
           solo' = solo \/ solo' = solo \cup {c}, UNCHANGED <<c2h, post, run>>
    PROVE  Places' /\ \A d : (InEvent(d)' <=> InEvent(d)) /\ (InPost(d)' <=> InPost(d))
<1>1. \A d : (InEvent(d)' <=> InEvent(d)) /\ (InPost(d)' <=> InPost(d))
  BY DEF InEvent, InPost
<1>2. m_scheduled \in [Copy -> BOOLEAN] /\ Firm' = Firm /\ Firm \subseteq Copy
  BY MineFirm DEF Shape, LocksShape, Firm, Mine, InEntry, Lockless
<1>3. Held'
  BY <1>1, <1>2 DEF Places, Held
<1>4. Apart'
  BY <1>1, <1>2 DEF Places, Held, Apart
<1>5. EventsOnce' /\ PostsOnce'
  BY <1>2 DEF Places, EventsOnce, PostsOnce
<1>6. Behind'
  BY <1>1 DEF Places, Behind
<1> QED
  BY <1>1, <1>3, <1>4, <1>5, <1>6 DEF Places

\* postSchedule of a copy that is nowhere any more.
LEMMA PlacesPost ==
    ASSUME Shape, Places, NEW c \in Copy, m_scheduled' = [m_scheduled EXCEPT ![c] = FALSE],
           c \in Firm => ~InEvent(c)' /\ ~InPost(c)' /\ c \notin solo,
           PostsOnce', \A d : InPost(d)' => InPost(d), UNCHANGED <<c2h, solo, run>>
    PROVE  Places' /\ \A d : InEvent(d)' <=> InEvent(d)
<1>1. \A d : InEvent(d)' <=> InEvent(d)
  BY DEF InEvent
<1>2. m_scheduled \in [Copy -> BOOLEAN] /\ Firm' = Firm /\ Firm \subseteq Copy
  BY MineFirm DEF Shape, LocksShape, Firm, Mine, InEntry, Lockless
<1>3. Held'
  BY <1>1, <1>2 DEF Places, Held
<1>4. Apart'
  BY <1>1, <1>2 DEF Places, Apart
<1>5. EventsOnce'
  BY <1>2 DEF Places, EventsOnce
<1>6. Behind'
  BY <1>1 DEF Places, Behind
<1> QED
  BY <1>1, <1>3, <1>4, <1>5, <1>6 DEF Places

\* The list's claims move, and no lock does.
LEMMA ListMoves ==
    ASSUME ListOwn, UNCHANGED m_scheduled,
           \A i \in DOMAIN Vec : \A j \in DOMAIN Vec[i] :
              /\ Needs(i, j)' => Needs(i, j)
              /\ May(i, j) => May(i, j)' \/ InEvent(Vec[i][j])' \/ InPost(Vec[i][j])'
              /\ InEvent(Vec[i][j]) \/ InPost(Vec[i][j]) => InEvent(Vec[i][j])' \/ InPost(Vec[i][j])'
    PROVE  ListOwn'
<1> SUFFICES ASSUME NEW i \in DOMAIN Vec, NEW j \in DOMAIN Vec[i]
             PROVE  /\ Needs(i, j)' => m_scheduled[Vec[i][j]]
                    /\ m_scheduled[Vec[i][j]] => May(i, j)' \/ InEvent(Vec[i][j])' \/ InPost(Vec[i][j])'
  BY DEF ListOwn, Needs, May, InEvent, InPost, RunQueued
<1>1. /\ Needs(i, j) => m_scheduled[Vec[i][j]]
      /\ m_scheduled[Vec[i][j]] => May(i, j) \/ InEvent(Vec[i][j]) \/ InPost(Vec[i][j])
  BY DEF ListOwn
<1> QED
  BY <1>1

\* The steps of a schedule that lock and unlock nothing.
LEMMA ListSched ==
    ASSUME Shape, StageInv, StageInv', ListOwn, Places,
           \/ schedule \/ schedule_can \/ schedule_next \/ schedule_busy
           \/ schedule_send \/ schedule_send_fail \/ schedule_undo_next \/ schedule_undone
    PROVE  ListOwn' /\ Places' /\ UNCHANGED <<m_readers, m_scheduled>>
<1> USE Unfold
<1>0. UNCHANGED <<c2h, post, solo, run, m_scheduled, m_readers>>
  <2>1. CASE schedule \/ schedule_can \/ schedule_next \/ schedule_busy
    BY <2>1 DEF schedule, schedule_can, schedule_next, schedule_busy
  <2>2. CASE schedule_send \/ schedule_send_fail \/ schedule_undo_next \/ schedule_undone
    BY <2>2 DEF schedule_send, schedule_send_fail, schedule_undo_next, schedule_undone
  <2> QED
    BY <2>1, <2>2
<1>a. Places' /\ \A c : (InEvent(c)' <=> InEvent(c)) /\ (InPost(c)' <=> InPost(c))
  BY <1>0, PlacesSame
<1>b. /\ sched \in [pc : {"idle", "can", "prepare", "back", "all"}, i : Nat, j : Nat, n : Nat]
      /\ sched.i \in DOMAIN Vec => sched.j \in 1 .. Len(Vec[sched.i]) + 1 /\ sched.n \in 0 .. Len(Vec[sched.i])
      /\ sched.pc = "can" => sched.i = 1 /\ sched.j = 1
      /\ sched.pc = "back" => sched.i <= Len(Vec)
      /\ sched.pc = "prepare" => sched.i >= 1
      /\ sched.pc = "all" => sched.i >= 1 /\ (sched.i <= Len(Vec) => sched.n = Len(Vec[sched.i]))
  BY DEF Shape, SchedOK
<1>c. /\ \A i \in DOMAIN Vec : /\ i \in 1 .. Len(Vec) /\ Len(Vec[i]) \in Nat
                               /\ \A j \in DOMAIN Vec[i] : j \in 1 .. Len(Vec[i])
      /\ Len(Vec) \in Nat
  BY VecShape
<1>d. Preparing => ~RunQueued /\ run.i = 0
  BY DEF StageInv, OneStage
<1>e. UNCHANGED h2c => (RunQueued' <=> RunQueued)
  BY DEF RunQueued
<1>f. ASSUME NEW i \in DOMAIN Vec, NEW j \in DOMAIN Vec[i]
      PROVE  /\ Needs(i, j)' => Needs(i, j)
             /\ May(i, j) => May(i, j)' \/ InEvent(Vec[i][j])' \/ InPost(Vec[i][j])'
  <2>0. i \in 1 .. Len(Vec) /\ Len(Vec[i]) \in Nat /\ j \in 1 .. Len(Vec[i])
    BY <1>c
  <2>1. CASE schedule
    <3>1. sched.pc = "idle" /\ sched'.pc = "can" /\ UNCHANGED h2c
      BY <2>1 DEF schedule, Idle
    <3> QED
      BY <1>0, <1>e, <3>1 DEF Needs, May
  <2>2. CASE schedule_can
    <3>1. sched.pc = "can" /\ sched'.pc = "prepare" /\ sched'.i = 1 /\ sched'.j = 1 /\ UNCHANGED h2c
      BY <1>b, <2>2 DEF schedule_can, ctxBroken, StageInv, NoBreak
    <3> QED
      BY <1>0, <1>e, <2>0, <3>1 DEF Needs, May
  <2>3. CASE schedule_next
    <3>1. /\ sched.pc = "prepare" /\ sched.i \in 1 .. Len(Vec) /\ sched.j > Len(Vec[sched.i]) /\ UNCHANGED h2c
          /\ sched' = [sched EXCEPT !.i = sched.i + 1, !.j = 1]
      BY <1>b, <1>c, <2>3 DEF schedule_next
    <3>2. sched'.pc = "prepare" /\ sched'.i = sched.i + 1 /\ sched'.j = 1
      BY <1>b, <3>1
    <3>3. CASE i < sched.i \/ (i = sched.i /\ j < sched.j)
      BY <1>0, <1>b, <1>e, <2>0, <3>1, <3>2, <3>3 DEF Needs, May
    <3>4. CASE ~(i < sched.i \/ (i = sched.i /\ j < sched.j))
      <4>1. i > sched.i
        BY <1>b, <2>0, <3>1, <3>4
      <4> QED
        BY <1>0, <1>b, <1>e, <2>0, <3>1, <3>2, <4>1 DEF Needs, May
    <3> QED
      BY <3>3, <3>4
  <2>4. CASE schedule_busy
    <3>1. /\ sched.pc = "prepare" /\ sched.i \in 1 .. Len(Vec) /\ sched.j \in 1 .. Len(Vec[sched.i]) /\ UNCHANGED h2c
          /\ Len(Vec[sched.i]) \in Nat
      BY <1>b, <1>c, <2>4 DEF schedule_busy
    <3>2. ~RunQueued /\ run.i = 0
      BY <1>d, <3>1 DEF Preparing
    <3>3. May(i, j) => i < sched.i \/ (i = sched.i /\ j < sched.j)
      BY <3>1, <3>2 DEF May, Needs
    <3>4. CASE Len(Vec[sched.i]) > 1
      <4>1. sched'.pc = "back" /\ sched'.i = sched.i /\ sched'.j = 1 /\ sched'.n = sched.j
        BY <2>4, <3>4 DEF schedule_busy
      <4>2. ~Needs(i, j)'
        BY <1>0, <1>e, <3>1, <3>2, <4>1 DEF Needs
      <4>3. May(i, j) => May(i, j)'
        BY <1>b, <2>0, <3>1, <3>3, <4>1 DEF May
      <4> QED
        BY <4>2, <4>3
    <3>5. CASE ~(Len(Vec[sched.i]) > 1)
      <4>1. sched' = Undo("back", sched.i - 1) /\ sched.j = 1
        BY <2>4, <3>1, <3>5 DEF schedule_busy
      <4>2. sched.i - 1 \in 0 .. Len(Vec) + 1
        BY <1>c, <3>1
      <4>3. /\ sched'.pc = "back" /\ sched'.i = sched.i - 1 /\ sched'.j = 1
            /\ sched.i - 1 \in 1 .. Len(Vec) => sched'.n = Len(Vec[sched.i - 1])
        BY <4>1, <4>2, UndoShape
      <4>4. ~Needs(i, j)'
        BY <1>0, <1>e, <3>1, <3>2, <4>3 DEF Needs
      <4>5. May(i, j) => i < sched.i
        BY <2>0, <3>3, <4>1
      <4>6. May(i, j) => i < sched.i - 1 \/ i = sched.i - 1
        BY <2>0, <3>1, <4>5
      <4>7. i = sched.i - 1 => j <= sched'.n
        BY <2>0, <4>3
      <4>8. May(i, j) => May(i, j)'
        BY <2>0, <4>3, <4>6, <4>7 DEF May
      <4> QED
        BY <4>4, <4>8
    <3> QED
      BY <3>4, <3>5
  <2>5. CASE schedule_send
    <3>1. sched.pc = "prepare" /\ sched.i > Len(Vec)
      BY <2>5 DEF schedule_send
    <3>2. Needs(i, j)
      BY <1>b, <1>c, <2>0, <3>1 DEF Needs
    <3>3. RunQueued'
      <4>1. [op |-> "run", c |-> <<>>] \in HostMsg /\ [op |-> "run", c |-> <<>>].op = "run"
        BY DEF HostMsg
      <4>2. h2c' = Append(h2c, [op |-> "run", c |-> <<>>])
        BY <2>5 DEF schedule_send
      <4>3. Len(h2c) + 1 \in DOMAIN h2c' /\ h2c'[Len(h2c) + 1] = [op |-> "run", c |-> <<>>]
        BY <4>1, <4>2, AppendTo DEF Shape
      <4> QED
        BY <4>1, <4>3 DEF RunQueued
    <3> QED
      BY <3>2, <3>3 DEF May, Needs
  <2>6. CASE schedule_send_fail
    <3>1. sched.pc = "prepare" /\ sched' = Undo("all", 1) /\ UNCHANGED h2c /\ 1 \in 0 .. Len(Vec) + 1
      BY <1>c, <2>6 DEF schedule_send_fail
    <3>2. sched'.pc = "all" /\ sched'.i = 1 /\ sched'.j = 1
      BY <3>1, UndoShape
    <3>3. ~RunQueued /\ run.i = 0
      BY <1>d, <3>1 DEF Preparing
    <3>4. ~Needs(i, j)'
      BY <1>0, <1>e, <3>1, <3>2, <3>3 DEF Needs
    <3>5. May(i, j)'
      BY <2>0, <3>2 DEF May
    <3> QED
      BY <3>4, <3>5
  <2>7. CASE schedule_undo_next
    <3>1. /\ sched.pc \in {"back", "all"} /\ sched.i \in 1 .. Len(Vec) /\ sched.j > sched.n /\ UNCHANGED h2c
          /\ sched' = Undo(sched.pc, IF sched.pc = "back" THEN sched.i - 1 ELSE sched.i + 1)
      BY <1>c, <2>7 DEF schedule_undo_next
    <3>2. ~RunQueued /\ run.i = 0
      BY <1>d, <3>1 DEF Preparing
    <3>3. CASE sched.pc = "back"
      <4>1. sched' = Undo("back", sched.i - 1) /\ sched.i - 1 \in 0 .. Len(Vec) + 1
        BY <1>c, <3>1, <3>3
      <4>2. /\ sched'.pc = "back" /\ sched'.i = sched.i - 1 /\ sched'.j = 1
            /\ sched.i - 1 \in 1 .. Len(Vec) => sched'.n = Len(Vec[sched.i - 1])
        BY <4>1, UndoShape
      <4>3. ~Needs(i, j)'
        BY <1>0, <1>e, <3>1, <3>2, <4>2 DEF Needs
      <4>4. May(i, j) => i < sched.i
        BY <1>b, <2>0, <3>1, <3>2, <3>3 DEF May, Needs
      <4>5. May(i, j) => i < sched.i - 1 \/ i = sched.i - 1
        BY <2>0, <3>1, <4>4
      <4>6. i = sched.i - 1 => j <= sched'.n
        BY <2>0, <4>2
      <4>7. May(i, j) => May(i, j)'
        BY <2>0, <4>2, <4>5, <4>6 DEF May
      <4> QED
        BY <4>3, <4>7
    <3>4. CASE sched.pc = "all"
      <4>1. sched' = Undo("all", sched.i + 1) /\ sched.i + 1 \in 0 .. Len(Vec) + 1
        BY <1>c, <3>1, <3>4
      <4>2. sched'.pc = "all" /\ sched'.i = sched.i + 1 /\ sched'.j = 1
        BY <4>1, UndoShape
      <4>3. ~Needs(i, j)'
        BY <1>0, <1>e, <3>1, <3>2, <4>2 DEF Needs
      <4>4. sched.n = Len(Vec[sched.i])
        BY <1>b, <3>1, <3>4
      <4>5. May(i, j) => i > sched.i \/ (i = sched.i /\ sched.j <= j)
        BY <3>2, <3>4 DEF May, Needs
      <4>6. i = sched.i => ~(sched.j <= j)
        BY <1>b, <2>0, <3>1, <4>4
      <4>7. May(i, j) => i > sched.i + 1 \/ i = sched.i + 1
        BY <2>0, <3>1, <4>5, <4>6
      <4>8. May(i, j) => May(i, j)'
        BY <2>0, <4>2, <4>7 DEF May
      <4> QED
        BY <4>3, <4>8
    <3> QED
      BY <3>1, <3>3, <3>4
  <2>8. CASE schedule_undone
    <3>1. sched.pc \in {"back", "all"} /\ sched.i \notin DOMAIN Vec /\ UNCHANGED h2c /\ sched'.pc = "idle"
      BY <2>8 DEF schedule_undone, Idle
    <3>2. ~RunQueued /\ run.i = 0
      BY <1>d, <3>1 DEF Preparing
    <3>3. ~Needs(i, j)'
      BY <1>0, <1>e, <3>1, <3>2 DEF Needs
    <3>4. DOMAIN Vec = 1 .. Len(Vec)
      BY VecShape
    <3>5. ~May(i, j)
      <4>1. CASE sched.pc = "back"
        <5>1. sched.i = 0
          BY <1>b, <1>c, <3>1, <3>4, <4>1
        <5> QED
          BY <2>0, <3>2, <4>1, <5>1 DEF May, Needs
      <4>2. CASE sched.pc = "all"
        <5>1. sched.i > Len(Vec)
          BY <1>b, <1>c, <3>1, <3>4, <4>2
        <5> QED
          BY <1>b, <1>c, <2>0, <3>2, <4>2, <5>1 DEF May, Needs
      <4> QED
        BY <3>1, <4>1, <4>2
    <3> QED
      BY <3>3, <3>5
  <2> QED
    BY <2>1, <2>2, <2>3, <2>4, <2>5, <2>6, <2>7, <2>8
<1>g. ListOwn'
  BY <1>0, <1>a, <1>f, ListMoves
<1> QED
  BY <1>0, <1>a, <1>g

\* The steps that lock and unlock a copy of the list.
LEMMA ListLocks ==
    ASSUME Shape, StageInv, ListDisciplined, ListOwn, Places, LocksExact, schedule_prepare \/ schedule_undo
    PROVE  ListOwn' /\ Places' /\ LocksExact'
<1> USE Unfold
<1> DEFINE a == sched.i
           b == sched.j
           c == Vec[a][b]
<1>1. /\ a \in DOMAIN Vec /\ b \in DOMAIN Vec[a] /\ c \in Mine /\ c \in Copy
  <2>1. sched.i \in DOMAIN Vec /\ (sched.j <= Len(Vec[sched.i]) \/ sched.j <= sched.n)
    BY VecShape DEF schedule_prepare, schedule_undo, Shape, SchedOK
  <2>2. a \in 1 .. Len(Vec) /\ b \in 1 .. Len(Vec[a]) /\ c \in Copy
    BY <2>1, SchedCopy DEF Shape
  <2> QED
    BY <2>2, VecShape, MineFirm
<1>2. UNCHANGED <<c2h, h2c, post, solo, run>>
  BY DEF schedule_prepare, schedule_undo
<1>3. /\ sched \in [pc : {"idle", "can", "prepare", "back", "all"}, i : Nat, j : Nat, n : Nat]
      /\ sched' = [sched EXCEPT !.j = sched.j + 1]
  BY DEF schedule_prepare, schedule_undo, Shape, SchedOK
<1>4. sched'.pc = sched.pc /\ sched'.i = a /\ sched'.j = b + 1 /\ sched'.n = sched.n
  BY <1>3
<1>5. ~RunQueued /\ ~RunQueued' /\ run.i = 0 /\ ~Completing /\ ~CallDue
  BY <1>2 DEF schedule_prepare, schedule_undo, Preparing, StageInv, OneStage, RunQueued
<1>6. ~InEvent(c) /\ ~InPost(c) /\ c \notin solo
  BY <1>1, <1>5, Elsewhere DEF ListDisciplined, Shape, CardShape
<1>7. \A d : (InEvent(d)' <=> InEvent(d)) /\ (InPost(d)' <=> InPost(d))
  BY <1>2 DEF InEvent, InPost
<1>8. \A i \in DOMAIN Vec : \A j \in DOMAIN Vec[i] : Vec[i][j] = c => i = a /\ j = b
  BY <1>1 DEF ListDisciplined
<1>9. \A i \in DOMAIN Vec : /\ i \in Nat
                            /\ \A j \in DOMAIN Vec[i] : j \in Nat /\ Vec[i][j] \in Copy
  BY VecShape
<1>10. m_scheduled \in [Copy -> BOOLEAN] /\ a \in Nat /\ b \in Nat /\ sched.n \in Nat
  BY <1>3 DEF Shape, LocksShape
<1> HIDE DEF a, b, c
<1>11. CASE schedule_prepare
  <2>1. sched.pc = "prepare" /\ preSchedule(c)
    BY <1>11 DEF schedule_prepare, a, b, c
  <2>2. ~m_scheduled[c]
    <3>1. ~May(a, b)
      BY <1>5, <1>10, <2>1 DEF May, Needs, a, b
    <3> QED
      BY <1>1, <1>6, <3>1 DEF ListOwn, c
  <2>3. m_scheduled' = [m_scheduled EXCEPT ![c] = TRUE]
    BY <2>1 DEF preSchedule
  <2>4. LocksExact'
    BY <1>1, <2>1, <2>2, PreLocks
  <2>5. Places'
    BY <1>1, <1>2, <2>2, <2>3, PlacesPre
  <2>6. ListOwn'
    <3> SUFFICES ASSUME NEW i \in DOMAIN Vec, NEW j \in DOMAIN Vec[i]
                 PROVE  /\ Needs(i, j)' => m_scheduled'[Vec[i][j]]
                        /\ m_scheduled'[Vec[i][j]] => May(i, j)' \/ InEvent(Vec[i][j])' \/ InPost(Vec[i][j])'
      BY DEF ListOwn, Needs, May, InEvent, InPost, RunQueued
    <3>1. i \in Nat /\ j \in Nat /\ Vec[i][j] \in Copy
      BY <1>9
    <3>2. Needs(i, j)' <=> i < a \/ (i = a /\ j < b + 1)
      BY <1>2, <1>4, <1>5, <2>1 DEF Needs
    <3>3. Needs(i, j) <=> i < a \/ (i = a /\ j < b)
      BY <1>5, <2>1 DEF Needs, a, b
    <3>4. CASE i = a /\ j = b
      <4>1. Vec[i][j] = c
        BY <3>4 DEF c
      <4>2. Needs(i, j)' /\ m_scheduled'[c]
        BY <1>1, <1>10, <2>3, <3>2, <3>4
      <4> QED
        BY <4>1, <4>2 DEF May
    <3>5. CASE ~(i = a /\ j = b)
      <4>1. m_scheduled'[Vec[i][j]] = m_scheduled[Vec[i][j]]
        BY <1>8, <1>10, <2>3, <3>1, <3>5
      <4>2. Needs(i, j)' <=> Needs(i, j)
        BY <1>10, <3>1, <3>2, <3>3, <3>5
      <4>3. May(i, j) => Needs(i, j)
        BY <2>1 DEF May
      <4> QED
        BY <1>7, <4>1, <4>2, <4>3 DEF ListOwn, May
    <3> QED
      BY <3>4, <3>5
  <2> QED
    BY <2>4, <2>5, <2>6
<1>12. CASE schedule_undo
  <2>1. sched.pc \in {"back", "all"} /\ postSchedule(c) /\ b <= sched.n
    BY <1>12 DEF schedule_undo, a, b, c
  <2>2. m_scheduled' = [m_scheduled EXCEPT ![c] = FALSE]
    BY <1>1, <2>1, PostMarks
  <2>3. LocksExact'
    BY <1>1, <2>1, PostLocks
  <2>4. PostsOnce'
    BY <1>2 DEF Places, PostsOnce, Firm, Mine, InEntry, Lockless
  <2>5. Places'
    BY <1>1, <1>2, <1>6, <1>7, <2>2, <2>4, PlacesPost
  <2>6. ListOwn'
    <3> SUFFICES ASSUME NEW i \in DOMAIN Vec, NEW j \in DOMAIN Vec[i]
                 PROVE  /\ Needs(i, j)' => m_scheduled'[Vec[i][j]]
                        /\ m_scheduled'[Vec[i][j]] => May(i, j)' \/ InEvent(Vec[i][j])' \/ InPost(Vec[i][j])'
      BY DEF ListOwn, Needs, May, InEvent, InPost, RunQueued
    <3>1. i \in Nat /\ j \in Nat /\ Vec[i][j] \in Copy
      BY <1>9
    <3>2. ~Needs(i, j)' /\ ~Needs(i, j)
      BY <1>2, <1>4, <1>5, <2>1 DEF Needs
    <3>3. CASE i = a /\ j = b
      BY <1>1, <1>10, <2>2, <3>2, <3>3 DEF c
    <3>4. CASE ~(i = a /\ j = b)
      <4>1. m_scheduled'[Vec[i][j]] = m_scheduled[Vec[i][j]]
        BY <1>8, <1>10, <2>2, <3>1, <3>4
      <4>2. May(i, j) => May(i, j)'
        <5>1. May(i, j) => \/ sched.pc = "back" /\ (i < a \/ (i = a /\ b <= j /\ j <= sched.n))
                           \/ sched.pc = "all" /\ (i > a \/ (i = a /\ b <= j))
          BY <3>2 DEF May, a, b
        <5>2. i = a /\ b <= j => b + 1 <= j
          BY <1>10, <3>1, <3>4
        <5> QED
          BY <1>4, <5>1, <5>2 DEF May
      <4> QED
        BY <1>7, <3>2, <4>1, <4>2 DEF ListOwn
    <3> QED
      BY <3>3, <3>4
  <2> QED
    BY <2>3, <2>5, <2>6
<1> QED
  BY <1>11, <1>12

CopyInv == LocksExact /\ Places /\ ListOwn

LEMMA CopySame ==
    ASSUME CopyInv, UNCHANGED <<c2h, post, solo, run, sched, m_scheduled, m_readers>>, RunQueued' <=> RunQueued
    PROVE  CopyInv'
<1>1. LocksExact'
  BY SameLocks DEF CopyInv
<1>2. Places' /\ \A c : (InEvent(c)' <=> InEvent(c)) /\ (InPost(c)' <=> InPost(c))
  BY PlacesSame DEF CopyInv
<1>3. \A i, j : (Needs(i, j)' <=> Needs(i, j)) /\ (May(i, j)' <=> May(i, j))
  BY DEF Needs, May
<1>4. ListOwn'
  BY <1>2, <1>3, ListMoves DEF CopyInv
<1> QED
  BY <1>1, <1>2, <1>4 DEF CopyInv

LEMMA CopySchedule ==
    ASSUME Shape, StageInv, StageInv', ListDisciplined, CopyInv, schedule \/ Schedule
    PROVE  CopyInv'
<1>1. CASE schedule_prepare \/ schedule_undo
  BY <1>1, ListLocks DEF CopyInv
<1>2. CASE ~(schedule_prepare \/ schedule_undo)
  <2>1. ListOwn' /\ Places' /\ UNCHANGED <<m_readers, m_scheduled>>
    BY <1>2, ListSched DEF Schedule, CopyInv
  <2> QED
    BY <2>1, SameLocks DEF CopyInv
<1> QED
  BY <1>1, <1>2

LEMMA CopyUser ==
    ASSUME Shape, StageInv, ListDisciplined, CopyInv, UserStep
    PROVE  CopyInv'
<1> USE Unfold
<1>0. RunQueued' <=> RunQueued
  BY UserMsgs DEF StageInv
<1>1. CASE wait_start \/ wait_test \/ wait_timeout \/ wait_late \/ wait_over \/ wait_queried
  <2>1. UNCHANGED Keep /\ UNCHANGED sched
    BY <1>1 DEF wait_start, wait_test, wait_timeout, wait_late, wait_over, wait_queried
  <2> QED
    BY <1>0, <2>1, CopySame
<1>2. CASE clearErrors \/ clearErrors_done
  <2>1. UNCHANGED Keep /\ UNCHANGED sched
    BY <1>2 DEF clearErrors, clearErrors_done
  <2> QED
    BY <1>0, <2>1, CopySame
<1>3. ASSUME NEW b \in BOOLEAN, finalize(b) PROVE CopyInv'
  <2>1. UNCHANGED <<c2h, post, solo, run, sched, m_scheduled, m_readers>>
    BY <1>3 DEF finalize
  <2> QED
    BY <1>0, <2>1, CopySame
<1>4. CASE recover
  <2>1. UNCHANGED <<c2h, post, solo, run, sched, m_scheduled, m_readers>>
    BY <1>4 DEF recover
  <2> QED
    BY <1>0, <2>1, CopySame
<1>5. ASSUME NEW c \in Solo, schedule_copy(c) PROVE CopyInv'
  <2>1. c \in Copy /\ CopyRes[c] \in Res /\ c \notin Mine
    BY ListAssumption DEF ListDisciplined
  <2>2. /\ preSchedule(c) /\ solo' = solo \cup {c} /\ UNCHANGED <<c2h, post, run, sched>>
        /\ c \in C2H \/ ~m_scheduled[c]
    BY <1>5 DEF schedule_copy
  <2>3. ~Lockless(CopyRes[c]) => ~m_scheduled[c]
    <3> SUFFICES ASSUME ~Lockless(CopyRes[c]), m_scheduled[c], c \in C2H PROVE FALSE
      BY <2>2
    <3>1. c \in Locking(CopyRes[c]) \cap C2H
      BY <2>1 DEF Locking
    <3>2. m_readers[CopyRes[c]] = -1
      BY <2>1, <3>1 DEF CopyInv, LocksExact, LockIs
    <3> QED
      BY <2>2, <3>2 DEF preSchedule, DeviceLockable
  <2>4. LocksExact'
    BY <2>1, <2>2, <2>3, PreLocks DEF CopyInv
  <2>5. m_scheduled' = [m_scheduled EXCEPT ![c] = TRUE]
    BY <2>2 DEF preSchedule
  <2>6. c \in Firm => ~m_scheduled[c]
    BY <2>1, <2>3 DEF Firm
  <2>7. Places' /\ \A d : (InEvent(d)' <=> InEvent(d)) /\ (InPost(d)' <=> InPost(d))
    BY <2>1, <2>2, <2>5, <2>6, PlacesPre DEF CopyInv
  <2>8. ListOwn'
    <3> SUFFICES ASSUME NEW i \in DOMAIN Vec, NEW j \in DOMAIN Vec[i]
                 PROVE  /\ Needs(i, j)' => m_scheduled'[Vec[i][j]]
                        /\ m_scheduled'[Vec[i][j]] => May(i, j)' \/ InEvent(Vec[i][j])' \/ InPost(Vec[i][j])'
      BY DEF ListOwn, Needs, May, InEvent, InPost, RunQueued
    <3>1. (Needs(i, j)' <=> Needs(i, j)) /\ (May(i, j)' <=> May(i, j))
      BY <1>0, <2>2 DEF Needs, May
    <3>2. Vec[i][j] # c /\ Vec[i][j] \in Copy
      BY <2>1, MineFirm, VecShape
    <3>3. m_scheduled'[Vec[i][j]] = m_scheduled[Vec[i][j]]
      BY <2>5, <3>2 DEF Shape, LocksShape
    <3> QED
      BY <2>7, <3>1, <3>3 DEF CopyInv, ListOwn
  <2> QED
    BY <2>4, <2>7, <2>8 DEF CopyInv
<1> QED
  BY <1>1, <1>2, <1>3, <1>4, <1>5 DEF UserStep

LEMMA CopyRelease ==
    ASSUME Shape, StageInv, CopyInv, release_copy
    PROVE  CopyInv'
<1> USE Unfold
<1>1. /\ Head(post) \in PostItem /\ Head(post) = post[1] /\ 1 \in DOMAIN post
      /\ \A p \in DOMAIN post' : p \in Nat \ {0} /\ p + 1 \in DOMAIN post /\ post'[p] = post[p + 1]
      /\ \A p \in DOMAIN post : p = 1 \/ (p - 1 \in DOMAIN post' /\ post'[p - 1] = post[p])
  <2>1. post # <<>> /\ post' = Tail(post) /\ post \in Seq(PostItem)
    BY DEF release_copy, Shape, RespShape
  <2>2. /\ Head(post) \in PostItem /\ Head(post) = post[1]
        /\ Len(post) \in Nat \ {0}
        /\ DOMAIN post = 1 .. Len(post) /\ DOMAIN post' = 1 .. Len(post) - 1
        /\ \A k \in 1 .. Len(post) - 1 : post'[k] = post[k + 1]
    BY <2>1, TailOf
  <2> QED
    BY <2>2
<1>0. PICK c \in Copy : c = Head(post).c
  BY <1>1 DEF PostItem
<1>2. postSchedule(c) /\ UNCHANGED <<c2h, h2c, solo, run, sched>>
  BY <1>0 DEF release_copy
<1>3. InPost(c)
  BY <1>0, <1>1 DEF InPost
<1>4. m_scheduled' = [m_scheduled EXCEPT ![c] = FALSE] /\ LocksExact'
  BY <1>2, <1>3, PostMarks, PostLocks DEF CopyInv
<1>5. c \in Firm => ~InPost(c)'
  <2> SUFFICES ASSUME c \in Firm, NEW p \in DOMAIN post', post'[p].c = c PROVE FALSE
    BY DEF InPost
  <2>1. p + 1 = 1
    BY <1>0, <1>1 DEF CopyInv, Places, PostsOnce
  <2> QED
    BY <1>1, <2>1
<1>6. c \in Firm => ~InEvent(c)' /\ c \notin solo
  <2>1. InEvent(c)' <=> InEvent(c)
    BY <1>2 DEF InEvent
  <2> QED
    BY <1>3, <2>1 DEF CopyInv, Places, Apart
<1>7. PostsOnce'
  <2> SUFFICES ASSUME NEW p \in DOMAIN post', NEW q \in DOMAIN post', post'[p].c = post'[q].c, post'[p].c \in Firm
               PROVE  p = q
    BY DEF PostsOnce, Firm, Mine, InEntry, Lockless
  <2>1. p + 1 = q + 1
    BY <1>1 DEF CopyInv, Places, PostsOnce
  <2> QED
    BY <1>1, <2>1
<1>8. \A d : (InPost(d)' => InPost(d)) /\ (InPost(d) => InPost(d)' \/ d = c)
  BY <1>0, <1>1 DEF InPost
<1>9. Places' /\ \A d : InEvent(d)' <=> InEvent(d)
  BY <1>2, <1>3, <1>4, <1>5, <1>6, <1>7, <1>8, PlacesPost DEF CopyInv
<1>10. ListOwn'
  <2> SUFFICES ASSUME NEW i \in DOMAIN Vec, NEW j \in DOMAIN Vec[i]
               PROVE  /\ Needs(i, j)' => m_scheduled'[Vec[i][j]]
                      /\ m_scheduled'[Vec[i][j]] => May(i, j)' \/ InEvent(Vec[i][j])' \/ InPost(Vec[i][j])'
    BY DEF ListOwn, Needs, May, InEvent, InPost, RunQueued
  <2>1. (Needs(i, j)' <=> Needs(i, j)) /\ (May(i, j)' <=> May(i, j))
    BY <1>2 DEF Needs, May, RunQueued
  <2>2. Vec[i][j] \in Copy /\ Vec[i][j] \in Mine /\ m_scheduled \in [Copy -> BOOLEAN]
    BY VecShape, MineFirm DEF Shape, LocksShape
  <2>3. CASE Vec[i][j] # c
    BY <1>4, <1>8, <1>9, <2>1, <2>2, <2>3 DEF CopyInv, ListOwn
  <2>4. CASE Vec[i][j] = c
    <3>1. ListPosts
      BY <1>3, <2>2, <2>4 DEF InPost, ListPosts
    <3>2. ~Preparing /\ ~RunQueued
      BY <3>1 DEF StageInv, OneStage, LastEvent
    <3>3. run.i = 0 \/ i < run.i
      BY <1>3, <2>4 DEF CopyInv, Places, Behind
    <3>4. ~Needs(i, j)
      BY <3>2, <3>3, VecShape DEF Needs, Preparing, Shape, CardShape
    <3>5. ~m_scheduled'[c]
      BY <1>3, <1>4, <2>2
    <3> QED
      BY <2>1, <2>4, <3>4, <3>5
  <2> QED
    BY <2>3, <2>4
<1> QED
  BY <1>4, <1>9, <1>10 DEF CopyInv

\* An event is taken: what it reports is with the response thread.
LEMMA CopyReceive ==
    ASSUME Shape, StageInv, CopyInv, NEW o, Receive(o),
           UNCHANGED <<h2c, solo, run, sched, m_scheduled, m_readers>>,
           \A d : InPost(d)' <=> \E m \in DOMAIN Head(c2h).cs : Head(c2h).cs[m] = d,
           \A p \in DOMAIN post' : p \in DOMAIN Head(c2h).cs /\ post'[p].c = Head(c2h).cs[p]
    PROVE  CopyInv'
<1>1. /\ Head(c2h) = c2h[1] /\ 1 \in DOMAIN c2h
      /\ \A k \in DOMAIN c2h' : k \in Nat \ {0} /\ k + 1 \in DOMAIN c2h /\ c2h'[k] = c2h[k + 1]
      /\ \A k \in DOMAIN c2h : k = 1 \/ (k - 1 \in DOMAIN c2h' /\ c2h'[k - 1] = c2h[k])
  <2>1. /\ Head(c2h) = c2h[1] /\ Len(c2h) \in Nat \ {0}
        /\ DOMAIN c2h = 1 .. Len(c2h) /\ DOMAIN c2h' = 1 .. Len(c2h) - 1
        /\ \A k \in 1 .. Len(c2h) - 1 : c2h'[k] = c2h[k + 1]
    BY Received
  <2> QED
    BY <2>1
<1>2. \A d : InEvent(d)' \/ InPost(d)' <=> InEvent(d)
  <2> SUFFICES ASSUME NEW d PROVE InEvent(d)' \/ InPost(d)' <=> InEvent(d)
    OBVIOUS
  <2>1. InEvent(d)' => InEvent(d)
    BY <1>1 DEF InEvent
  <2>2. InPost(d)' => InEvent(d)
    BY <1>1 DEF InEvent
  <2>3. InEvent(d) => InEvent(d)' \/ InPost(d)'
    <3> SUFFICES ASSUME NEW k \in DOMAIN c2h, NEW m \in DOMAIN c2h[k].cs, c2h[k].cs[m] = d
                 PROVE  InEvent(d)' \/ InPost(d)'
      BY DEF InEvent
    <3>1. CASE k = 1
      BY <1>1, <3>1
    <3>2. CASE k # 1
      BY <1>1, <3>2 DEF InEvent
    <3> QED
      BY <3>1, <3>2
  <2> QED
    BY <2>1, <2>2, <2>3
<1>3. \A d : ~InPost(d)
  BY DEF Receive, respIdle, InPost
<1>4. Firm' = Firm
  BY DEF Firm, Mine, InEntry, Lockless
<1>5. Held'
  BY <1>2, <1>4 DEF CopyInv, Places, Held
<1>6. Apart'
  <2> SUFFICES ASSUME NEW d \in Firm
               PROVE  (InEvent(d)' => ~InPost(d)' /\ d \notin solo) /\ (InPost(d)' => d \notin solo)
    BY <1>4 DEF Apart
  <2>1. InEvent(d) => d \notin solo
    BY DEF CopyInv, Places, Apart
  <2>2. ASSUME InEvent(d)', InPost(d)' PROVE FALSE
    <3>1. PICK k \in DOMAIN c2h' : \E m \in DOMAIN c2h'[k].cs : c2h'[k].cs[m] = d
      BY <2>2 DEF InEvent
    <3>2. PICK m \in DOMAIN c2h'[k].cs : c2h'[k].cs[m] = d
      BY <3>1
    <3>3. PICK n \in DOMAIN Head(c2h).cs : Head(c2h).cs[n] = d
      BY <2>2
    <3>4. k + 1 = 1
      BY <1>1, <3>2, <3>3 DEF CopyInv, Places, EventsOnce
    <3> QED
      BY <1>1, <3>4
  <2> QED
    BY <1>2, <2>1, <2>2
<1>7. EventsOnce'
  <2> SUFFICES ASSUME NEW k \in DOMAIN c2h', NEW l \in DOMAIN c2h', NEW m \in DOMAIN c2h'[k].cs, NEW n \in DOMAIN c2h'[l].cs,
                      c2h'[k].cs[m] = c2h'[l].cs[n], c2h'[k].cs[m] \in Firm
               PROVE  k = l /\ m = n
    BY <1>4 DEF EventsOnce
  <2>1. k + 1 = l + 1 /\ m = n
    BY <1>1 DEF CopyInv, Places, EventsOnce
  <2> QED
    BY <1>1, <2>1
<1>8. PostsOnce'
  <2> SUFFICES ASSUME NEW p \in DOMAIN post', NEW q \in DOMAIN post', post'[p].c = post'[q].c, post'[p].c \in Firm
               PROVE  p = q
    BY <1>4 DEF PostsOnce
  <2> QED
    BY <1>1 DEF CopyInv, Places, EventsOnce
<1>9. Behind'
  BY <1>2 DEF CopyInv, Places, Behind
<1>10. \A i, j : (Needs(i, j)' <=> Needs(i, j)) /\ (May(i, j)' <=> May(i, j))
  BY DEF Needs, May, RunQueued
<1>11. ListOwn'
  BY <1>2, <1>3, <1>10, ListMoves DEF CopyInv
<1>12. LocksExact'
  BY SameLocks DEF CopyInv
<1> QED
  BY <1>5, <1>6, <1>7, <1>8, <1>9, <1>11, <1>12 DEF CopyInv, Places

LEMMA CopyRespond ==
    ASSUME Shape, StageInv, CopyInv, Respond
    PROVE  CopyInv'
<1> USE Unfold
<1>1. CASE list_call
  <2>1. UNCHANGED <<c2h, h2c, post, solo, run, sched, m_scheduled, m_readers>>
    BY <1>1 DEF list_call
  <2> QED
    BY <2>1, CopySame DEF RunQueued
<1>2. CASE release_copy
  BY <1>2, CopyRelease
<1>3. CASE executed
  <2>1. /\ Receive("executed") /\ UNCHANGED <<h2c, solo, run, sched, m_scheduled, m_readers>>
        /\ post' = Posts(Head(c2h).cs, ~Head(c2h).ok)
    BY <1>3 DEF executed
  <2>2. /\ DOMAIN post' = DOMAIN Head(c2h).cs
        /\ \A p \in DOMAIN post' : post'[p].c = Head(c2h).cs[p]
    BY <2>1 DEF Posts
  <2>3. \A d : InPost(d)' <=> \E m \in DOMAIN Head(c2h).cs : Head(c2h).cs[m] = d
    BY <2>2 DEF InPost
  <2> QED
    BY <2>1, <2>2, <2>3, CopyReceive
<1>4. ~context_fatal
  <2> SUFFICES ASSUME context_fatal PROVE FALSE
    OBVIOUS
  <2>1. Head(c2h) = c2h[1] /\ Head(c2h).op = "break" /\ 1 \in DOMAIN c2h
    BY Received DEF context_fatal
  <2> QED
    BY <2>1 DEF StageInv, NoBreak
<1>5. CASE errors_arrive \/ clearRequestSucceeded
  <2>1. PICK o \in {"errors", "cleared"} : Receive(o)
    BY <1>5 DEF errors_arrive, clearRequestSucceeded
  <2>2. UNCHANGED <<h2c, solo, run, sched, m_scheduled, m_readers, post>>
    BY <1>5 DEF errors_arrive, clearRequestSucceeded
  <2>3. Head(c2h).cs = <<>>
    BY <2>1, Received
  <2>4. post' = <<>>
    BY <2>1, <2>2 DEF Receive, respIdle
  <2>5. \A d : InPost(d)' <=> \E m \in DOMAIN Head(c2h).cs : Head(c2h).cs[m] = d
    BY <2>3, <2>4 DEF InPost
  <2> QED
    BY <2>1, <2>2, <2>4, <2>5, CopyReceive
<1> QED
  BY <1>1, <1>2, <1>3, <1>4, <1>5 DEF Respond

\* Event e joins the channel, and maybe one that has no copies.
LEMMA EventsGrow ==
    ASSUME NEW e, NEW n, EventsOnce,
           \A k \in DOMAIN c2h : k \in DOMAIN c2h' /\ c2h'[k] = c2h[k] /\ k # n,
           n \in DOMAIN c2h' /\ c2h'[n] = e,
           \A k \in DOMAIN c2h' : k \in DOMAIN c2h \/ k = n \/ c2h'[k].cs = <<>>,
           \A m, l \in DOMAIN e.cs : e.cs[m] = e.cs[l] /\ e.cs[m] \in Firm => m = l,
           \A m \in DOMAIN e.cs : e.cs[m] \in Firm => ~InEvent(e.cs[m])
    PROVE  /\ EventsOnce'
           /\ \A d : InEvent(d)' <=> InEvent(d) \/ \E m \in DOMAIN e.cs : e.cs[m] = d
<1>1. \A k \in DOMAIN c2h' : \A m \in DOMAIN c2h'[k].cs : k \in DOMAIN c2h \/ k = n
  OBVIOUS
<1>2. EventsOnce'
  <2> SUFFICES ASSUME NEW k \in DOMAIN c2h', NEW l \in DOMAIN c2h', NEW m \in DOMAIN c2h'[k].cs, NEW q \in DOMAIN c2h'[l].cs,
                      c2h'[k].cs[m] = c2h'[l].cs[q], c2h'[k].cs[m] \in Firm
               PROVE  k = l /\ m = q
    BY DEF EventsOnce, Firm, Mine, InEntry, Lockless
  <2>1. CASE k \in DOMAIN c2h /\ l \in DOMAIN c2h
    BY <2>1 DEF EventsOnce
  <2>2. CASE k = n /\ l = n
    BY <2>2
  <2>3. CASE k \in DOMAIN c2h /\ l = n
    <3>1. InEvent(c2h'[k].cs[m])
      BY <2>3 DEF InEvent
    <3> QED
      BY <2>3, <3>1
  <2>4. CASE k = n /\ l \in DOMAIN c2h
    <3>1. InEvent(c2h'[l].cs[q])
      BY <2>4 DEF InEvent
    <3> QED
      BY <2>4, <3>1
  <2> QED
    BY <1>1, <2>1, <2>2, <2>3, <2>4
<1>3. ASSUME NEW d PROVE InEvent(d)' <=> InEvent(d) \/ \E m \in DOMAIN e.cs : e.cs[m] = d
  <2>1. InEvent(d) => InEvent(d)'
    BY DEF InEvent
  <2>2. (\E m \in DOMAIN e.cs : e.cs[m] = d) => InEvent(d)'
    BY DEF InEvent
  <2>3. InEvent(d)' => InEvent(d) \/ \E m \in DOMAIN e.cs : e.cs[m] = d
    <3> SUFFICES ASSUME NEW k \in DOMAIN c2h', NEW m \in DOMAIN c2h'[k].cs, c2h'[k].cs[m] = d
                 PROVE  InEvent(d) \/ \E l \in DOMAIN e.cs : e.cs[l] = d
      BY DEF InEvent
    <3>1. CASE k \in DOMAIN c2h
      BY <3>1 DEF InEvent
    <3>2. CASE k = n
      BY <3>2
    <3> QED
      BY <1>1, <3>1, <3>2
  <2> QED
    BY <2>1, <2>2, <2>3
<1> QED
  BY <1>2, <1>3

\* An event without copies is sent, or none.
LEMMA EventsEmpty ==
    ASSUME Shape, EventsOnce, NEW e \in CardMsg, e.cs = <<>>, c2h' = c2h \/ c2h' = Append(c2h, e)
    PROVE  EventsOnce' /\ \A d : InEvent(d)' <=> InEvent(d)
<1>1. CASE c2h' = c2h
  BY <1>1 DEF EventsOnce, InEvent, Firm, Mine, InEntry, Lockless
<1>2. CASE c2h' = Append(c2h, e)
  <2>1. /\ DOMAIN c2h' = 1 .. Len(c2h) + 1 /\ DOMAIN c2h = 1 .. Len(c2h) /\ Len(c2h) \in Nat
        /\ \A k \in 1 .. Len(c2h) : c2h'[k] = c2h[k]
        /\ c2h'[Len(c2h) + 1] = e
    BY <1>2, AppendTo DEF Shape
  <2>2. PICK n \in Nat : n = Len(c2h) + 1
    BY <2>1
  <2>3. /\ \A k \in DOMAIN c2h : k \in DOMAIN c2h' /\ c2h'[k] = c2h[k] /\ k # n
        /\ n \in DOMAIN c2h' /\ c2h'[n] = e
        /\ \A k \in DOMAIN c2h' : k \in DOMAIN c2h \/ k = n \/ c2h'[k].cs = <<>>
    BY <2>1, <2>2
  <2>4. DOMAIN e.cs = {}
    OBVIOUS
  <2> QED
    BY <2>3, <2>4, EventsGrow
<1> QED
  BY <1>1, <1>2

LEMMA CopyTakes ==
    ASSUME Shape, StageInv, CopyInv, card_takes
    PROVE  CopyInv'
<1> USE Unfold
<1>1. UNCHANGED <<post, solo, sched, m_scheduled, m_readers>>
  BY DEF card_takes
<1>2. /\ Head(h2c).op = "run" => RunQueued /\ ~RunQueued'
      /\ Head(h2c).op # "run" => (RunQueued' <=> RunQueued)
  BY TakeMsg DEF StageInv
<1>3. EventsOnce' /\ \A d : InEvent(d)' <=> InEvent(d)
  <2>1. \/ c2h' = c2h
        \/ c2h' = Append(c2h, Event("cleared"))
        \/ c2h' = Append(c2h, [Event("errors") EXCEPT !.n = cardErr])
    BY Taken DEF card_takes
  <2>2. /\ Event("cleared") \in CardMsg /\ Event("cleared").cs = <<>>
        /\ [Event("errors") EXCEPT !.n = cardErr] \in CardMsg /\ [Event("errors") EXCEPT !.n = cardErr].cs = <<>>
    BY EventShape DEF Shape, CardShape
  <2>3. PICK e \in CardMsg : e.cs = <<>> /\ (c2h' = c2h \/ c2h' = Append(c2h, e))
    BY <2>1, <2>2
  <2> QED
    BY <2>3, EventsEmpty DEF CopyInv, Places
<1>4. \A d : InPost(d)' <=> InPost(d)
  BY <1>1 DEF InPost
<1>5. Firm' = Firm
  BY DEF Firm, Mine, InEntry, Lockless
<1>6. Held' /\ Apart' /\ PostsOnce'
  BY <1>1, <1>3, <1>4, <1>5 DEF CopyInv, Places, Held, Apart, PostsOnce
<1>7. LocksExact'
  BY <1>1, SameLocks DEF CopyInv
<1>8. CASE Head(h2c).op # "run"
  <2>1. UNCHANGED run
    BY <1>8, Taken DEF card_takes
  <2>2. Behind'
    BY <1>3, <1>4, <2>1 DEF CopyInv, Places, Behind
  <2>3. \A i, j : (Needs(i, j)' <=> Needs(i, j)) /\ (May(i, j)' <=> May(i, j))
    BY <1>1, <1>2, <1>8, <2>1 DEF Needs, May
  <2>4. ListOwn'
    BY <1>1, <1>3, <1>4, <2>3, ListMoves DEF CopyInv
  <2> QED
    BY <1>3, <1>6, <1>7, <2>2, <2>4 DEF CopyInv, Places
<1>9. CASE Head(h2c).op = "run"
  <2>1. run.i = 0 /\ run' = [i |-> 1, failed |-> FALSE] /\ RunQueued /\ ~RunQueued'
    BY <1>2, <1>9 DEF card_takes
  <2>2. run'.i = 1
    BY <2>1
  <2>3. ~Completing /\ ~CallDue
    BY <2>1 DEF StageInv, OneStage
  <2>4. \A d \in Mine : ~InEvent(d) /\ ~InPost(d)
    BY <2>1, <2>3, Elsewhere
  <2>5. Behind'
    BY <1>3, <1>4, <2>4, MineFirm DEF Behind
  <2>6. ASSUME NEW i \in DOMAIN Vec, NEW j \in DOMAIN Vec[i]
        PROVE  Needs(i, j) /\ Needs(i, j)' /\ May(i, j)'
    BY <2>1, <2>2, VecShape DEF Needs, May
  <2>7. ListOwn'
    BY <1>1, <1>3, <1>4, <2>6, ListMoves DEF CopyInv
  <2> QED
    BY <1>3, <1>6, <1>7, <2>5, <2>7 DEF CopyInv, Places
<1> QED
  BY <1>8, <1>9

LEMMA CopyRuns ==
    ASSUME Shape, StageInv, ListDisciplined, CopyInv, NEW ok \in BOOLEAN, card_runs(ok)
    PROVE  CopyInv'
<1> USE Unfold
<1>1. UNCHANGED <<post, h2c, solo, sched, m_scheduled, m_readers>>
  BY DEF card_runs
<1>0. /\ run.i \in 1 .. Len(Vec) /\ Len(Vec) \in Nat
      /\ run'.i = IF run.i = Len(Vec) THEN 0 ELSE run.i + 1
  BY RunsEvents, VecShape DEF card_runs, NoRun
<1>2. PICK r \in 1 .. Len(Vec) : r = run.i
  BY <1>0
<1>3. r \in DOMAIN Vec /\ DOMAIN Vec = 1 .. Len(Vec)
  BY VecShape
<1>4. ~RunQueued /\ ~Preparing
  BY <1>0, <1>2 DEF StageInv, OneStage
<1>5. \A m \in DOMAIN Vec[r] : LET d == Vec[r][m] IN
        d \in Mine /\ m_scheduled[d] /\ ~InEvent(d) /\ ~InPost(d) /\ d \notin solo
  <2> SUFFICES ASSUME NEW m \in DOMAIN Vec[r]
               PROVE  /\ Vec[r][m] \in Mine /\ m_scheduled[Vec[r][m]]
                      /\ ~InEvent(Vec[r][m]) /\ ~InPost(Vec[r][m]) /\ Vec[r][m] \notin solo
    OBVIOUS
  <2>1. Vec[r][m] \in Mine
    BY <1>3, MineFirm
  <2>2. Needs(r, m)
    BY <1>0, <1>2 DEF Needs
  <2>3. m_scheduled[Vec[r][m]]
    BY <1>3, <2>2 DEF CopyInv, ListOwn
  <2>4. ~InEvent(Vec[r][m]) /\ ~InPost(Vec[r][m])
    BY <1>0, <1>2, <1>3 DEF CopyInv, Places, Behind
  <2>5. Vec[r][m] \notin solo
    BY <2>1 DEF ListDisciplined, Shape, CardShape
  <2> QED
    BY <2>1, <2>3, <2>4, <2>5
<1>6. EventsOnce' /\ \A d : InEvent(d)' <=> InEvent(d) \/ \E m \in DOMAIN Vec[r] : Vec[r][m] = d
  <2>1. PICK e \in CardMsg : e = Ran(ok)
    BY RunsEvents
  <2>2. e.cs = Vec[r]
    BY <1>2, <2>1, RunsEvents
  <2>3. PICK n \in Nat : n = Len(c2h) + 1
    BY RunsEvents
  <2>4. /\ \A k \in DOMAIN c2h : k \in DOMAIN c2h' /\ c2h'[k] = c2h[k] /\ k # n
        /\ n \in DOMAIN c2h' /\ c2h'[n] = e
    BY <2>1, <2>3, RunsEvents
  <2>5. \A k \in DOMAIN c2h' : k \in DOMAIN c2h \/ k = n \/ c2h'[k].cs = <<>>
    <3>1. \A k \in DOMAIN c2h' : k \in DOMAIN c2h \/ k = n \/ c2h'[k] = AllRan
      BY <2>3, RunsEvents
    <3>2. AllRan.cs = <<>>
      BY EventShape
    <3> QED
      BY <3>1, <3>2
  <2>6. \A m, l \in DOMAIN e.cs : e.cs[m] = e.cs[l] /\ e.cs[m] \in Firm => m = l
    BY <1>3, <2>2 DEF ListDisciplined
  <2>7. \A m \in DOMAIN e.cs : e.cs[m] \in Firm => ~InEvent(e.cs[m])
    BY <1>5, <2>2
  <2>8. EventsOnce' /\ \A d : InEvent(d)' <=> InEvent(d) \/ \E m \in DOMAIN e.cs : e.cs[m] = d
    BY <2>4, <2>5, <2>6, <2>7, EventsGrow DEF CopyInv, Places
  <2> QED
    BY <2>2, <2>8
<1>7. \A d : InPost(d)' <=> InPost(d)
  BY <1>1 DEF InPost
<1>8. Firm' = Firm
  BY DEF Firm, Mine, InEntry, Lockless
<1>9. Held' /\ PostsOnce'
  BY <1>1, <1>5, <1>6, <1>7, <1>8 DEF CopyInv, Places, Held, PostsOnce
<1>10. Apart'
  BY <1>1, <1>5, <1>6, <1>7, <1>8 DEF CopyInv, Places, Apart
<1>11. LocksExact'
  BY <1>1, SameLocks DEF CopyInv
<1>12. \A i \in DOMAIN Vec : \A j \in DOMAIN Vec[i] : (\E m \in DOMAIN Vec[r] : Vec[r][m] = Vec[i][j]) <=> i = r
  BY <1>3 DEF ListDisciplined
<1>13. Behind'
  <2> SUFFICES ASSUME NEW i \in DOMAIN Vec, NEW j \in DOMAIN Vec[i], InEvent(Vec[i][j])' \/ InPost(Vec[i][j])'
               PROVE  run'.i = 0 \/ i < run'.i
    BY DEF Behind, InEvent, InPost
  <2>1. i = r \/ i < r
    <3>1. i = r \/ InEvent(Vec[i][j]) \/ InPost(Vec[i][j])
      BY <1>6, <1>7, <1>12
    <3>2. InEvent(Vec[i][j]) \/ InPost(Vec[i][j]) => run.i = 0 \/ i < run.i
      BY DEF CopyInv, Places, Behind
    <3> QED
      BY <1>2, <3>1, <3>2
  <2> QED
    BY <1>0, <1>2, <1>3, <2>1
<1>14. ListOwn'
  <2>1. ASSUME NEW i \in DOMAIN Vec, NEW j \in DOMAIN Vec[i]
        PROVE  /\ Needs(i, j)' => Needs(i, j)
               /\ May(i, j) => May(i, j)' \/ InEvent(Vec[i][j])'
               /\ InEvent(Vec[i][j]) \/ InPost(Vec[i][j]) => InEvent(Vec[i][j])' \/ InPost(Vec[i][j])'
    <3>1. ~RunQueued' /\ sched'.pc = sched.pc
      BY <1>1, <1>4 DEF RunQueued
    <3>2. i \in 1 .. Len(Vec) /\ sched.pc # "prepare" /\ sched.pc # "back" /\ sched.pc # "all"
      BY <1>3, <1>4 DEF Preparing
    <3>3. Needs(i, j)' <=> run'.i # 0 /\ run'.i <= i
      BY <3>1, <3>2 DEF Needs
    <3>4. Needs(i, j) <=> r <= i
      BY <1>0, <1>2, <1>4, <3>2 DEF Needs
    <3>5. Needs(i, j)' => Needs(i, j)
      BY <1>0, <1>2, <3>2, <3>3, <3>4
    <3>6. May(i, j) => Needs(i, j)
      BY <3>2 DEF May
    <3>7. r <= i => i = r \/ Needs(i, j)'
      BY <1>0, <1>2, <3>2, <3>3
    <3>8. i = r => InEvent(Vec[i][j])'
      BY <1>6
    <3>9. May(i, j) => May(i, j)' \/ InEvent(Vec[i][j])'
      BY <3>4, <3>6, <3>7, <3>8 DEF May
    <3> QED
      BY <1>6, <1>7, <3>5, <3>9
  <2> QED
    BY <1>1, <2>1, ListMoves DEF CopyInv
<1> QED
  BY <1>6, <1>9, <1>10, <1>11, <1>13, <1>14 DEF CopyInv, Places

LEMMA CopyCopies ==
    ASSUME Shape, ListDisciplined, CopyInv, NEW c \in Copy, card_copies(c)
    PROVE  CopyInv'
<1> USE Unfold
<1>1. /\ UNCHANGED <<post, h2c, run, sched, m_scheduled, m_readers>>
      /\ c \in solo /\ solo' = solo \ {c}
  BY DEF card_copies
<1>2. PICK e \in CardMsg : e.cs = <<c>> /\ c2h' = Append(c2h, e)
  BY EventShape DEF card_copies
<1>3. /\ DOMAIN c2h' = 1 .. Len(c2h) + 1 /\ DOMAIN c2h = 1 .. Len(c2h) /\ Len(c2h) \in Nat
      /\ \A k \in 1 .. Len(c2h) : c2h'[k] = c2h[k]
      /\ c2h'[Len(c2h) + 1] = e
  BY <1>2, AppendTo DEF Shape
<1>4. c \in Firm => ~InEvent(c) /\ ~InPost(c) /\ m_scheduled[c]
  BY <1>1 DEF CopyInv, Places, Held, Apart
<1>5. c \notin Mine
  BY <1>1 DEF ListDisciplined, Shape, CardShape
<1>6. EventsOnce' /\ \A d : InEvent(d)' <=> InEvent(d) \/ d = c
  <2>1. PICK n \in Nat : n = Len(c2h) + 1
    BY <1>3
  <2>2. /\ \A k \in DOMAIN c2h : k \in DOMAIN c2h' /\ c2h'[k] = c2h[k] /\ k # n
        /\ n \in DOMAIN c2h' /\ c2h'[n] = e
        /\ \A k \in DOMAIN c2h' : k \in DOMAIN c2h \/ k = n \/ c2h'[k].cs = <<>>
    BY <1>3, <2>1
  <2>3. DOMAIN e.cs = {1} /\ e.cs[1] = c
    BY <1>2
  <2>4. /\ \A m, l \in DOMAIN e.cs : e.cs[m] = e.cs[l] /\ e.cs[m] \in Firm => m = l
        /\ \A m \in DOMAIN e.cs : e.cs[m] \in Firm => ~InEvent(e.cs[m])
    BY <1>4, <2>3
  <2>5. EventsOnce' /\ \A d : InEvent(d)' <=> InEvent(d) \/ \E m \in DOMAIN e.cs : e.cs[m] = d
    BY <2>2, <2>4, EventsGrow DEF CopyInv, Places
  <2> QED
    BY <2>3, <2>5
<1>7. \A d : InPost(d)' <=> InPost(d)
  BY <1>1 DEF InPost
<1>8. Firm' = Firm
  BY DEF Firm, Mine, InEntry, Lockless
<1>9. Held' /\ PostsOnce'
  BY <1>1, <1>4, <1>6, <1>7, <1>8 DEF CopyInv, Places, Held, PostsOnce
<1>10. Apart'
  BY <1>1, <1>4, <1>6, <1>7, <1>8 DEF CopyInv, Places, Apart
<1>11. LocksExact'
  BY <1>1, SameLocks DEF CopyInv
<1>12. \A i \in DOMAIN Vec : \A j \in DOMAIN Vec[i] : InEvent(Vec[i][j])' <=> InEvent(Vec[i][j])
  BY <1>5, <1>6, MineFirm
<1>13. Behind'
  BY <1>1, <1>7, <1>12 DEF CopyInv, Places, Behind
<1>14. \A i, j : (Needs(i, j)' <=> Needs(i, j)) /\ (May(i, j)' <=> May(i, j))
  BY <1>1 DEF Needs, May, RunQueued
<1>15. ListOwn'
  BY <1>1, <1>7, <1>12, <1>14, ListMoves DEF CopyInv
<1> QED
  BY <1>6, <1>9, <1>10, <1>11, <1>13, <1>15 DEF CopyInv, Places

LEMMA CopyStarts == Init => CopyInv
<1> SUFFICES ASSUME Init PROVE CopyInv
  OBVIOUS
<1>1. (\A c : ~InEvent(c) /\ ~InPost(c)) /\ EventsOnce /\ PostsOnce /\ solo = {}
  BY DEF Init, InEvent, InPost, EventsOnce, PostsOnce
<1>2. Places
  BY <1>1 DEF Places, Held, Apart, Behind
<1>3. \A i, j : ~Needs(i, j)
  BY DEF Init, Idle, NoRun, Needs, RunQueued
<1>4. \A i \in DOMAIN Vec : \A j \in DOMAIN Vec[i] : ~m_scheduled[Vec[i][j]]
  BY VecShape DEF Init
<1>5. ListOwn
  BY <1>3, <1>4 DEF ListOwn
<1>6. LocksExact
  <2>1. \A r \in Res : Locking(r) = {} /\ m_readers[r] = 0
    BY DEF Init, HostResInit, Locking
  <2>2. LockIs(0, {})
    BY FS_EmptySet DEF LockIs
  <2> QED
    BY <2>1, <2>2 DEF LocksExact
<1> QED
  BY <1>2, <1>5, <1>6 DEF CopyInv

LEMMA CopyKept ==
    ASSUME Shape, StageInv, StageInv', ListDisciplined, CopyInv, [Next]_vars, broke' = 0
    PROVE  CopyInv'
<1>1. CASE UNCHANGED vars
  <2>1. UNCHANGED <<c2h, h2c, post, solo, run, sched, m_scheduled, m_readers>>
    BY <1>1, Unfold DEF vars
  <2> QED
    BY <2>1, CopySame DEF RunQueued
<1>2. CASE Card
  BY <1>2, CopyTakes, CopyRuns, CopyCopies DEF Card
<1>3. CASE Next
  BY <1>2, <1>3, NotBroken, CopySchedule, CopyUser, CopyRespond DEF Next, UserStep
<1> QED
  BY <1>1, <1>3

\* The list while the context has not broken.
ListInv == broke = 0 => StageInv /\ CopyInv

LEMMA ListInvKept ==
    ASSUME ListDisciplined
    PROVE  Spec => [](Shape /\ ListInv)
<1>1. Init => Shape /\ ListInv
  BY ShapeStarts, StageStarts, CopyStarts DEF ListInv
<1>2. ASSUME Shape /\ ListInv, [Next]_vars PROVE (Shape /\ ListInv)'
  <2>1. Shape'
    BY <1>2, ShapeKept
  <2>2. ASSUME broke' = 0 PROVE StageInv' /\ CopyInv'
    <3>1. StageInv /\ CopyInv
      BY <1>2, <2>2, NotBroken DEF ListInv
    <3>2. StageInv'
      BY <1>2, <2>2, <3>1, StageKept
    <3> QED
      BY <1>2, <2>2, <3>1, <3>2, CopyKept
  <2> QED
    BY <2>1, <2>2 DEF ListInv
<1> QED
  BY <1>1, <1>2, PTL DEF Spec

\* The resources of the copies that the card works on stay locked, for write if
\* it writes them: whoever else copies, whichever schedules fail half way, as long
\* as the context does not break.
THEOREM ListKeepsLocks ==
    ASSUME ListDisciplined
    PROVE  Spec => []LockHeldOnCard
<1>1. ASSUME Shape, ListInv PROVE LockHeldOnCard
  <2> SUFFICES ASSUME broke = 0, NEW c \in Copy, OnCard(c), ~Lockless(CopyRes[c])
               PROVE  IF c \in C2H THEN m_readers[CopyRes[c]] = -1 ELSE m_readers[CopyRes[c]] > 0
    BY DEF LockHeldOnCard
  <2>0. CopyInv /\ CopyRes[c] \in Res /\ m_readers[CopyRes[c]] \in Int
    BY <1>1, ListAssumption DEF ListInv, Shape, LocksShape
  <2>1. m_scheduled[c]
    <3>1. CASE c \in solo
      BY <2>0, <3>1 DEF CopyInv, Places, Held, Firm
    <3>2. ASSUME NEW i \in DOMAIN Vec, NEW j \in DOMAIN Vec[i], Vec[i][j] = c, RunQueued \/ (run.i # 0 /\ run.i <= i)
          PROVE  m_scheduled[c]
      BY <2>0, <3>2 DEF CopyInv, ListOwn, Needs
    <3> QED
      BY <3>1, <3>2 DEF OnCard, InEntry
  <2>2. c \in Locking(CopyRes[c]) /\ LockIs(m_readers[CopyRes[c]], Locking(CopyRes[c]))
    BY <2>0, <2>1 DEF Locking, CopyInv, LocksExact
  <2>3. CASE c \in C2H
    BY <2>2, <2>3 DEF LockIs
  <2>4. CASE c \notin C2H
    <3>1. Locking(CopyRes[c]) \cap C2H = {}
      BY <2>2, <2>4 DEF LockIs
    <3>2. m_readers[CopyRes[c]] = Cardinality(Locking(CopyRes[c])) /\ IsFiniteSet(Locking(CopyRes[c]))
      BY <2>2, <3>1 DEF LockIs
    <3>3. Cardinality(Locking(CopyRes[c])) # 0 /\ Cardinality(Locking(CopyRes[c])) \in Nat
      BY <2>2, <3>2, FS_EmptySet, FS_CardinalityType
    <3> QED
      BY <2>4, <3>2, <3>3
  <2> QED
    BY <2>3, <2>4
<1> QED
  BY <1>1, ListInvKept, PTL

\* The list runs once at a time, and leaves nothing locked between its runs.
THEOREM ListRunsRight ==
    ASSUME ListDisciplined
    PROVE  Spec => [](OneRun /\ ListReleases)
<1>1. ASSUME Shape, ListInv PROVE OneRun
  <2> SUFFICES ASSUME broke = 0, RunQueued \/ run.i # 0
               PROVE  /\ m_in_flight
                      /\ Cardinality({k \in DOMAIN h2c : h2c[k].op = "run"}) + (IF run.i # 0 THEN 1 ELSE 0) = 1
    BY DEF OneRun
  <2> DEFINE R == {k \in DOMAIN h2c : h2c[k].op = "run"}
  <2>0. StageInv
    BY <1>1 DEF ListInv
  <2>1. m_in_flight
    BY <2>0 DEF StageInv, OneStage
  <2>2. CASE RunQueued
    <3>1. run.i = 0
      BY <2>0, <2>2 DEF StageInv, OneStage
    <3>2. PICK k \in DOMAIN h2c : h2c[k].op = "run"
      BY <2>2 DEF RunQueued
    <3>3. R = {k}
      BY <2>0, <3>2 DEF StageInv, OneRunMsg
    <3>4. Cardinality({k}) = 1
      BY FS_Singleton
    <3> HIDE DEF R
    <3>5. Cardinality(R) = 1
      BY <3>3, <3>4
    <3> QED
      BY <2>1, <3>1, <3>5 DEF R
  <2>3. CASE run.i # 0
    <3>1. ~RunQueued
      BY <2>0, <2>3 DEF StageInv, OneStage
    <3>2. R = {}
      BY <3>1 DEF RunQueued
    <3> HIDE DEF R
    <3>3. Cardinality(R) = 0
      BY <3>2, FS_EmptySet
    <3> QED
      BY <2>1, <2>3, <3>3 DEF R
  <2> QED
    BY <2>2, <2>3
<1>2. ASSUME Shape, ListInv PROVE ListReleases
  <2> SUFFICES ASSUME broke = 0, ~m_in_flight, sched.pc \in {"idle", "can"},
                      NEW i \in DOMAIN Vec, NEW j \in DOMAIN Vec[i]
               PROVE  ~m_scheduled[Vec[i][j]]
    BY DEF ListReleases, InEntry
  <2>1. StageInv /\ CopyInv
    BY <1>2 DEF ListInv
  <2>2. run.i = 0 /\ ~Completing /\ ~CallDue /\ ~RunQueued
    BY <2>1 DEF StageInv, OneStage
  <2>3. ~InEvent(Vec[i][j]) /\ ~InPost(Vec[i][j])
    BY <2>1, <2>2, Elsewhere, MineFirm
  <2>4. ~May(i, j)
    BY <2>2 DEF May, Needs
  <2> QED
    BY <2>1, <2>3, <2>4 DEF CopyInv, ListOwn
<1> QED
  BY <1>1, <1>2, ListInvKept, PTL
-----------------------------------------------------------------------------
(***************************************************************************)
(* Errors                                                                  *)
(***************************************************************************)

\* A failure has been reported but not counted yet.
AddDue == calls = <<"addError">> \/ \E k \in DOMAIN c2h : c2h[k].calls = <<"addError">>

\* The card will say that the errors are cleared, after event k.
ClearedAfter(k) == \E l \in DOMAIN c2h : l > k /\ c2h[l].op = "cleared"

\* Who keeps the list's mutex.
WaitqOwner == (m_waitq = "clear" <=> clear = "query") /\ (m_waitq = "sched" <=> sched.pc = "can")

\* No run overtakes the clearing of the errors before it.
ClearsFirst == \A k, l \in DOMAIN h2c : h2c[k].op = "run" /\ h2c[l].op = "clear" => l < k

\* The host's count and the card's.
Tally ==
    /\ Clearing => run.i = 0 /\ ~AddDue
    /\ clear = "query" => ~m_in_flight /\ ~AddDue /\ (Clearing \/ cardErr = 0)
    /\ clear = "idle" /\ m_failed_commands > 0 => cardErr > 0
    /\ clear = "idle" /\ Clearing => m_failed_commands = 0
    /\ AddDue => cardErr > 0 /\ m_in_flight
    /\ cardErr > 0 => m_failed_commands > 0 \/ AddDue \/ Clearing

\* What the host knows or is about to learn of errors is still so, or is cleared
\* by a later event.
Knows == m_errorList.n > 0 \/ m_errorList.failed # <<>> \/ \E p \in DOMAIN post : post[p].failed
Bad(e) == (e.op = "errors" /\ e.n > 0) \/ ~e.ok
Fresh ==
    /\ Knows => cardErr > 0 \/ ClearedAfter(0)
    /\ \A k \in DOMAIN c2h : Bad(c2h[k]) => cardErr > 0 \/ ClearedAfter(k)

ErrInv == WaitqOwner /\ ClearsFirst /\ Tally /\ Fresh

\* Messages to the card.
LEMMA ClearSame ==
    ASSUME ClearsFirst, UNCHANGED h2c
    PROVE  ClearsFirst' /\ (Clearing' <=> Clearing)
BY DEF ClearsFirst, Clearing

LEMMA ClearSend ==
    ASSUME Shape, ClearsFirst, NEW m \in HostMsg, h2c' = Append(h2c, m), m.op = "clear" => ~RunQueued
    PROVE  ClearsFirst' /\ (Clearing' <=> Clearing \/ m.op = "clear")
<1>1. /\ DOMAIN h2c' = 1 .. Len(h2c) + 1 /\ DOMAIN h2c = 1 .. Len(h2c) /\ Len(h2c) \in Nat
      /\ \A k \in 1 .. Len(h2c) : h2c'[k] = h2c[k]
      /\ h2c'[Len(h2c) + 1] = m
  BY AppendTo DEF Shape
<1>2. \A k \in DOMAIN h2c' : (k \in DOMAIN h2c /\ h2c'[k] = h2c[k]) \/ (k = Len(h2c) + 1 /\ h2c'[k] = m)
  BY <1>1
<1>3. \A k \in DOMAIN h2c : k \in DOMAIN h2c' /\ h2c'[k] = h2c[k] /\ k < Len(h2c) + 1
  BY <1>1
<1>4. ClearsFirst'
  <2> SUFFICES ASSUME NEW k \in DOMAIN h2c', NEW l \in DOMAIN h2c', h2c'[k].op = "run", h2c'[l].op = "clear"
               PROVE  l < k
    BY DEF ClearsFirst
  <2>1. l \in DOMAIN h2c /\ h2c[l].op = "clear"
    <3>1. CASE l = Len(h2c) + 1 /\ h2c'[l] = m
      <4>1. ~RunQueued
        BY <3>1
      <4>2. k \in DOMAIN h2c /\ h2c[k].op = "run"
        BY <1>2, <3>1
      <4> QED
        BY <4>1, <4>2 DEF RunQueued
    <3> QED
      BY <1>2, <3>1
  <2>2. CASE k \in DOMAIN h2c /\ h2c'[k] = h2c[k]
    BY <2>1, <2>2 DEF ClearsFirst
  <2>3. CASE k = Len(h2c) + 1
    BY <1>3, <2>1, <2>3
  <2> QED
    BY <1>2, <2>2, <2>3
<1>5. Clearing' <=> Clearing \/ m.op = "clear"
  <2>1. Len(h2c) + 1 \in DOMAIN h2c' /\ h2c'[Len(h2c) + 1] = m
    BY <1>1
  <2> QED
    BY <1>2, <1>3, <2>1 DEF Clearing
<1> QED
  BY <1>4, <1>5

LEMMA ClearTake ==
    ASSUME Shape, ClearsFirst, card_takes
    PROVE  /\ ClearsFirst'
           /\ Clearing <=> Clearing' \/ Head(h2c).op = "clear"
           /\ Head(h2c).op = "run" => ~Clearing
<1>1. /\ Head(h2c) = h2c[1] /\ Len(h2c) \in Nat \ {0}
      /\ DOMAIN h2c = 1 .. Len(h2c) /\ DOMAIN h2c' = 1 .. Len(h2c) - 1
      /\ \A k \in 1 .. Len(h2c) - 1 : h2c'[k] = h2c[k + 1]
  BY Taken
<1>2. \A k \in DOMAIN h2c' : k \in Nat \ {0} /\ k + 1 \in DOMAIN h2c /\ h2c'[k] = h2c[k + 1]
  BY <1>1
<1>3. \A k \in DOMAIN h2c : k = 1 \/ (k - 1 \in DOMAIN h2c' /\ h2c'[k - 1] = h2c[k])
  BY <1>1
<1>4. 1 \in DOMAIN h2c /\ \A k \in DOMAIN h2c : ~(k < 1)
  BY <1>1
<1>5. ClearsFirst'
  <2> SUFFICES ASSUME NEW k \in DOMAIN h2c', NEW l \in DOMAIN h2c', h2c'[k].op = "run", h2c'[l].op = "clear"
               PROVE  l < k
    BY DEF ClearsFirst
  <2>1. l + 1 < k + 1
    BY <1>2 DEF ClearsFirst
  <2> QED
    BY <1>2, <2>1
<1>6. Clearing <=> Clearing' \/ Head(h2c).op = "clear"
  <2>1. Clearing' => Clearing
    BY <1>2 DEF Clearing
  <2>2. Head(h2c).op = "clear" => Clearing
    BY <1>1, <1>4 DEF Clearing
  <2>3. Clearing => Clearing' \/ Head(h2c).op = "clear"
    BY <1>1, <1>3 DEF Clearing
  <2> QED
    BY <2>1, <2>2, <2>3
<1>7. Head(h2c).op = "run" => ~Clearing
  BY <1>1, <1>4 DEF Clearing, ClearsFirst
<1> QED
  BY <1>5, <1>6, <1>7

\* A failure that is not counted yet is one of a run that has not ended.
LEMMA DueStage == ASSUME StageInv, AddDue PROVE run.i # 0 \/ Completing
<1>1. CASE calls = <<"addError">>
  BY <1>1, CallsDiffer DEF StageInv, LastEvent, ListPosts, CallDue
<1>2. CASE \E k \in DOMAIN c2h : c2h[k].calls = <<"addError">>
  <2>1. ListEvents
    BY <1>2, CallsDiffer DEF ListEvents, OfList
  <2> QED
    BY <2>1 DEF StageInv, LastEvent
<1> QED
  BY <1>1, <1>2 DEF AddDue

\* Events from the card.
LEMMA DueReceive ==
    ASSUME Shape, NEW o, Receive(o),
           calls' = Head(c2h).calls \/ (calls' = calls /\ Head(c2h).calls = <<>>)
    PROVE  AddDue' <=> AddDue
<1>1. /\ Head(c2h) = c2h[1] /\ Len(c2h) \in Nat \ {0}
      /\ DOMAIN c2h = 1 .. Len(c2h) /\ DOMAIN c2h' = 1 .. Len(c2h) - 1
      /\ \A k \in 1 .. Len(c2h) - 1 : c2h'[k] = c2h[k + 1]
  BY Received
<1>2. \A k \in DOMAIN c2h' : k + 1 \in DOMAIN c2h /\ c2h'[k] = c2h[k + 1]
  BY <1>1
<1>3. \A k \in DOMAIN c2h : k = 1 \/ (k - 1 \in DOMAIN c2h' /\ c2h'[k - 1] = c2h[k])
  BY <1>1
<1>4. 1 \in DOMAIN c2h
  BY <1>1
<1>5. calls = <<>> /\ calls' = Head(c2h).calls
  BY DEF Receive, respIdle
<1>6. AddDue' => AddDue
  BY <1>1, <1>2, <1>4, <1>5 DEF AddDue
<1>7. AddDue => AddDue'
  BY <1>1, <1>3, <1>5, CallsDiffer DEF AddDue
<1> QED
  BY <1>6, <1>7

LEMMA FreshStay ==
    ASSUME Fresh, UNCHANGED c2h, Knows' => Knows, cardErr > 0 => cardErr' > 0
    PROVE  Fresh'
<1>1. \A k : ClearedAfter(k)' <=> ClearedAfter(k)
  BY DEF ClearedAfter
<1> QED
  BY <1>1 DEF Fresh, Bad

LEMMA FreshReceive ==
    ASSUME Shape, Fresh, NEW o, Receive(o), UNCHANGED cardErr,
           Knows' => (Knows /\ o # "cleared") \/ (Bad(Head(c2h)) /\ o # "cleared")
    PROVE  Fresh'
<1>1. /\ Head(c2h) = c2h[1] /\ Head(c2h).op = o /\ Len(c2h) \in Nat \ {0}
      /\ DOMAIN c2h = 1 .. Len(c2h) /\ DOMAIN c2h' = 1 .. Len(c2h) - 1
      /\ \A k \in 1 .. Len(c2h) - 1 : c2h'[k] = c2h[k + 1]
  BY Received
<1>2. \A k \in DOMAIN c2h' : k + 1 \in DOMAIN c2h /\ c2h'[k] = c2h[k + 1]
  BY <1>1
<1>3. ASSUME NEW k \in Nat, ClearedAfter(k + 1) PROVE ClearedAfter(k)'
  <2>1. PICK l \in DOMAIN c2h : l > k + 1 /\ c2h[l].op = "cleared"
    BY <1>3 DEF ClearedAfter
  <2>2. l - 1 \in DOMAIN c2h' /\ l - 1 > k /\ c2h'[l - 1] = c2h[l]
    BY <1>1, <2>1
  <2> QED
    BY <2>1, <2>2 DEF ClearedAfter
<1>4. ASSUME Knows' PROVE cardErr' > 0 \/ ClearedAfter(0)'
  <2>1. cardErr > 0 \/ ClearedAfter(1)
    <3>1. CASE Knows /\ o # "cleared"
      <4>1. ClearedAfter(0) => ClearedAfter(1)
        BY <1>1, <3>1 DEF ClearedAfter
      <4> QED
        BY <3>1, <4>1 DEF Fresh
    <3>2. CASE Bad(Head(c2h))
      BY <1>1, <3>2 DEF Fresh
    <3> QED
      BY <1>4, <3>1, <3>2
  <2> QED
    BY <1>3, <2>1
<1>5. ASSUME NEW k \in DOMAIN c2h', Bad(c2h'[k]) PROVE cardErr' > 0 \/ ClearedAfter(k)'
  <2>1. k \in Nat
    BY <1>1
  <2>2. cardErr > 0 \/ ClearedAfter(k + 1)
    BY <1>2, <1>5 DEF Fresh
  <2> QED
    BY <1>3, <2>1, <2>2
<1> QED
  BY <1>4, <1>5 DEF Fresh, Bad

\* The card reports: what it cleared or had no error of is after the rest.
LEMMA FreshGrow ==
    ASSUME Shape, Shape', Fresh, UNCHANGED <<m_errorList, post>>,
           \A k \in DOMAIN c2h : k \in DOMAIN c2h' /\ c2h'[k] = c2h[k],
           \A k \in DOMAIN c2h' : k \in DOMAIN c2h \/ (Bad(c2h'[k]) => cardErr' > 0),
           cardErr > 0 => \/ cardErr' > 0
                          \/ \E l \in DOMAIN c2h' : l > Len(c2h) /\ c2h'[l].op = "cleared"
    PROVE  Fresh'
<1>1. DOMAIN c2h = 1 .. Len(c2h) /\ Len(c2h) \in Nat /\ DOMAIN c2h' = 1 .. Len(c2h') /\ Len(c2h') \in Nat
  BY DEF Shape
<1>2. \A k : ClearedAfter(k) => ClearedAfter(k)'
  BY DEF ClearedAfter
<1>3. ASSUME NEW k \in 0 .. Len(c2h), cardErr > 0 PROVE cardErr' > 0 \/ ClearedAfter(k)'
  <2>1. CASE cardErr' > 0
    BY <2>1
  <2>2. ASSUME NEW l \in DOMAIN c2h', l > Len(c2h), c2h'[l].op = "cleared" PROVE ClearedAfter(k)'
    <3>1. l > k
      BY <1>1, <2>2
    <3> QED
      BY <2>2, <3>1 DEF ClearedAfter
  <2> QED
    BY <1>3, <2>1, <2>2
<1>4. Knows' <=> Knows
  BY DEF Knows
<1>5. Knows' => cardErr' > 0 \/ ClearedAfter(0)'
  <2>1. 0 \in 0 .. Len(c2h)
    BY <1>1
  <2> QED
    BY <1>2, <1>3, <1>4, <2>1 DEF Fresh
<1>6. ASSUME NEW k \in DOMAIN c2h', Bad(c2h'[k]) PROVE cardErr' > 0 \/ ClearedAfter(k)'
  <2>1. CASE k \in DOMAIN c2h
    <3>1. k \in 0 .. Len(c2h) /\ Bad(c2h[k])
      BY <1>1, <1>6, <2>1
    <3> QED
      BY <1>2, <1>3, <2>1, <3>1 DEF Fresh
  <2> QED
    BY <1>6, <2>1
<1> QED
  BY <1>5, <1>6 DEF Fresh, Bad

\* The mutex: whoever keeps it over several steps is in the call that says so.
LEMMA WaitqKept ==
    ASSUME Shape, StageInv, ErrInv, [Next]_vars, wait # "late"
    PROVE  WaitqOwner'
<1> USE DEF ErrInv, WaitqOwner
<1>0. clear \in {"idle", "query"} /\ m_waitq \in {"free", "sched", "clear"}
  BY DEF Shape, ListShape, CallsShape
<1>1. CASE schedule
  BY <1>0, <1>1 DEF schedule, Idle
<1>2. CASE schedule_can
  BY <1>0, <1>2 DEF schedule_can, StageInv, NoBreak, ctxBroken, Shape, SchedOK
<1>3. CASE Within
  <2>1. sched.pc # "can" /\ sched'.pc # "can"
    BY <1>3, WithinStage DEF Preparing
  <2>2. UNCHANGED <<m_waitq, clear>>
    BY <1>3, Unfold DEF Within, schedule_prepare, schedule_next, schedule_busy, schedule_send_fail,
       schedule_undo, schedule_undo_next
  <2> QED
    BY <2>1, <2>2
<1>4. CASE schedule_send \/ schedule_undone
  BY <1>0, <1>4, Unfold DEF schedule_send, schedule_undone, Idle
<1>5. CASE UserStep /\ ~clearErrors /\ ~clearErrors_done
  <2>1. UNCHANGED <<m_waitq, clear, sched>>
    BY <1>5, Unfold DEF UserStep, wait_start, wait_test, wait_timeout, wait_late, wait_over, wait_queried,
       schedule_copy, finalize, recover
  <2> QED
    BY <2>1
<1>6. CASE clearErrors \/ clearErrors_done
  BY <1>0, <1>6 DEF clearErrors, clearErrors_done
<1>7. CASE Respond \/ Card \/ card_breaks \/ UNCHANGED vars
  <2>1. UNCHANGED <<m_waitq, clear, sched>>
    BY <1>7, Unfold DEF Respond, Card, card_breaks, vars, list_call, release_copy, executed, context_fatal,
       errors_arrive, clearRequestSucceeded, card_takes, card_runs, card_copies
  <2> QED
    BY <2>1
<1> QED
  BY <1>1, <1>2, <1>3, <1>4, <1>5, <1>6, <1>7 DEF Next, Schedule, UserStep, Within

\* A step that is not about errors.
LEMMA TallySame ==
    ASSUME Tally, UNCHANGED <<clear, m_in_flight, m_failed_commands, cardErr, run>>,
           Clearing' <=> Clearing, AddDue' <=> AddDue
    PROVE  Tally'
BY DEF Tally

LEMMA ErrSame ==
    ASSUME ErrInv, UNCHANGED <<clear, m_in_flight, m_failed_commands, cardErr, run, h2c, c2h, calls>>, Knows' => Knows
    PROVE  ClearsFirst' /\ Tally' /\ Fresh'
<1>1. ClearsFirst' /\ (Clearing' <=> Clearing)
  BY ClearSame DEF ErrInv
<1>2. AddDue' <=> AddDue
  BY DEF AddDue
<1> QED
  BY <1>1, <1>2, TallySame, FreshStay DEF ErrInv

\* A message that the card answers later.
LEMMA ErrSend ==
    ASSUME Shape, ErrInv, NEW m \in HostMsg, m.op # "clear", h2c' = Append(h2c, m),
           UNCHANGED <<clear, m_in_flight, m_failed_commands, cardErr, run, c2h, calls>>, Knows' => Knows
    PROVE  ClearsFirst' /\ Tally' /\ Fresh'
<1>1. ClearsFirst' /\ (Clearing' <=> Clearing)
  BY ClearSend DEF ErrInv
<1>2. AddDue' <=> AddDue
  BY DEF AddDue
<1> QED
  BY <1>1, <1>2, TallySame, FreshStay DEF ErrInv

LEMMA ErrSchedule ==
    ASSUME Shape, StageInv, ErrInv, schedule \/ Schedule
    PROVE  ClearsFirst' /\ Tally' /\ Fresh'
<1>1. CASE schedule \/ Within
  <2>1. UNCHANGED <<clear, m_in_flight, m_failed_commands, cardErr, run, h2c, c2h, calls, m_errorList, post>>
    BY <1>1, Unfold DEF schedule, Within, schedule_prepare, schedule_next, schedule_busy, schedule_send_fail,
       schedule_undo, schedule_undo_next
  <2>2. Knows' <=> Knows
    BY <2>1 DEF Knows
  <2> QED
    BY <2>1, <2>2, ErrSame
<1>2. CASE schedule_can
  <2>1. /\ UNCHANGED <<clear, m_failed_commands, cardErr, run, h2c, c2h, calls, m_errorList, post>>
        /\ sched.pc = "can" /\ m_in_flight' = TRUE
    BY <1>2, Unfold DEF schedule_can, StageInv, NoBreak, ctxBroken
  <2>2. clear = "idle"
    BY <2>1 DEF ErrInv, WaitqOwner, Shape, CallsShape
  <2>3. ClearsFirst' /\ (Clearing' <=> Clearing)
    BY <2>1, ClearSame DEF ErrInv
  <2>4. (AddDue' <=> AddDue) /\ (Knows' <=> Knows)
    BY <2>1 DEF AddDue, Knows
  <2>5. Tally'
    BY <2>1, <2>2, <2>3, <2>4 DEF Tally, ErrInv
  <2> QED
    BY <2>1, <2>3, <2>4, <2>5, FreshStay DEF ErrInv
<1>3. CASE schedule_send
  <2>1. [op |-> "run", c |-> <<>>] \in HostMsg
    BY DEF HostMsg
  <2>2. UNCHANGED <<clear, m_in_flight, m_failed_commands, cardErr, run, c2h, calls, m_errorList, post>>
    BY <1>3, Unfold DEF schedule_send
  <2>3. Knows' <=> Knows
    BY <2>2 DEF Knows
  <2>4. h2c' = Append(h2c, [op |-> "run", c |-> <<>>])
    BY <1>3 DEF schedule_send
  <2>5. [op |-> "run", c |-> <<>>].op # "clear"
    OBVIOUS
  <2> QED
    BY <2>1, <2>2, <2>3, <2>4, <2>5, ErrSend
<1>4. CASE schedule_undone
  <2>1. /\ UNCHANGED <<clear, m_failed_commands, cardErr, run, h2c, c2h, calls, m_errorList, post>>
        /\ Preparing /\ m_in_flight' = FALSE
    BY <1>4, Unfold DEF schedule_undone, Completed, Preparing
  <2>2. ~AddDue
    BY <2>1, DueStage DEF StageInv, OneStage
  <2>3. ClearsFirst' /\ (Clearing' <=> Clearing)
    BY <2>1, ClearSame DEF ErrInv
  <2>4. (AddDue' <=> AddDue) /\ (Knows' <=> Knows)
    BY <2>1 DEF AddDue, Knows
  <2>5. Tally'
    BY <2>1, <2>2, <2>3, <2>4 DEF Tally, ErrInv
  <2> QED
    BY <2>1, <2>3, <2>4, <2>5, FreshStay DEF ErrInv
<1> QED
  BY <1>1, <1>2, <1>3, <1>4 DEF Schedule, Within

LEMMA ErrClear ==
    ASSUME Shape, StageInv, ErrInv, ~ClearInFlight, clearErrors
    PROVE  ClearsFirst' /\ Tally' /\ Fresh'
<1> DEFINE m == [op |-> "clear", c |-> <<>>]
<1>0. /\ UNCHANGED <<m_in_flight, m_failed_commands, cardErr, run, c2h, calls, post>>
      /\ m_errorList' = [m_errorList EXCEPT !.state = "started"]
      /\ ~m_in_flight
      /\ (clear' = "query" /\ h2c' = Append(h2c, m)) \/ UNCHANGED <<clear, h2c>>
  BY Unfold DEF clearErrors
<1>8. m_errorList'.n = m_errorList.n /\ m_errorList'.failed = m_errorList.failed
  BY <1>0 DEF Shape, ListShape
<1>9. Knows' <=> Knows
  BY <1>0, <1>8 DEF Knows
<1>s. CASE UNCHANGED <<clear, h2c>>
  BY <1>0, <1>9, <1>s, ErrSame
<1> SUFFICES ASSUME clear' = "query" /\ h2c' = Append(h2c, m)
             PROVE  ClearsFirst' /\ Tally' /\ Fresh'
  BY <1>0, <1>s
<1>1. /\ UNCHANGED <<m_in_flight, m_failed_commands, cardErr, run, c2h, calls, post>>
      /\ ~m_in_flight /\ clear' = "query" /\ h2c' = Append(h2c, m)
  BY <1>0
<1>2. ~RunQueued /\ run.i = 0 /\ ~Completing
  BY <1>1 DEF StageInv, OneStage
<1>3. m \in HostMsg /\ m.op = "clear"
  BY DEF HostMsg
<1> HIDE DEF m
<1>4. ClearsFirst' /\ Clearing'
  BY <1>1, <1>2, <1>3, ClearSend DEF ErrInv
<1>5. ~AddDue
  BY <1>2, DueStage
<1>6. AddDue' <=> AddDue
  BY <1>1 DEF AddDue
<1>7. Tally'
  BY <1>1, <1>2, <1>4, <1>5, <1>6 DEF Tally
<1> QED
  BY <1>1, <1>4, <1>7, <1>9, FreshStay DEF ErrInv

LEMMA ErrUser ==
    ASSUME Shape, StageInv, ErrInv, ~ClearInFlight, UserStep
    PROVE  ClearsFirst' /\ Tally' /\ Fresh'
<1>1. CASE \/ wait_start \/ wait_test \/ wait_timeout \/ wait_late \/ wait_queried
           \/ (\E b \in BOOLEAN : finalize(b)) \/ recover
  <2>1. UNCHANGED <<clear, m_in_flight, m_failed_commands, cardErr, run, h2c, c2h, calls, m_errorList, post>>
    BY <1>1, Unfold DEF wait_start, wait_test, wait_timeout, wait_late, wait_queried, finalize, recover
  <2>2. Knows' <=> Knows
    BY <2>1 DEF Knows
  <2> QED
    BY <2>1, <2>2, ErrSame
<1>2. CASE wait_over
  <2> DEFINE m == [op |-> "query", c |-> <<>>]
  <2>1. UNCHANGED <<clear, m_in_flight, m_failed_commands, cardErr, run, c2h, calls, post>>
    BY <1>2, Unfold DEF wait_over
  <2>2. CASE m_failed_commands = 0
    <3>1. UNCHANGED <<h2c, m_errorList>>
      BY <1>2, <2>2 DEF wait_over
    <3>2. Knows' <=> Knows
      BY <2>1, <3>1 DEF Knows
    <3> QED
      BY <2>1, <3>1, <3>2, ErrSame
  <2>3. CASE m_failed_commands # 0
    <3>1. /\ h2c' = h2c \/ h2c' = Append(h2c, m)
          /\ m_errorList' = [m_errorList EXCEPT !.state = "started", !.n = 0]
      BY <1>2, <2>3 DEF wait_over
    <3>2. m \in HostMsg /\ m.op # "clear"
      BY DEF HostMsg
    <3> HIDE DEF m
    <3>3. m_errorList'.failed = m_errorList.failed /\ m_errorList'.n = 0
      <4>1. m_errorList \in [state : {"cleared", "started", "completed"}, n : Nat, failed : Seq(Res)]
        BY DEF Shape, ListShape
      <4> QED
        BY <3>1, <4>1
    <3>4. Knows' => Knows
      BY <2>1, <3>3 DEF Knows
    <3> QED
      BY <2>1, <3>1, <3>2, <3>4, ErrSend, ErrSame
  <2> QED
    BY <2>2, <2>3
<1>3. CASE clearErrors
  BY <1>3, ErrClear
<1>4. CASE clearErrors_done
  <2>1. /\ UNCHANGED <<m_in_flight, cardErr, run, h2c, c2h, calls, m_errorList, post>>
        /\ clear = "query" /\ clear' = "idle" /\ m_failed_commands' = 0
    BY <1>4, Unfold DEF clearErrors_done, StageInv, NoBreak, ctxBroken
  <2>2. ClearsFirst' /\ (Clearing' <=> Clearing)
    BY <2>1, ClearSame DEF ErrInv
  <2>3. (AddDue' <=> AddDue) /\ (Knows' <=> Knows)
    BY <2>1 DEF AddDue, Knows
  <2>4. Tally'
    <3>1. cardErr > 0 => Clearing
      BY <2>1 DEF Tally, ErrInv, Shape, CardShape
    <3> QED
      BY <2>1, <2>2, <2>3, <3>1 DEF Tally, ErrInv
  <2> QED
    BY <2>1, <2>2, <2>3, <2>4, FreshStay DEF ErrInv
<1>5. ASSUME NEW c \in Solo, schedule_copy(c)
      PROVE  ClearsFirst' /\ Tally' /\ Fresh'
  <2> DEFINE m == [op |-> "copy", c |-> <<c>>]
  <2>1. /\ UNCHANGED <<clear, m_in_flight, m_failed_commands, cardErr, run, c2h, calls, m_errorList, post>>
        /\ h2c' = Append(h2c, m)
    BY <1>5, Unfold DEF schedule_copy
  <2>2. m \in HostMsg /\ m.op # "clear"
    BY ListAssumption DEF HostMsg
  <2> HIDE DEF m
  <2>3. Knows' <=> Knows
    BY <2>1 DEF Knows
  <2> QED
    BY <2>1, <2>2, <2>3, ErrSend
<1> QED
  BY <1>1, <1>2, <1>3, <1>4, <1>5 DEF UserStep

LEMMA ErrReceive ==
    ASSUME Shape, ErrInv, NEW o, Receive(o),
           calls' = Head(c2h).calls \/ (calls' = calls /\ Head(c2h).calls = <<>>),
           UNCHANGED <<clear, m_in_flight, m_failed_commands, cardErr, run, h2c>>,
           Knows' => (Knows /\ o # "cleared") \/ (Bad(Head(c2h)) /\ o # "cleared")
    PROVE  ClearsFirst' /\ Tally' /\ Fresh'
<1>1. ClearsFirst' /\ (Clearing' <=> Clearing)
  BY ClearSame DEF ErrInv
<1>2. AddDue' <=> AddDue
  BY DueReceive
<1>3. Fresh'
  BY FreshReceive DEF ErrInv
<1> QED
  BY <1>1, <1>2, <1>3, TallySame DEF ErrInv

LEMMA ErrCall ==
    ASSUME Shape, StageInv, ErrInv, list_call
    PROVE  ClearsFirst' /\ Tally' /\ Fresh'
<1>0. /\ calls \in {<<"complete">>, <<"addError">>} /\ calls' = <<>>
      /\ Tail(<<"complete">>) = <<>> /\ Tail(<<"addError">>) = <<>>
      /\ Head(<<"complete">>) = "complete" /\ Head(<<"addError">>) = "addError"
  <2>1. calls \in {<<"complete">>, <<"addError">>} /\ calls' = Tail(calls)
    BY DEF list_call, Shape, RespShape
  <2>2. Tail(<<"complete">>) = <<>> /\ Tail(<<"addError">>) = <<>>
    BY TailOne
  <2>3. Head(<<"complete">>) = "complete" /\ Head(<<"addError">>) = "addError"
    OBVIOUS
  <2> QED
    BY <2>1, <2>2, <2>3
<1>1. /\ UNCHANGED <<clear, cardErr, run, h2c, c2h, m_errorList, post>> /\ m_waitq = "free"
  BY Unfold DEF list_call
<1>2. clear = "idle"
  BY <1>1 DEF ErrInv, WaitqOwner, Shape, CallsShape
<1>3. ClearsFirst' /\ (Clearing' <=> Clearing)
  BY <1>1, ClearSame DEF ErrInv
<1>4. Knows' <=> Knows
  BY <1>1 DEF Knows
<1>5. AddDue' => AddDue
  BY <1>0, <1>1, CallsDiffer DEF AddDue
<1>6. CASE calls = <<"complete">>
  <2>1. m_in_flight' = FALSE /\ UNCHANGED m_failed_commands
    BY <1>0, <1>6 DEF list_call, Completed
  <2>2. ~ListEvents
    BY <1>6 DEF StageInv, LastEvent, CallDue
  <2>3. ~AddDue
    BY <1>6, <2>2, CallsDiffer DEF AddDue, ListEvents, OfList
  <2>4. Tally'
    BY <1>1, <1>2, <1>3, <1>5, <2>1, <2>3 DEF Tally, ErrInv
  <2> QED
    BY <1>1, <1>3, <1>4, <2>4, FreshStay DEF ErrInv
<1>7. CASE calls = <<"addError">>
  <2>1. m_failed_commands' = m_failed_commands + 1 /\ UNCHANGED m_in_flight /\ m_failed_commands \in Nat
    BY <1>0, <1>7 DEF list_call, Shape, ListShape
  <2>2. AddDue
    BY <1>7 DEF AddDue
  <2>3. cardErr > 0 /\ m_in_flight /\ ~Clearing
    BY <2>2 DEF ErrInv, Tally
  <2>4. m_failed_commands' > 0
    BY <2>1
  <2>5. Tally'
    BY <1>1, <1>2, <1>3, <2>1, <2>3, <2>4 DEF Tally, ErrInv
  <2> QED
    BY <1>1, <1>3, <1>4, <2>5, FreshStay DEF ErrInv
<1> QED
  BY <1>0, <1>6, <1>7

LEMMA ErrRelease ==
    ASSUME Shape, ErrInv, release_copy
    PROVE  ClearsFirst' /\ Tally' /\ Fresh'
<1>1. /\ UNCHANGED <<clear, m_in_flight, m_failed_commands, cardErr, run, h2c, c2h, calls>>
      /\ post # <<>> /\ post' = Tail(post) /\ post \in Seq(PostItem)
  BY Unfold DEF release_copy, Shape, RespShape
<1>2. /\ Head(post) = post[1] /\ 1 \in DOMAIN post
      /\ \A p \in DOMAIN post' : p + 1 \in DOMAIN post /\ post'[p] = post[p + 1]
  <2>1. /\ Head(post) = post[1] /\ Len(post) \in Nat \ {0} /\ DOMAIN post = 1 .. Len(post)
        /\ DOMAIN Tail(post) = 1 .. Len(post) - 1
        /\ \A k \in 1 .. Len(post) - 1 : Tail(post)[k] = post[k + 1]
    BY <1>1, TailOf
  <2> QED
    BY <1>1, <2>1
<1>3. Head(post).failed \/ m_errorList' = m_errorList
  BY DEF release_copy
<1>4. Head(post).failed => Knows
  BY <1>2 DEF Knows
<1>5. (\E p \in DOMAIN post' : post'[p].failed) => \E p \in DOMAIN post : post[p].failed
  BY <1>2
<1>6. Knows' => Knows
  BY <1>3, <1>4, <1>5 DEF Knows
<1> QED
  BY <1>1, <1>6, ErrSame

LEMMA ErrRespond ==
    ASSUME Shape, StageInv, ErrInv, Respond
    PROVE  ClearsFirst' /\ Tally' /\ Fresh'
<1>1. CASE executed
  <2>1. /\ Receive("executed") /\ calls' = Head(c2h).calls /\ post' = Posts(Head(c2h).cs, ~Head(c2h).ok)
        /\ UNCHANGED <<clear, m_in_flight, m_failed_commands, cardErr, run, h2c, m_errorList>>
    BY <1>1, Unfold DEF executed
  <2>2. Head(c2h).cs \in Seq(Copy) /\ Head(c2h).ok \in BOOLEAN
    BY <2>1, Received
  <2>3. ASSUME NEW p \in DOMAIN post', post'[p].failed PROVE ~Head(c2h).ok
    <3> DEFINE f == ~Head(c2h).ok
    <3>1. f \in BOOLEAN
      OBVIOUS
    <3>2. post' = Posts(Head(c2h).cs, f)
      BY <2>1
    <3> HIDE DEF f
    <3>3. post'[p] = [c |-> Head(c2h).cs[p], failed |-> f]
      BY <2>2, <2>3, <3>1, <3>2, PostsShape
    <3>4. f
      BY <2>3, <3>3
    <3> QED
      BY <3>4 DEF f
  <2>4. Knows' => Knows \/ Bad(Head(c2h))
    BY <2>1, <2>3 DEF Knows, Bad
  <2>5. "executed" # "cleared"
    OBVIOUS
  <2> QED
    BY <2>1, <2>4, <2>5, ErrReceive
<1>2. CASE errors_arrive
  <2>1. /\ Receive("errors") /\ UNCHANGED <<clear, m_in_flight, m_failed_commands, cardErr, run, h2c, calls, post>>
    BY <1>2, Unfold DEF errors_arrive
  <2>2. Head(c2h).calls = <<>> /\ Head(c2h).op = "errors" /\ Head(c2h).n \in Nat
    BY <2>1, Received
  <2>3. m_errorList'.failed = m_errorList.failed /\ (m_errorList'.n = m_errorList.n \/ m_errorList'.n = Head(c2h).n)
    <3>1. m_errorList \in [state : {"cleared", "started", "completed"}, n : Nat, failed : Seq(Res)]
      BY DEF Shape, ListShape
    <3>2. CASE m_errorList.state # "started"
      BY <1>2, <3>2 DEF errors_arrive
    <3>3. CASE m_errorList.state = "started"
      <4>1. m_errorList' = [m_errorList EXCEPT !.state = "completed", !.n = Head(c2h).n]
        BY <1>2, <3>3 DEF errors_arrive
      <4> QED
        BY <3>1, <4>1
    <3> QED
      BY <3>2, <3>3
  <2>4. Knows' => Knows \/ Bad(Head(c2h))
    BY <2>1, <2>2, <2>3 DEF Knows, Bad
  <2>5. "errors" # "cleared"
    OBVIOUS
  <2> QED
    BY <2>1, <2>2, <2>4, <2>5, ErrReceive
<1>3. CASE clearRequestSucceeded
  <2>1. /\ Receive("cleared") /\ UNCHANGED <<clear, m_in_flight, m_failed_commands, cardErr, run, h2c, calls, post>>
        /\ m_errorList' = [state |-> "completed", n |-> 0, failed |-> <<>>]
    BY <1>3, Unfold DEF clearRequestSucceeded
  <2>2. Head(c2h).calls = <<>>
    BY <2>1, Received
  <2>3. ~Knows'
    <3>1. DOMAIN post' = {}
      BY <2>1 DEF Receive, respIdle
    <3>2. m_errorList'.n = 0 /\ m_errorList'.failed = <<>>
      BY <2>1
    <3> QED
      BY <3>1, <3>2 DEF Knows
  <2> QED
    BY <2>1, <2>2, <2>3, ErrReceive
<1>4. ~context_fatal
  <2>1. context_fatal => Head(c2h).op = "break" /\ Head(c2h) = c2h[1] /\ 1 \in DOMAIN c2h
    BY Received DEF context_fatal
  <2> QED
    BY <2>1 DEF StageInv, NoBreak
<1> QED
  BY <1>1, <1>2, <1>3, <1>4, ErrCall, ErrRelease DEF Respond

LEMMA DueGrow ==
    ASSUME UNCHANGED calls,
           \A k \in DOMAIN c2h : k \in DOMAIN c2h' /\ c2h'[k] = c2h[k]
    PROVE  AddDue' <=> AddDue \/ \E k \in DOMAIN c2h' : k \notin DOMAIN c2h /\ c2h'[k].calls = <<"addError">>
BY DEF AddDue

LEMMA EventGrow ==
    ASSUME Shape, NEW e \in CardMsg, c2h' = Append(c2h, e)
    PROVE  /\ \A k \in DOMAIN c2h : k \in DOMAIN c2h' /\ c2h'[k] = c2h[k]
           /\ \A k \in DOMAIN c2h' : k \in DOMAIN c2h \/ c2h'[k] = e
           /\ Len(c2h) + 1 \in DOMAIN c2h' /\ Len(c2h) + 1 > Len(c2h) /\ c2h'[Len(c2h) + 1] = e
           /\ e.calls # <<"addError">> /\ UNCHANGED calls => (AddDue' <=> AddDue)
<1>1. /\ DOMAIN c2h' = 1 .. Len(c2h) + 1 /\ DOMAIN c2h = 1 .. Len(c2h) /\ Len(c2h) \in Nat
      /\ \A k \in 1 .. Len(c2h) : c2h'[k] = c2h[k]
      /\ c2h'[Len(c2h) + 1] = e
  BY AppendTo DEF Shape
<1>2. \A k \in DOMAIN c2h : k \in DOMAIN c2h' /\ c2h'[k] = c2h[k]
  BY <1>1
<1>3. \A k \in DOMAIN c2h' : k \in DOMAIN c2h \/ c2h'[k] = e
  BY <1>1
<1>4. Len(c2h) + 1 \in DOMAIN c2h' /\ Len(c2h) + 1 > Len(c2h)
  BY <1>1
<1>5. ASSUME e.calls # <<"addError">>, UNCHANGED calls PROVE AddDue' <=> AddDue
  BY <1>2, <1>3, <1>5 DEF AddDue
<1> QED
  BY <1>1, <1>2, <1>3, <1>4, <1>5

LEMMA ErrTakes ==
    ASSUME Shape, Shape', StageInv, ErrInv, card_takes
    PROVE  ClearsFirst' /\ Tally' /\ Fresh'
<1>1. UNCHANGED <<clear, m_in_flight, m_failed_commands, calls, m_errorList, post>> /\ cardErr \in Nat
  BY Unfold DEF card_takes, Shape, CardShape
<1>2. /\ ClearsFirst' /\ (Clearing <=> Clearing' \/ Head(h2c).op = "clear")
      /\ Head(h2c).op = "run" => ~Clearing
  BY ClearTake DEF ErrInv
<1>3. Knows' <=> Knows
  BY <1>1 DEF Knows
<1>4. CASE Head(h2c).op = "run"
  <2>1. UNCHANGED <<c2h, cardErr>>
    BY <1>4 DEF card_takes
  <2>2. AddDue' <=> AddDue
    BY <1>1, <2>1 DEF AddDue
  <2>3. m_in_flight
    BY <1>4, TakeMsg DEF StageInv, OneStage
  <2>4. Tally'
    BY <1>1, <1>2, <1>4, <2>1, <2>2, <2>3 DEF Tally, ErrInv
  <2> QED
    BY <1>2, <1>3, <2>1, <2>4, FreshStay DEF ErrInv
<1>5. CASE Head(h2c).op = "query"
  <2> DEFINE e == [Event("errors") EXCEPT !.n = cardErr]
  <2>1. c2h' = Append(c2h, e) /\ UNCHANGED <<run, cardErr>>
    BY <1>5 DEF card_takes
  <2>2. e \in CardMsg /\ e.op = "errors" /\ e.ok /\ e.calls = <<>> /\ e.n = cardErr
    BY <1>1, EventShape
  <2> HIDE DEF e
  <2>3. /\ \A k \in DOMAIN c2h : k \in DOMAIN c2h' /\ c2h'[k] = c2h[k]
        /\ \A k \in DOMAIN c2h' : k \in DOMAIN c2h \/ c2h'[k] = e
        /\ AddDue' <=> AddDue
    BY <1>1, <2>1, <2>2, CallsDiffer, EventGrow
  <2>4. Bad(e) => cardErr > 0
    BY <2>2 DEF Bad
  <2>5. Fresh'
    <3>1. \A k \in DOMAIN c2h' : k \in DOMAIN c2h \/ (Bad(c2h'[k]) => cardErr' > 0)
      BY <2>1, <2>3, <2>4
    <3>2. UNCHANGED <<m_errorList, post>> /\ (cardErr > 0 => cardErr' > 0)
      BY <1>1, <2>1
    <3> QED
      BY <2>3, <3>1, <3>2, FreshGrow DEF ErrInv
  <2>6. Tally'
    BY <1>1, <1>2, <1>5, <2>1, <2>3, TallySame DEF ErrInv
  <2> QED
    BY <1>2, <2>5, <2>6
<1>6. CASE Head(h2c).op = "clear"
  <2> DEFINE e == Event("cleared")
  <2>1. c2h' = Append(c2h, e) /\ cardErr' = 0 /\ UNCHANGED run
    BY <1>6 DEF card_takes
  <2>2. e \in CardMsg /\ e.op = "cleared" /\ e.ok /\ e.calls = <<>>
    BY EventShape
  <2> HIDE DEF e
  <2>3. /\ \A k \in DOMAIN c2h : k \in DOMAIN c2h' /\ c2h'[k] = c2h[k]
        /\ \A k \in DOMAIN c2h' : k \in DOMAIN c2h \/ c2h'[k] = e
        /\ Len(c2h) + 1 \in DOMAIN c2h' /\ Len(c2h) + 1 > Len(c2h) /\ c2h'[Len(c2h) + 1] = e
        /\ AddDue' <=> AddDue
    BY <1>1, <2>1, <2>2, CallsDiffer, EventGrow
  <2>4. ~Bad(e)
    BY <2>2 DEF Bad
  <2>5. Fresh'
    <3>1. \A k \in DOMAIN c2h' : k \in DOMAIN c2h \/ (Bad(c2h'[k]) => cardErr' > 0)
      BY <2>3, <2>4
    <3>2. \E l \in DOMAIN c2h' : l > Len(c2h) /\ c2h'[l].op = "cleared"
      BY <2>2, <2>3
    <3> QED
      BY <1>1, <2>3, <3>1, <3>2, FreshGrow DEF ErrInv
  <2>6. Clearing /\ run.i = 0 /\ ~AddDue
    BY <1>2, <1>6 DEF Tally, ErrInv
  <2>7. Tally'
    BY <1>1, <2>1, <2>3, <2>6 DEF Tally, ErrInv
  <2> QED
    BY <1>2, <2>5, <2>7
<1>7. CASE Head(h2c).op = "copy"
  <2>1. UNCHANGED <<run, cardErr, c2h>>
    BY <1>7 DEF card_takes
  <2>2. AddDue' <=> AddDue
    BY <1>1, <2>1 DEF AddDue
  <2>3. Tally'
    BY <1>1, <1>2, <1>7, <2>1, <2>2, TallySame DEF ErrInv
  <2> QED
    BY <1>2, <1>3, <2>1, <2>3, FreshStay DEF ErrInv
<1> QED
  BY <1>4, <1>5, <1>6, <1>7, Taken

LEMMA ErrRuns ==
    ASSUME Shape, Shape', StageInv, ErrInv, NEW ok \in BOOLEAN, card_runs(ok)
    PROVE  ClearsFirst' /\ Tally' /\ Fresh'
<1> DEFINE two == run.i = Len(Vec) /\ (run.failed \/ ~ok)
<1>1. /\ UNCHANGED <<clear, m_in_flight, m_failed_commands, calls, m_errorList, post, h2c>>
      /\ cardErr \in Nat /\ run.i # 0 /\ cardErr' = IF ok THEN cardErr ELSE cardErr + 1
  BY Unfold DEF card_runs, Shape, CardShape
<1>2. /\ Ran(ok).op = "executed" /\ Ran(ok).ok = ok
      /\ Ran(ok).calls = <<"addError">> <=> ~ok
      /\ DOMAIN c2h = 1 .. Len(c2h) /\ Len(c2h) \in Nat
      /\ DOMAIN c2h' = 1 .. Len(c2h) + (IF two THEN 2 ELSE 1)
      /\ \A k \in 1 .. Len(c2h) : c2h'[k] = c2h[k]
      /\ c2h'[Len(c2h) + 1] = Ran(ok)
      /\ two => c2h'[Len(c2h) + 2] = AllRan
  BY RunsEvents, CallsDiffer
<1>3. AllRan.op = "executed" /\ AllRan.ok /\ AllRan.calls # <<"addError">>
  BY EventShape, CallsDiffer
<1>4. /\ \A k \in DOMAIN c2h : k \in DOMAIN c2h' /\ c2h'[k] = c2h[k]
      /\ \A k \in DOMAIN c2h' : k \in DOMAIN c2h \/ c2h'[k] = Ran(ok) \/ c2h'[k] = AllRan
      /\ Len(c2h) + 1 \in DOMAIN c2h' /\ Len(c2h) + 1 \notin DOMAIN c2h
  BY <1>2
<1>5. AddDue' <=> AddDue \/ ~ok
  <2>1. ~ok <=> \E k \in DOMAIN c2h' : k \notin DOMAIN c2h /\ c2h'[k].calls = <<"addError">>
    <3>1. ~ok => Ran(ok).calls = <<"addError">>
      BY <1>2
    <3>2. ~ok => \E k \in DOMAIN c2h' : k \notin DOMAIN c2h /\ c2h'[k].calls = <<"addError">>
      BY <1>2, <1>4, <3>1
    <3>3. \A k \in DOMAIN c2h' : k \notin DOMAIN c2h /\ c2h'[k].calls = <<"addError">> => ~ok
      BY <1>2, <1>3, <1>4
    <3> QED
      BY <3>2, <3>3
  <2> QED
    BY <1>1, <1>4, <2>1, DueGrow
<1>6. ClearsFirst' /\ (Clearing' <=> Clearing)
  BY <1>1, ClearSame DEF ErrInv
<1>7. ~Clearing /\ m_in_flight /\ clear = "idle"
  <2>1. m_in_flight
    BY <1>1 DEF StageInv, OneStage
  <2>2. clear \in {"idle", "query"}
    BY DEF Shape, CallsShape
  <2> QED
    BY <1>1, <2>1, <2>2 DEF ErrInv, Tally
<1>8. (cardErr > 0 => cardErr' > 0) /\ (~ok => cardErr' > 0) /\ (ok => cardErr' = cardErr)
  BY <1>1
<1>9. Fresh'
  <2>1. \A k \in DOMAIN c2h' : k \in DOMAIN c2h \/ (Bad(c2h'[k]) => cardErr' > 0)
    <3>1. Bad(Ran(ok)) => cardErr' > 0
      BY <1>2, <1>8 DEF Bad
    <3>2. ~Bad(AllRan)
      BY <1>3 DEF Bad
    <3> QED
      BY <1>4, <3>1, <3>2
  <2> QED
    BY <1>1, <1>4, <1>8, <2>1, FreshGrow DEF ErrInv
<1>10. Tally'
  <2>1. Tally
    BY DEF ErrInv
  <2>2. m_in_flight' /\ ~Clearing' /\ clear' = "idle"
    BY <1>1, <1>6, <1>7
  <2>3. m_failed_commands' > 0 => cardErr' > 0
    BY <1>1, <1>7, <1>8, <2>1 DEF Tally
  <2>4. AddDue' => cardErr' > 0
    BY <1>5, <1>8, <2>1 DEF Tally
  <2>5. cardErr' > 0 => m_failed_commands' > 0 \/ AddDue'
    BY <1>1, <1>5, <1>7, <1>8, <2>1 DEF Tally
  <2> QED
    BY <2>2, <2>3, <2>4, <2>5 DEF Tally
<1> QED
  BY <1>6, <1>9, <1>10

LEMMA ErrCopies ==
    ASSUME Shape, Shape', ErrInv, NEW c \in Copy, card_copies(c)
    PROVE  ClearsFirst' /\ Tally' /\ Fresh'
<1> DEFINE e == [Event("executed") EXCEPT !.cs = <<c>>]
<1>1. /\ UNCHANGED <<clear, m_in_flight, m_failed_commands, calls, m_errorList, post, h2c, run, cardErr>>
      /\ c2h' = Append(c2h, e)
  BY Unfold DEF card_copies
<1>2. e \in CardMsg /\ e.op = "executed" /\ e.ok /\ e.calls = <<>>
  BY EventShape
<1> HIDE DEF e
<1>3. /\ \A k \in DOMAIN c2h : k \in DOMAIN c2h' /\ c2h'[k] = c2h[k]
      /\ \A k \in DOMAIN c2h' : k \in DOMAIN c2h \/ c2h'[k] = e
      /\ AddDue' <=> AddDue
  BY <1>1, <1>2, CallsDiffer, EventGrow
<1>4. ~Bad(e)
  BY <1>2 DEF Bad
<1>5. Fresh'
  <2>1. \A k \in DOMAIN c2h' : k \in DOMAIN c2h \/ (Bad(c2h'[k]) => cardErr' > 0)
    BY <1>3, <1>4
  <2>2. cardErr > 0 => cardErr' > 0
    BY <1>1
  <2> QED
    BY <1>1, <1>3, <2>1, <2>2, FreshGrow DEF ErrInv
<1>6. ClearsFirst' /\ (Clearing' <=> Clearing)
  BY <1>1, ClearSame DEF ErrInv
<1> QED
  BY <1>1, <1>3, <1>5, <1>6, TallySame DEF ErrInv

LEMMA ErrStarts == Init => ErrInv
<1> SUFFICES ASSUME Init PROVE ErrInv
  OBVIOUS
<1>1. WaitqOwner
  BY DEF Init, WaitqOwner, Idle
<1>2. h2c = <<>> /\ c2h = <<>> /\ calls = <<>> /\ post = <<>>
  BY DEF Init
<1>3. DOMAIN h2c = {} /\ DOMAIN c2h = {} /\ DOMAIN post = {}
  BY <1>2
<1>4. ClearsFirst /\ ~Clearing
  BY <1>3 DEF ClearsFirst, Clearing
<1>5. ~AddDue
  BY <1>2, <1>3, CallsDiffer DEF AddDue
<1>6. Tally
  BY <1>4, <1>5 DEF Tally, Init
<1>7. m_errorList.n = 0 /\ m_errorList.failed = <<>>
  BY DEF Init
<1>8. Fresh
  BY <1>3, <1>7 DEF Fresh, Knows
<1> QED
  BY <1>1, <1>4, <1>6, <1>8 DEF ErrInv

\* A wait that times out would unlock the mutex of whoever has it (see wait_late).
LEMMA ErrKept ==
    ASSUME Shape, Shape', StageInv, ErrInv, ~ClearInFlight, [Next]_vars, wait # "late", broke' = 0
    PROVE  ErrInv'
<1>1. WaitqOwner'
  BY WaitqKept
<1>2. CASE UNCHANGED vars
  <2>1. UNCHANGED <<clear, m_in_flight, m_failed_commands, cardErr, run, h2c, c2h, calls, m_errorList, post>>
    BY <1>2, Unfold DEF vars
  <2>2. Knows' <=> Knows
    BY <2>1 DEF Knows
  <2> QED
    BY <1>1, <2>1, <2>2, ErrSame DEF ErrInv
<1>3. CASE Card
  BY <1>1, <1>3, ErrTakes, ErrRuns, ErrCopies DEF Card, ErrInv
<1>4. CASE Next /\ ~Card
  BY <1>1, <1>4, NotBroken, ErrSchedule, ErrUser, ErrRespond DEF Next, UserStep, ErrInv
<1> QED
  BY <1>2, <1>3, <1>4

LEMMA ErrInvKept ==
    ASSUME ListDisciplined, ~ClearInFlight
    PROVE  Spec /\ [](wait # "late") => [](Shape /\ CountInv /\ ListInv /\ (broke = 0 => ErrInv))
<1>1. Init => (broke = 0 => ErrInv)
  BY ErrStarts
<1>2. ASSUME Shape, Shape', ListInv, broke = 0 => ErrInv, [Next]_vars, wait # "late"
      PROVE  (broke = 0 => ErrInv)'
  <2> SUFFICES ASSUME broke' = 0 PROVE ErrInv'
    OBVIOUS
  <2>1. broke = 0
    BY <1>2, NotBroken
  <2> QED
    BY <1>2, <2>1, ErrKept DEF ListInv
<1>3. Init => CountInv
  BY CountsStart
<1>4. Shape /\ Shape' /\ CountInv /\ [Next]_vars => CountInv'
  BY CountsKept
<1> QED
  BY <1>1, <1>2, <1>3, <1>4, ListInvKept, PTL DEF Spec

\* When all is answered, the host's count of errors and the card's agree, and no
\* resource is broken for an error that was cleared.
LEMMA QuietIsAgreed ==
    ASSUME Shape, CountInv, ListInv, broke = 0 => ErrInv
    PROVE  QuietAgree
<1> SUFFICES ASSUME broke = 0, h2c = <<>>, c2h = <<>>, run.i = 0, respIdle, sched.pc = "idle", clear = "idle"
             PROVE  /\ ~m_in_flight
                    /\ (m_failed_commands > 0) = (cardErr > 0)
                    /\ cardErr = 0 => m_errorList.n = 0 /\ \A r \in Res : ~broken(r)
  BY DEF QuietAgree
<1>0. StageInv /\ Tally /\ Fresh /\ calls = <<>> /\ DOMAIN h2c = {} /\ DOMAIN c2h = {}
  BY DEF ListInv, ErrInv, respIdle
<1>1. ~Clearing /\ ~RunQueued /\ ~Completing /\ ~AddDue /\ ~CallDue
  BY <1>0, CallsDiffer DEF Clearing, RunQueued, Completing, AddDue, CallDue
<1>2. ~m_in_flight
  BY <1>0, <1>1 DEF StageInv, OneStage, Preparing
<1>3. (m_failed_commands > 0) = (cardErr > 0)
  BY <1>0, <1>1 DEF Tally
<1>4. ASSUME cardErr = 0 PROVE m_errorList.n = 0 /\ \A r \in Res : ~broken(r)
  <2>1. ~ClearedAfter(0)
    BY <1>0 DEF ClearedAfter
  <2>2. m_errorList.n = 0 /\ m_errorList.failed = <<>>
    BY <1>0, <1>4, <2>1 DEF Fresh, Knows, Shape, ListShape
  <2>3. ASSUME NEW r \in Res PROVE m_failed_copy_ops[r] = 0
    <3>1. {k \in DOMAIN m_errorList.failed : m_errorList.failed[k] \in {r}} = {}
      BY <2>2
    <3>2. Count(m_errorList.failed, {r}) = 0
      BY <3>1, FS_EmptySet, Zenon DEF Count
    <3> QED
      BY <3>2 DEF CountInv, FailedExact
  <2> QED
    BY <2>2, <2>3 DEF broken
<1> QED
  BY <1>2, <1>3, <1>4

\* The list runs once at a time, leaves nothing locked and agrees with the card,
\* when errors are not cleared while it runs and no wait times out.
THEOREM ListIsRight ==
    ASSUME ListDisciplined, ~ClearInFlight
    PROVE  Spec /\ [](wait # "late") => []ListRight
<1>1. Shape /\ CountInv /\ ListInv /\ (broke = 0 => ErrInv) => TypeOK /\ QuietAgree
  BY ShapeIsType, QuietIsAgreed
<1> QED
  BY <1>1, ErrInvKept, ListRunsRight, PTL DEF ListRight

\* No failure goes unnoticed: wait says that there were no errors only of a list
\* that has had none, or whose errors are being cleared.
THEOREM NoFailureIsMissed ==
    ASSUME ListDisciplined, ~ClearInFlight
    PROVE  Spec /\ [](wait # "late") => NoFailureMissed
<1>1. ASSUME Shape, ListInv, broke = 0 => ErrInv, [Next]_vars,
             wait = "over", wait' = "idle", m_failed_commands = 0, broke = 0, ~m_in_flight
      PROVE  cardErr = 0 \/ Clearing
  <2>1. Tally /\ cardErr \in Nat
    BY <1>1 DEF ErrInv, Shape, CardShape
  <2> QED
    BY <1>1, <2>1 DEF Tally
<1> QED
  BY <1>1, ErrInvKept, PTL DEF Spec, NoFailureMissed
=============================================================================
