--------------------------- MODULE StreamLoadProofs ---------------------------
(***************************************************************************)
(* Blocks are intact and mapped while the card copies them, and a load     *)
(* that reports success has put the stream where it belongs: for every     *)
(* size of blocks, resource and stream, and whichever steps fail.          *)
(*                                                                         *)
(* BlocksRight is not inductive: that a block is not filled under a copy   *)
(* rests on its lock.  IInv says that whoever has still to deal with a     *)
(* copy, the loader, the card or the response thread, stands for the one   *)
(* reader of its block, and that no two stand for the same block.          *)
(*                                                                         *)
(* LoadRight looks at the end of a load only.  Whole says at each point    *)
(* which part of the stream was read and sent (Progress), that what is in  *)
(* a block, on its way or on the card is that part (InHand, UnderWay,      *)
(* InPlace, Arrived), that each failure is recorded with the resource or   *)
(* on its way there (Failures), and what lock_cpu_access and m_scheduled   *)
(* say of the copies (Locks, Held).                                        *)
(***************************************************************************)
EXTENDS StreamLoad, SequenceTheorems, WellFoundedInduction, TLAPS

(***************************************************************************)
(* The channel's queues                                                    *)
(***************************************************************************)

Listed(s) == Len(s) \in Nat /\ s = [k \in 1 .. Len(s) |-> s[k]]

\* A sequence is determined by its elements.
LEMMA SeqListed == ASSUME NEW S, NEW q \in Seq(S) PROVE Listed(q)
BY DEF Listed

\* What Append does, whatever the elements are.
LEMMA AppendListed ==
    ASSUME NEW s, Listed(s), NEW e
    PROVE  /\ Listed(Append(s, e)) /\ Len(Append(s, e)) = Len(s) + 1
           /\ Append(s, e)[Len(s) + 1] = e
           /\ \A k \in 1 .. Len(s) : Append(s, e)[k] = s[k]
<1> DEFINE S == {s[k] : k \in 1 .. Len(s)} \cup {e}
<1>1. s \in Seq(S)
  <2>1. [k \in 1 .. Len(s) |-> s[k]] \in [1 .. Len(s) -> S]
    OBVIOUS
  <2>2. s \in [1 .. Len(s) -> S] /\ Len(s) \in Nat
    BY <2>1 DEF Listed
  <2> QED
    BY <2>2, SeqDef
<1>2. Append(s, e) \in Seq(S) /\ Len(Append(s, e)) = Len(s) + 1
  BY <1>1
<1>3. Listed(Append(s, e))
  BY <1>2, SeqListed
<1> QED
  BY <1>1, <1>2, <1>3

\* What Head and Tail are of a queue that is not empty.
LEMMA TailListed ==
    ASSUME NEW s, Listed(s), s # <<>>
    PROVE  /\ Listed(Tail(s)) /\ Len(Tail(s)) = Len(s) - 1 /\ Len(s) > 0
           /\ Head(s) = s[1]
           /\ \A k \in 1 .. Len(s) - 1 : Tail(s)[k] = s[k + 1]
<1> DEFINE S == {s[k] : k \in 1 .. Len(s)}
<1>1. s \in Seq(S)
  <2>1. [k \in 1 .. Len(s) |-> s[k]] \in [1 .. Len(s) -> S]
    OBVIOUS
  <2>2. s \in [1 .. Len(s) -> S] /\ Len(s) \in Nat
    BY <2>1 DEF Listed
  <2> QED
    BY <2>2, SeqDef
<1>2. Len(s) > 0 /\ Tail(s) \in Seq(S) /\ Len(Tail(s)) = Len(s) - 1
  BY <1>1
<1>3. Listed(Tail(s))
  BY <1>2, SeqListed
<1> QED
  BY <1>1, <1>2, <1>3

\* A queue stays one when its head is taken or something is appended.
LEMMA QueueKept ==
    ASSUME NEW s, NEW t, Listed(s), t = s \/ (s # <<>> /\ t = Tail(s)) \/ \E e : t = Append(s, e)
    PROVE  Listed(t)
<1>1. CASE t = s
  BY <1>1
<1>2. CASE s # <<>> /\ t = Tail(s)
  BY <1>2, TailListed
<1>3. CASE \E e : t = Append(s, e)
  <2>1. PICK e : t = Append(s, e)
    BY <1>3
  <2>2. Listed(Append(s, e))
    BY AppendListed
  <2> QED
    BY <2>1, <2>2
<1> QED
  BY <1>1, <1>2, <1>3

-----------------------------------------------------------------------------
(***************************************************************************)
(* The inductive invariant                                                 *)
(***************************************************************************)

Functions ==
    /\ m_readers = [i \in Block |-> m_readers[i]] /\ m_scheduled = [i \in Block |-> m_scheduled[i]]
    /\ made = [i \in Block |-> made[i]] /\ is_mapped = [i \in Block |-> is_mapped[i]]
    /\ copy = [i \in Block |-> copy[i]] /\ mem = [i \in Block |-> mem[i]]
    /\ block_idx \in Block
    /\ Listed(h2c) /\ Listed(c2h)
    /\ fatal = "failed" => c2h # <<>> /\ Head(c2h).op = "card_fatal"

Todo == 1 .. Len(h2c)
Ended == {k \in 1 .. Len(c2h) : c2h[k].op \in {"success", "failed"}}

Busy(i) == i \in Block /\ m_readers[i] = 1 /\ m_scheduled[i]

\* One copy at a time of each block, which it holds and will give back.
Once ==
    /\ \A k \in Todo : Busy(h2c[k].i)
    /\ \A k \in Ended : Busy(c2h[k].i)
    /\ \A j, k \in Todo : h2c[j].i = h2c[k].i => j = k
    /\ \A j, k \in Ended : c2h[j].i = c2h[k].i => j = k
    /\ \A j \in Todo, k \in Ended : h2c[j].i # c2h[k].i

\* What the card is to copy is in the block.
Intact == \A k \in Todo : mem[h2c[k].i] = h2c[k].bytes /\ made[h2c[k].i]

\* Where the loader is, and what it has of its block.
At ==
    /\ pc \notin {"end", "done"} => \A i \in Block : made[i] => is_mapped[i] /\ copy[i]
    /\ pc \in {"lock", "asleep", "read", "unlock", "schedule", "send"} => made[block_idx]
    /\ pc \in {"read", "unlock"} => m_readers[block_idx] = -1
    /\ pc = "schedule" => m_readers[block_idx] = 0
    /\ pc = "send" => /\ Busy(block_idx)
                      /\ \A k \in Todo : h2c[k].i # block_idx
                      /\ \A k \in Ended : c2h[k].i # block_idx
    /\ pc \in {"end", "done"} /\ ret = "ok" => h2c = <<>>

Alive == Once /\ Intact /\ At

IInv == Functions /\ (fatal = "no" => Alive)

-----------------------------------------------------------------------------
(***************************************************************************)
(* What every step keeps                                                   *)
(***************************************************************************)

LEMMA FunctionsKept == ASSUME Functions, [Next]_vars PROVE Functions'
<1> USE DEF Functions
<1>1. ASSUME h2c' = h2c \/ (h2c # <<>> /\ h2c' = Tail(h2c)) \/ \E e : h2c' = Append(h2c, e)
      PROVE  Listed(h2c')
  BY <1>1, QueueKept
<1>2. ASSUME c2h' = c2h \/ (c2h # <<>> /\ c2h' = Tail(c2h)) \/ \E e : c2h' = Append(c2h, e)
      PROVE  Listed(c2h')
  BY <1>2, QueueKept
<1>3. CASE prepare \/ lock_cpu_access \/ read_cb \/ unlock_cpu_access \/ schedule \/ drain \/ end
  BY <1>3 DEF prepare, lock_cpu_access, read_cb, unlock_cpu_access, schedule, drain, end,
     Stop, loaderVars, blockVars, lockVars, cardVars
<1>4. CASE schedule_send
  <2>1. Listed(h2c')
    BY <1>1, <1>4 DEF schedule_send
  <2>2. block_idx' \in Block
    BY <1>4 DEF schedule_send, Block
  <2>3. UNCHANGED <<blockVars, mem, c2h, fatal>>
    BY <1>4 DEF schedule_send
  <2>4. /\ m_readers' = [i \in Block |-> m_readers'[i]]
        /\ m_scheduled' = [i \in Block |-> m_scheduled'[i]]
    BY <1>4 DEF schedule_send
  <2> QED
    BY <2>1, <2>2, <2>3, <2>4 DEF blockVars
<1>5. CASE copy_event \/ context_fatal \/ card_fatal_broken
  <2>1. c2h # <<>> /\ c2h' = Tail(c2h) /\ h2c' = h2c /\ fatal' # "failed"
    BY <1>5 DEF copy_event, context_fatal, card_fatal_broken, cardVars
  <2>2. UNCHANGED <<blockVars, mem, block_idx>>
    BY <1>5 DEF copy_event, context_fatal, card_fatal_broken, loaderVars
  <2>3. /\ m_readers' = [i \in Block |-> m_readers'[i]]
        /\ m_scheduled' = [i \in Block |-> m_scheduled'[i]]
    BY <1>5 DEF copy_event, context_fatal, card_fatal_broken, postSchedule, lockVars
  <2>4. Listed(c2h')
    BY <1>2, <2>1
  <2> QED
    BY <2>1, <2>2, <2>3, <2>4 DEF blockVars
<1>6. CASE card_fatal
  BY <1>6 DEF card_fatal, postSchedule, loaderVars, blockVars, cardVars
<1>7. CASE card_copies \/ card_event
  <2>1. fatal' # "failed"
    BY <1>7 DEF card_copies, card_event, Dead, Host
  <2>2. Listed(h2c') /\ Listed(c2h')
    BY <1>1, <1>2, <1>7 DEF card_copies, card_event
  <2>3. UNCHANGED <<blockVars, mem, block_idx, m_readers, m_scheduled>>
    BY <1>7 DEF card_copies, card_event, Host, loaderVars, lockVars
  <2> QED
    BY <2>1, <2>2, <2>3 DEF blockVars
<1>8. CASE UNCHANGED vars
  BY <1>8 DEF vars, loaderVars, blockVars, lockVars, cardVars
<1> QED
  BY <1>3, <1>4, <1>5, <1>6, <1>7, <1>8 DEF Next, Loader, Respond

\* Once the copies were failed, this is not taken back.
LEMMA FatalStays == ASSUME [Next]_vars, fatal' = "no" PROVE fatal = "no"
BY DEF Next, Loader, Respond, prepare, lock_cpu_access, read_cb, unlock_cpu_access, schedule, schedule_send,
   drain, end, copy_event, context_fatal, card_fatal, card_fatal_broken, card_copies, card_event, Host, vars

-----------------------------------------------------------------------------
(***************************************************************************)
(* The steps of the loader                                                 *)
(***************************************************************************)

\* The copies under way are those of blocks whose one reader they are: a step
\* that leaves those alone does not touch them.
LEMMA OnceFrame ==
    ASSUME Once, UNCHANGED <<h2c, c2h>>, \A i \in Block : Busy(i) => Busy(i)'
    PROVE  Once'
BY DEF Once, Todo, Ended, Busy

\* A block that the loader locked, or may lock, has no copy under way.
LEMMA BlockFree ==
    ASSUME Once, NEW i, m_readers[i] # 1
    PROVE  /\ \A k \in Todo : h2c[k].i # i
           /\ \A k \in Ended : c2h[k].i # i
BY DEF Once, Busy

LEMMA PrepareKeeps == ASSUME Functions, Alive, prepare PROVE Alive'
<1> USE DEF Functions, Alive
<1>1. /\ UNCHANGED <<h2c, c2h, m_readers, m_scheduled, mem, block_idx>>
      /\ pc = "block" /\ pc' \in {"lock", "end"}
  BY DEF prepare, Stop, loaderVars, lockVars, cardVars
<1>2. Once'
  BY <1>1, OnceFrame DEF Busy
<1>3. \A i \in Block : made[i] => made'[i]
  BY DEF prepare, Stop, blockVars
<1>4. Intact'
  BY <1>1, <1>3 DEF Intact, Todo, Once, Busy
<1>5. pc' = "end" => ret' # "ok"
  BY <1>1 DEF prepare, Stop
<1>6. pc' = "lock" => made'[block_idx] /\ \A i \in Block : made'[i] => is_mapped'[i] /\ copy'[i]
  <2>1. CASE made[block_idx]
    BY <1>1, <2>1 DEF prepare, At, blockVars
  <2>2. CASE ~made[block_idx] /\ pc' = "lock"
    <3> PICK stage \in 0 .. 3 :
          /\ made' = [made EXCEPT ![block_idx] = stage >= 1]
          /\ is_mapped' = [is_mapped EXCEPT ![block_idx] = stage >= 2]
          /\ copy' = [copy EXCEPT ![block_idx] = stage = 3]
          /\ stage = 3 \/ pc' = "end"
      BY <2>2 DEF prepare, Stop
    <3>1. stage >= 1 /\ stage >= 2 /\ stage = 3
      BY <2>2
    <3>2. \A i \in Block : made[i] => is_mapped[i] /\ copy[i]
      BY <1>1 DEF At
    <3>3. made'[block_idx] /\ is_mapped'[block_idx] /\ copy'[block_idx]
      BY <3>1 DEF Functions
    <3>4. \A i \in Block : i # block_idx => made'[i] = made[i] /\ is_mapped'[i] = is_mapped[i] /\ copy'[i] = copy[i]
      BY DEF Functions
    <3> QED
      BY <3>2, <3>3, <3>4
  <2> QED
    BY <2>1, <2>2
<1>7. At'
  BY <1>1, <1>5, <1>6 DEF At
<1> QED
  BY <1>2, <1>4, <1>7

LEMMA LockKeeps == ASSUME Functions, Alive, lock_cpu_access PROVE Alive'
<1> USE DEF Functions, Alive
<1>1. /\ UNCHANGED <<h2c, c2h, m_scheduled, mem, block_idx, made, is_mapped, copy>>
      /\ pc = "lock" /\ pc' \in {"asleep", "read", "end"}
  BY DEF lock_cpu_access, Stop, loaderVars, blockVars, cardVars
<1>2. \/ m_readers' = m_readers
      \/ m_readers[block_idx] = 0 /\ m_readers' = [m_readers EXCEPT ![block_idx] = -1]
  BY DEF lock_cpu_access
<1>3. /\ pc' = "read" => m_readers' = [m_readers EXCEPT ![block_idx] = -1]
      /\ pc' = "end" => ret' # "ok"
  BY DEF lock_cpu_access, Stop
<1>4. Once'
  BY <1>1, <1>2, OnceFrame DEF Busy
<1>5. Intact'
  BY <1>1 DEF Intact, Todo
<1>6. At'
  BY <1>1, <1>3 DEF At
<1> QED
  BY <1>4, <1>5, <1>6

LEMMA ReadKeeps == ASSUME Functions, Alive, read_cb PROVE Alive'
<1> USE DEF Functions, Alive
<1>1. /\ UNCHANGED <<h2c, c2h, m_readers, m_scheduled, block_idx, made, is_mapped, copy>>
      /\ pc = "read" /\ pc' = "unlock"
  BY DEF read_cb, blockVars, lockVars, cardVars
<1>2. \A i \in Block : i # block_idx => mem'[i] = mem[i]
  BY DEF read_cb
<1>3. m_readers[block_idx] = -1 /\ m_readers[block_idx] # 1
  BY <1>1 DEF At
<1>4. \A k \in Todo : h2c[k].i # block_idx
  BY <1>3, BlockFree
<1>5. Once'
  BY <1>1, OnceFrame DEF Busy
<1>6. Intact'
  BY <1>1, <1>2, <1>4 DEF Intact, Todo, Once, Busy
<1>7. At'
  BY <1>1 DEF At
<1> QED
  BY <1>5, <1>6, <1>7

LEMMA UnlockKeeps == ASSUME Functions, Alive, unlock_cpu_access PROVE Alive'
<1> USE DEF Functions, Alive
<1>1. /\ UNCHANGED <<h2c, c2h, m_scheduled, mem, block_idx, made, is_mapped, copy>>
      /\ pc = "unlock" /\ pc' \in {"end", "drain", "schedule"}
      /\ pc' = "end" => ret' # "ok"
  BY DEF unlock_cpu_access, Stop, loaderVars, blockVars, cardVars
<1>2. m_readers[block_idx] = -1 /\ m_readers' = [m_readers EXCEPT ![block_idx] = 0]
  BY <1>1 DEF At, unlock_cpu_access
<1>3. Once'
  BY <1>1, <1>2, OnceFrame DEF Busy
<1>4. Intact'
  BY <1>1 DEF Intact, Todo
<1>5. At'
  BY <1>1, <1>2 DEF At
<1> QED
  BY <1>3, <1>4, <1>5

LEMMA ScheduleKeeps == ASSUME Functions, Alive, schedule PROVE Alive'
<1> USE DEF Functions, Alive
<1>1. /\ UNCHANGED <<h2c, c2h, mem, block_idx, made, is_mapped, copy>>
      /\ pc = "schedule" /\ pc' \in {"end", "send"}
      /\ pc' = "end" => ret' # "ok" /\ UNCHANGED <<m_readers, m_scheduled>>
      /\ pc' = "send" => /\ m_readers' = [m_readers EXCEPT ![block_idx] = @ + 1]
                         /\ m_scheduled' = [m_scheduled EXCEPT ![block_idx] = TRUE]
  BY DEF schedule, Stop, loaderVars, blockVars, cardVars
<1>2. m_readers[block_idx] = 0
  BY <1>1 DEF At
<1>3. /\ \A k \in Todo : h2c[k].i # block_idx
      /\ \A k \in Ended : c2h[k].i # block_idx
  BY <1>2, BlockFree
<1>4. \A i \in Block : Busy(i) => Busy(i)'
  BY <1>1, <1>2 DEF Busy
<1>5. Once'
  BY <1>1, <1>4, OnceFrame
<1>6. Intact'
  BY <1>1 DEF Intact, Todo
<1>7. pc' = "send" => Busy(block_idx)'
  BY <1>1, <1>2 DEF Busy
<1>8. At'
  BY <1>1, <1>3, <1>7 DEF At, Todo, Ended
<1> QED
  BY <1>5, <1>6, <1>8

LEMMA DrainKeeps == ASSUME Functions, Alive, drain PROVE Alive'
<1> USE DEF Functions, Alive
<1>1. /\ UNCHANGED <<h2c, c2h, m_readers, m_scheduled, mem, block_idx, made, is_mapped, copy>>
      /\ pc = "drain" /\ pc' \in {"end", "drain_asleep"}
      /\ pc' = "end" => \A i \in Block : made[i] => m_readers[i] = 0
  BY DEF drain, Stop, loaderVars, blockVars, lockVars, cardVars
<1>2. pc' = "end" => h2c = <<>>
  <2> SUFFICES ASSUME pc' = "end", h2c # <<>> PROVE FALSE
    OBVIOUS
  <2>1. 1 \in Todo
    BY TailListed DEF Todo
  <2>2. Busy(h2c[1].i) /\ made[h2c[1].i]
    BY <2>1 DEF Once, Intact
  <2> QED
    BY <1>1, <2>2 DEF Busy
<1>3. Once'
  BY <1>1, OnceFrame DEF Busy
<1>4. Intact'
  BY <1>1 DEF Intact, Todo
<1>5. At'
  BY <1>1, <1>2 DEF At
<1> QED
  BY <1>3, <1>4, <1>5

LEMMA EndKeeps == ASSUME Functions, Alive, end PROVE Alive'
<1> USE DEF Functions, Alive
<1>1. /\ UNCHANGED <<h2c, c2h, m_readers, m_scheduled, mem, made, ret>>
      /\ pc = "end" /\ pc' = "done"
  BY DEF end, lockVars, cardVars
<1>2. Once'
  BY <1>1, OnceFrame DEF Busy
<1>3. Intact'
  BY <1>1 DEF Intact, Todo
<1>4. At'
  BY <1>1 DEF At
<1> QED
  BY <1>2, <1>3, <1>4

LEMMA SendKeeps == ASSUME Functions, Alive, schedule_send PROVE Alive'
<1> USE DEF Functions, Alive
<1>1. /\ UNCHANGED <<c2h, mem, made, is_mapped, copy>> /\ pc = "send"
      /\ pc' \in {"block", "drain", "end"}
      /\ pc' = "end" => ret' # "ok"
  BY DEF schedule_send, Stop, blockVars
<1>2. /\ Busy(block_idx) /\ made[block_idx]
      /\ \A k \in Todo : h2c[k].i # block_idx
      /\ \A k \in Ended : c2h[k].i # block_idx
  BY <1>1 DEF At
<1>3. At'
  BY <1>1 DEF At
<1>4. CASE /\ h2c' = Append(h2c, [i |-> block_idx, at |-> devres_offset, bytes |-> mem[block_idx]])
           /\ UNCHANGED <<m_readers, m_scheduled>>
  <2> DEFINE m == [i |-> block_idx, at |-> devres_offset, bytes |-> mem[block_idx]]
  <2>1. Len(h2c') = Len(h2c) + 1 /\ h2c'[Len(h2c) + 1] = m /\ \A k \in Todo : h2c'[k] = h2c[k]
    BY <1>4, AppendListed DEF Todo
  <2>2. \A k \in Todo' : k \in Todo \/ k = Len(h2c) + 1
    BY <2>1 DEF Todo, Listed
  <2>3. m.i = block_idx /\ m.bytes = mem[block_idx]
    OBVIOUS
  <2> HIDE DEF m
  <2>4. \A k \in Todo' : \/ k \in Todo /\ h2c'[k] = h2c[k]
                         \/ k = Len(h2c) + 1 /\ h2c'[k].i = block_idx /\ h2c'[k].bytes = mem[block_idx]
    BY <2>1, <2>2, <2>3
  <2>5. Ended' = Ended
    BY <1>1 DEF Ended
  <2>6. Once'
    <3>1. \A k \in Todo' : Busy(h2c'[k].i)
      BY <1>2, <2>4 DEF Once
    <3>2. \A k \in Todo' : Busy(h2c[k].i)'
      BY <1>4, <3>1 DEF Busy
    <3>3. \A k \in Ended' : Busy(c2h[k].i)'
      BY <1>1, <1>4, <2>5 DEF Once, Busy
    <3>4. \A j, k \in Todo' : h2c'[j].i = h2c'[k].i => j = k
      <4> SUFFICES ASSUME NEW j \in Todo', NEW k \in Todo', h2c'[j].i = h2c'[k].i PROVE j = k
        OBVIOUS
      <4>1. CASE j \in Todo /\ h2c'[j] = h2c[j] /\ k \in Todo /\ h2c'[k] = h2c[k]
        BY <4>1 DEF Once
      <4>2. CASE j = Len(h2c) + 1 /\ h2c'[j].i = block_idx
        BY <1>2, <2>4, <4>2
      <4>3. CASE k = Len(h2c) + 1 /\ h2c'[k].i = block_idx
        BY <1>2, <2>4, <4>3
      <4> QED
        BY <2>4, <4>1, <4>2, <4>3
    <3>5. \A j \in Todo', k \in Ended' : h2c'[j].i # c2h'[k].i
      <4> SUFFICES ASSUME NEW j \in Todo', NEW k \in Ended PROVE h2c'[j].i # c2h[k].i
        BY <1>1, <2>5
      <4>1. CASE j \in Todo /\ h2c'[j] = h2c[j]
        BY <4>1 DEF Once
      <4>2. CASE h2c'[j].i = block_idx
        BY <1>2, <4>2
      <4> QED
        BY <2>4, <4>1, <4>2
    <3>6. \A j, k \in Ended' : c2h'[j].i = c2h'[k].i => j = k
      BY <1>1, <2>5 DEF Once
    <3> QED
      BY <3>2, <3>3, <3>4, <3>5, <3>6 DEF Once
  <2>7. Intact'
    BY <1>1, <1>2, <2>4 DEF Intact
  <2> QED
    BY <1>3, <2>6, <2>7
<1>5. CASE /\ UNCHANGED h2c
           /\ \A i \in Block : i # block_idx => m_readers'[i] = m_readers[i] /\ m_scheduled'[i] = m_scheduled[i]
  <2>1. Once'
    BY <1>1, <1>2, <1>5 DEF Once, Todo, Ended, Busy
  <2>2. Intact'
    BY <1>1, <1>5 DEF Intact, Todo
  <2> QED
    BY <1>3, <2>1, <2>2
<1>6. QED
  BY <1>4, <1>5 DEF schedule_send

-----------------------------------------------------------------------------
(***************************************************************************)
(* The steps of the response thread and of the card                        *)
(***************************************************************************)

\* Taking the first event leaves the others, one place earlier.
LEMMA EventTaken ==
    ASSUME Functions, c2h # <<>>, c2h' = Tail(c2h)
    PROVE  \A k \in Ended' : k + 1 \in Ended /\ c2h'[k] = c2h[k + 1] /\ k \in Nat /\ k # 0
BY TailListed DEF Functions, Ended, Listed

\* An event that is sent comes after the others.
LEMMA EventSent ==
    ASSUME Functions, NEW e, c2h' = Append(c2h, e)
    PROVE  /\ \A k \in Ended : c2h'[k] = c2h[k]
           /\ \A k \in Ended' : \/ k \in Ended /\ c2h'[k] = c2h[k]
                                \/ k = Len(c2h) + 1 /\ c2h'[k] = e
           /\ e.op \notin {"success", "failed"} => Ended' = Ended
<1>1. /\ Len(c2h') = Len(c2h) + 1 /\ c2h'[Len(c2h) + 1] = e
      /\ \A k \in 1 .. Len(c2h) : c2h'[k] = c2h[k]
      /\ Len(c2h) \in Nat
  BY AppendListed DEF Functions, Listed
<1>2. \A k \in 1 .. Len(c2h') : \/ k \in 1 .. Len(c2h) /\ c2h'[k] = c2h[k]
                                \/ k = Len(c2h) + 1 /\ c2h'[k] = e
  BY <1>1
<1>3. 1 .. Len(c2h) \subseteq 1 .. Len(c2h')
  BY <1>1
<1> QED
  BY <1>1, <1>2, <1>3 DEF Ended

\* Elements that are distinct stay so when each moves up one place.
LEMMA ShiftDistinct ==
    ASSUME NEW s, NEW t, NEW A, NEW B,
           \A k \in B : k + 1 \in A /\ t[k] = s[k + 1] /\ k \in Nat,
           \A j, k \in A : s[j].i = s[k].i => j = k
    PROVE  \A j, k \in B : t[j].i = t[k].i => j = k
<1> SUFFICES ASSUME NEW j \in B, NEW k \in B, t[j].i = t[k].i PROVE j = k
  OBVIOUS
<1>1. k + 1 \in A /\ t[k] = s[k + 1] /\ k \in Nat
  OBVIOUS
<1>2. j + 1 \in A /\ t[j] = s[j + 1] /\ j \in Nat
  OBVIOUS
<1>3. j + 1 = k + 1
  BY <1>1, <1>2
<1> QED
  BY <1>1, <1>2, <1>3

\* What is left when an event is taken: no two copies of one block.
LEMMA OnceWithout ==
    ASSUME Functions, Once, UNCHANGED h2c, c2h # <<>>, c2h' = Tail(c2h),
           \A k \in Todo' : Busy(h2c[k].i)', \A k \in Ended' : Busy(c2h[k].i)'
    PROVE  Once'
<1>1. \A k \in Ended' : k + 1 \in Ended /\ c2h'[k] = c2h[k + 1] /\ k \in Nat
  BY EventTaken
<1>2. Todo' = Todo
  BY DEF Todo
<1>3. \A j, k \in Ended' : c2h'[j].i = c2h'[k].i => j = k
  <2>1. \A j, k \in Ended : c2h[j].i = c2h[k].i => j = k
    BY DEF Once
  <2> SUFFICES ASSUME NEW j \in Ended', NEW k \in Ended', c2h'[j].i = c2h'[k].i PROVE j = k
    OBVIOUS
  <2>2. k + 1 \in Ended /\ c2h'[k] = c2h[k + 1] /\ k \in Nat
    BY <1>1
  <2>3. j + 1 \in Ended /\ c2h'[j] = c2h[j + 1] /\ j \in Nat
    BY <1>1
  <2>4. j + 1 = k + 1
    BY <2>1, <2>2, <2>3
  <2> QED
    BY <2>2, <2>3, <2>4
<1>4. \A j \in Todo', k \in Ended' : h2c'[j].i # c2h'[k].i
  <2> SUFFICES ASSUME NEW j \in Todo, NEW k \in Ended' PROVE h2c[j].i # c2h'[k].i
    BY <1>2
  <2>1. k + 1 \in Ended /\ c2h'[k] = c2h[k + 1]
    BY <1>1
  <2> QED
    BY <2>1 DEF Once
<1> QED
  BY <1>2, <1>3, <1>4 DEF Once

LEMMA CopyEventKeeps == ASSUME Functions, Alive, copy_event PROVE Alive'
<1> USE DEF Functions, Alive
<1> DEFINE b == c2h[1].i
<1>1. /\ UNCHANGED <<h2c, mem, made, is_mapped, copy, ret, block_idx>>
      /\ c2h # <<>> /\ c2h' = Tail(c2h) /\ Head(c2h) = c2h[1] /\ Len(c2h) > 0
      /\ c2h[1].op \in {"success", "failed"}
  BY TailListed DEF copy_event, loaderVars, blockVars
<1>2. 1 \in Ended /\ Busy(b)
  BY <1>1 DEF Ended, Once, Listed
<1>3. {i \in {Head(c2h).i} : m_scheduled[i]} = {b}
  BY <1>1, <1>2 DEF Busy
<1>4. postSchedule({b}, Head(c2h).op = "failed")
  BY <1>3 DEF copy_event
<1>5. /\ \A i \in Block : i # b => m_readers'[i] = m_readers[i] /\ (m_scheduled[i] => m_scheduled'[i])
      /\ \/ pc' = pc
         \/ pc = "asleep" /\ pc' = "lock"
         \/ pc = "drain_asleep" /\ pc' = "drain"
  <2> HIDE DEF b
  <2>1. /\ m_scheduled' = [i \in Block |-> m_scheduled[i] /\ i \notin {b}]
        /\ m_readers' = [i \in Block |-> IF i \in {b} THEN m_readers[i] - 1 ELSE m_readers[i]]
        /\ Wake
    BY <1>4 DEF postSchedule
  <2> QED
    BY <2>1 DEF Wake
<1>6. \A k \in Ended' : k + 1 \in Ended /\ c2h'[k] = c2h[k + 1] /\ k \in Nat /\ k # 0
  BY <1>1, EventTaken
<1>7. \A k \in Todo : Busy(h2c[k].i) /\ h2c[k].i # b
  BY <1>2 DEF Once
<1>8. \A k \in Ended' : Busy(c2h'[k].i) /\ c2h'[k].i # b
  <2> SUFFICES ASSUME NEW k \in Ended' PROVE Busy(c2h'[k].i) /\ c2h'[k].i # b
    OBVIOUS
  <2>1. k + 1 \in Ended /\ c2h'[k] = c2h[k + 1] /\ k + 1 # 1
    BY <1>6
  <2> QED
    BY <1>2, <2>1 DEF Once
<1> HIDE DEF b
<1>9. Todo' = Todo
  BY <1>1 DEF Todo
<1>10. Once'
  <2>1. \A k \in Todo' : Busy(h2c[k].i)'
    BY <1>1, <1>5, <1>7, <1>9 DEF Busy
  <2>2. \A k \in Ended' : Busy(c2h[k].i)'
    <3> SUFFICES ASSUME NEW k \in Ended' PROVE Busy(c2h[k].i)'
      OBVIOUS
    <3>1. Busy(c2h'[k].i) /\ c2h'[k].i # b
      BY <1>8
    <3> QED
      BY <1>5, <3>1 DEF Busy
  <2> QED
    BY <1>1, <2>1, <2>2, OnceWithout
<1>11. Intact'
  BY <1>1, <1>9 DEF Intact
<1>12. pc \in {"read", "unlock", "schedule"} => block_idx # b
  BY <1>2 DEF At, Busy
<1>13. pc = "send" => block_idx # b /\ Busy(block_idx) /\ \A k \in Todo : h2c[k].i # block_idx
  BY <1>2 DEF At, b
<1>14. pc = "send" => \A k \in Ended' : c2h'[k].i # block_idx
  BY <1>6 DEF At
<1>15. At'
  BY <1>1, <1>5, <1>9, <1>12, <1>13, <1>14 DEF At, Busy
<1> QED
  BY <1>10, <1>11, <1>15

LEMMA ContextFatalKeeps == ASSUME Functions, Alive, context_fatal PROVE Alive'
<1> USE DEF Functions, Alive
<1>1. /\ UNCHANGED <<h2c, mem, made, is_mapped, copy, ret, block_idx, m_readers, m_scheduled, pc>>
      /\ c2h # <<>> /\ c2h' = Tail(c2h)
  BY DEF context_fatal, loaderVars, blockVars, lockVars
<1>2. \A k \in Ended' : k + 1 \in Ended /\ c2h'[k] = c2h[k + 1] /\ k \in Nat /\ k # 0
  BY <1>1, EventTaken
<1>3. Todo' = Todo
  BY <1>1 DEF Todo
<1>4. Once'
  <2>1. \A k \in Todo' : Busy(h2c[k].i)'
    BY <1>1, <1>3 DEF Once, Busy
  <2>2. \A k \in Ended' : Busy(c2h'[k].i)
    BY <1>2 DEF Once
  <2>3. \A k \in Ended' : Busy(c2h[k].i)'
    BY <1>1, <2>2 DEF Busy
  <2> QED
    BY <1>1, <2>1, <2>3, OnceWithout
<1>5. Intact'
  BY <1>1, <1>3 DEF Intact
<1>6. pc = "send" => \A k \in Ended' : c2h'[k].i # block_idx
  BY <1>2 DEF At
<1>7. At'
  BY <1>1, <1>3, <1>6 DEF At, Busy
<1> QED
  BY <1>4, <1>5, <1>7

LEMMA CardCopiesKeeps == ASSUME Functions, Alive, card_copies PROVE Alive'
<1> USE DEF Functions, Alive
<1>1. /\ UNCHANGED <<mem, made, is_mapped, copy, ret, block_idx, m_readers, m_scheduled, pc>>
      /\ h2c # <<>> /\ h2c' = Tail(h2c)
  BY DEF card_copies, Host, loaderVars, blockVars, lockVars
<1> PICK e : c2h' = Append(c2h, e) /\ e.op \in {"success", "failed"} /\ e.i = Head(h2c).i
  <2>1. \/ c2h' = Append(c2h, [op |-> "success", i |-> Head(h2c).i])
        \/ c2h' = Append(c2h, [op |-> "failed", i |-> Head(h2c).i])
    BY DEF card_copies
  <2> QED
    BY <2>1
<1>2. \A k \in Ended' : \/ k \in Ended /\ c2h'[k] = c2h[k]
                        \/ k = Len(c2h) + 1 /\ c2h'[k] = e
  BY EventSent
<1>3. \A k \in Todo' : k + 1 \in Todo /\ h2c'[k] = h2c[k + 1] /\ k \in Nat /\ k + 1 # 1
  BY <1>1, TailListed DEF Todo, Listed
<1>4. e.i = h2c[1].i /\ 1 \in Todo
  BY <1>1, TailListed DEF Todo, Listed
<1>5. Busy(e.i) /\ \A k \in Ended : Busy(c2h[k].i) /\ c2h[k].i # e.i
  BY <1>4 DEF Once
<1>6. \A k \in Todo' : /\ Busy(h2c'[k].i) /\ h2c'[k].i # e.i
                       /\ \A j \in Ended : c2h[j].i # h2c'[k].i
  <2> SUFFICES ASSUME NEW k \in Todo'
               PROVE  /\ Busy(h2c[k + 1].i) /\ h2c[k + 1].i # e.i
                      /\ \A j \in Ended : c2h[j].i # h2c[k + 1].i
    BY <1>3
  <2>1. k + 1 \in Todo /\ k + 1 # 1
    BY <1>3
  <2> QED
    BY <1>4, <2>1 DEF Once
<1>7. Once'
  <2>1. \A k \in Todo' : Busy(h2c[k].i)'
    BY <1>1, <1>6 DEF Busy
  <2>2. \A j, k \in Todo' : h2c'[j].i = h2c'[k].i => j = k
    <3>1. \A j, k \in Todo : h2c[j].i = h2c[k].i => j = k
      BY DEF Once
    <3> QED
      BY <1>3, <3>1, ShiftDistinct
  <2>3. \A k \in Ended' : Busy(c2h[k].i)'
    <3>1. \A k \in Ended' : Busy(c2h'[k].i)
      BY <1>2, <1>5
    <3> QED
      BY <1>1, <3>1 DEF Busy
  <2>4. \A j, k \in Ended' : c2h'[j].i = c2h'[k].i => j = k
    <3> SUFFICES ASSUME NEW j \in Ended', NEW k \in Ended', c2h'[j].i = c2h'[k].i PROVE j = k
      OBVIOUS
    <3>1. CASE j \in Ended /\ c2h'[j] = c2h[j] /\ k \in Ended /\ c2h'[k] = c2h[k]
      BY <3>1 DEF Once
    <3>2. CASE j = Len(c2h) + 1 /\ c2h'[j] = e
      BY <1>2, <1>5, <3>2
    <3>3. CASE k = Len(c2h) + 1 /\ c2h'[k] = e
      BY <1>2, <1>5, <3>3
    <3> QED
      BY <1>2, <3>1, <3>2, <3>3
  <2>5. \A j \in Todo', k \in Ended' : h2c'[j].i # c2h'[k].i
    <3> SUFFICES ASSUME NEW j \in Todo', NEW k \in Ended' PROVE h2c'[j].i # c2h'[k].i
      OBVIOUS
    <3>1. CASE k \in Ended /\ c2h'[k] = c2h[k]
      BY <1>6, <3>1
    <3>2. CASE c2h'[k] = e
      BY <1>6, <3>2
    <3> QED
      BY <1>2, <3>1, <3>2
  <2> QED
    BY <2>1, <2>2, <2>3, <2>4, <2>5 DEF Once
<1>8. Intact'
  <2> SUFFICES ASSUME NEW k \in Todo' PROVE mem[h2c'[k].i] = h2c'[k].bytes /\ made[h2c'[k].i]
    BY <1>1 DEF Intact
  <2>1. k + 1 \in Todo /\ h2c'[k] = h2c[k + 1]
    BY <1>3
  <2> QED
    BY <2>1 DEF Intact
<1>9. At'
  <2>1. pc = "send" => h2c[1].i # block_idx /\ \A k \in Ended : c2h[k].i # block_idx
    BY <1>4 DEF At
  <2>2. pc = "send" => \A k \in Todo' : h2c'[k].i # block_idx
    BY <1>3 DEF At
  <2>3. pc = "send" => \A k \in Ended' : c2h'[k].i # block_idx
    BY <1>2, <1>4, <2>1
  <2>4. ~(pc \in {"end", "done"} /\ ret = "ok")
    BY <1>1 DEF At
  <2> QED
    BY <1>1, <2>2, <2>3, <2>4 DEF At, Busy
<1> QED
  BY <1>7, <1>8, <1>9

LEMMA CardEventKeeps == ASSUME Functions, Alive, card_event PROVE Alive'
<1> USE DEF Functions, Alive
<1>1. UNCHANGED <<h2c, mem, made, is_mapped, copy, ret, block_idx, m_readers, m_scheduled, pc>>
  BY DEF card_event, Host, loaderVars, blockVars, lockVars
<1> PICK o \in {"context_fatal", "card_fatal"} : c2h' = Append(c2h, [op |-> o, i |-> 0])
  BY DEF card_event
<1>2. [op |-> o, i |-> 0].op \notin {"success", "failed"}
  OBVIOUS
<1>3. Ended' = Ended /\ \A k \in Ended : c2h'[k] = c2h[k]
  BY <1>2, EventSent
<1>4. Todo' = Todo
  BY <1>1 DEF Todo
<1>5. Once'
  <2>1. \A k \in Todo' : Busy(h2c[k].i)'
    BY <1>1, <1>4 DEF Once, Busy
  <2>2. \A k \in Ended' : Busy(c2h'[k].i)
    BY <1>3 DEF Once
  <2>3. \A k \in Ended' : Busy(c2h[k].i)'
    BY <1>1, <2>2 DEF Busy
  <2>4. \A j, k \in Ended' : c2h'[j].i = c2h'[k].i => j = k
    <3> SUFFICES ASSUME NEW j \in Ended', NEW k \in Ended', c2h'[j].i = c2h'[k].i PROVE j = k
      OBVIOUS
    <3>1. j \in Ended /\ k \in Ended /\ c2h'[j] = c2h[j] /\ c2h'[k] = c2h[k]
      BY <1>3
    <3> QED
      BY <3>1 DEF Once
  <2>5. \A j \in Todo', k \in Ended' : h2c'[j].i # c2h'[k].i
    <3> SUFFICES ASSUME NEW j \in Todo', NEW k \in Ended' PROVE h2c'[j].i # c2h'[k].i
      OBVIOUS
    <3>1. j \in Todo /\ h2c' = h2c
      BY <1>1, <1>4
    <3>2. k \in Ended /\ c2h'[k] = c2h[k]
      BY <1>3
    <3>3. h2c[j].i # c2h[k].i
      BY <3>1, <3>2 DEF Once
    <3> QED
      BY <3>1, <3>2, <3>3, Zenon
  <2>6. \A j, k \in Todo' : h2c'[j].i = h2c'[k].i => j = k
    BY <1>1, <1>4 DEF Once
  <2> QED
    BY <2>1, <2>3, <2>4, <2>5, <2>6 DEF Once
<1>6. Intact'
  BY <1>1, <1>4 DEF Intact
<1>7. At'
  BY <1>1, <1>3, <1>4 DEF At, Busy
<1> QED
  BY <1>5, <1>6, <1>7

-----------------------------------------------------------------------------
(***************************************************************************)
(* The theorem                                                             *)
(***************************************************************************)

LEMMA IInvKept == ASSUME IInv, [Next]_vars PROVE IInv'
<1>1. Functions /\ Functions'
  BY FunctionsKept DEF IInv
<1> SUFFICES ASSUME fatal' = "no" PROVE Alive'
  BY <1>1 DEF IInv
<1>2. fatal = "no" /\ Alive
  BY FatalStays DEF IInv
<1>3. CASE Loader
  BY <1>1, <1>2, <1>3, PrepareKeeps, LockKeeps, ReadKeeps, UnlockKeeps, ScheduleKeeps, SendKeeps,
     DrainKeeps, EndKeeps DEF Loader
<1>4. ~card_fatal_broken /\ ~card_fatal
  BY DEF card_fatal, card_fatal_broken
<1>5. CASE Respond
  BY <1>1, <1>2, <1>4, <1>5, CopyEventKeeps, ContextFatalKeeps DEF Respond
<1>6. CASE card_copies \/ card_event
  BY <1>1, <1>2, <1>6, CardCopiesKeeps, CardEventKeeps
<1>7. CASE UNCHANGED vars
  BY <1>1, <1>2, <1>7 DEF vars, loaderVars, blockVars, lockVars, cardVars, Alive, Once, Intact, At, Todo, Ended, Busy
<1> QED
  BY <1>3, <1>5, <1>6, <1>7 DEF Next

THEOREM Inductive == Spec => []IInv
<1>1. Init => IInv
  <2> SUFFICES ASSUME Init PROVE IInv
    OBVIOUS
  <2>1. /\ Listed(h2c) /\ Listed(c2h) /\ Len(h2c) = 0 /\ Len(c2h) = 0
    <3>1. <<>> \in Seq({0}) /\ Len(<<>>) = 0
      OBVIOUS
    <3>2. Listed(<<>>)
      BY <3>1, SeqListed
    <3> QED
      BY <3>1, <3>2 DEF Init
  <2>2. Functions
    BY <2>1 DEF Init, Functions, Block
  <2>3. Todo = {} /\ Ended = {}
    BY <2>1 DEF Todo, Ended
  <2> QED
    BY <2>2, <2>3 DEF IInv, Alive, Once, Intact, At, Init
<1>2. IInv /\ [Next]_vars => IInv'
  BY IInvKept
<1> QED
  BY <1>1, <1>2, PTL DEF Spec

\* As long as the card lives, a block is not filled again before it is copied, and it
\* is not unmapped before that by a load that succeeds: lock_cpu_access waits for
\* the one reader that each copy is, and the last loop of
\* nnpdrvDeviceResourceSubLoadFromStream for both blocks.
THEOREM BlocksAreRight == Spec => []BlocksRight
<1>1. IInv => BlocksRight
  <2> SUFFICES ASSUME IInv, ~Dead, NEW k \in DOMAIN h2c
               PROVE  /\ mem[h2c[k].i] = h2c[k].bytes
                      /\ ret = "ok" => is_mapped[h2c[k].i] /\ copy[h2c[k].i]
    BY DEF BlocksRight, BlockIntact, MappedWhileCopied
  <2>1. k \in Todo /\ Len(h2c) > 0 /\ Alive
    BY DEF IInv, Functions, Listed, Todo, Dead
  <2>2. mem[h2c[k].i] = h2c[k].bytes /\ made[h2c[k].i] /\ h2c[k].i \in Block
    BY <2>1 DEF Alive, Intact, Once, Busy
  <2>3. h2c # <<>>
    BY <2>1
  <2> QED
    BY <2>1, <2>2, <2>3 DEF Alive, At
<1> QED
  BY <1>1, Inductive, PTL
-----------------------------------------------------------------------------
(***************************************************************************)
(* The size of a block                                                     *)
(***************************************************************************)

\* A set of natural numbers has a least one.
LEMMA Least ==
    ASSUME NEW S, S \subseteq Nat, S # {}
    PROVE  Min(S) \in S /\ \A y \in S : Min(S) <= y
<1>1. PICK x \in S : \A y \in S : <<y, x>> \notin {ss \in Nat \X Nat : ss[1] < ss[2]}
  <2>1. IsWellFoundedOn({ss \in Nat \X Nat : ss[1] < ss[2]}, Nat)
    BY NatLessThanWellFounded DEF OpToRel
  <2> QED
    BY <2>1, WFMin
<1>2. \A y \in S : ~(y < x)
  BY <1>1
<1>3. \A y \in S : x <= y
  BY <1>2
<1> QED
  BY <1>3 DEF Min

\* The smaller of two numbers.
LEMMA MinOfTwo ==
    ASSUME NEW a \in Nat, NEW b \in Nat
    PROVE  Min({a, b}) = IF a <= b THEN a ELSE b
<1>1. Min({a, b}) \in {a, b} /\ \A y \in {a, b} : Min({a, b}) <= y
  BY Least
<1> QED
  BY <1>1

\* What the shifts of calcOptimalBlockSize make of a page.
LEMMA Doubling ==
    ASSUME NEW k \in 0 .. 16
    PROVE  2 ^ k \in Nat \ {0} /\ (k > 0 => 2 ^ k = 2 * 2 ^ (k - 1))
<1>0. CASE k = 0
  BY <1>0
<1>1. CASE k = 1
  BY <1>1
<1>2. CASE k = 2
  BY <1>2
<1>3. CASE k = 3
  BY <1>3
<1>4. CASE k = 4
  BY <1>4
<1>5. CASE k = 5
  BY <1>5
<1>6. CASE k = 6
  BY <1>6
<1>7. CASE k = 7
  BY <1>7
<1>8. CASE k = 8
  BY <1>8
<1>9. CASE k = 9
  BY <1>9
<1>10. CASE k = 10
  BY <1>10
<1>11. CASE k = 11
  BY <1>11
<1>12. CASE k = 12
  BY <1>12
<1>13. CASE k = 13
  BY <1>13
<1>14. CASE k = 14
  BY <1>14
<1>15. CASE k = 15
  BY <1>15
<1>16. CASE k = 16
  BY <1>16
<1> QED
  BY <1>0, <1>1, <1>2, <1>3, <1>4, <1>5, <1>6, <1>7, <1>8, <1>9, <1>10, <1>11, <1>12, <1>13, <1>14, <1>15, <1>16

\* A block has a size, which is less than twice the largest one asked for: offsets
\* inside the resource do not wrap around when a block is added.
LEMMA BlockSize ==
    ASSUME NEW size
    PROVE  calcOptimalBlockSize(size) \in Nat \ {0} /\ calcOptimalBlockSize(size) < 2 * MaxBlock
<1> DEFINE C == {Page * 2 ^ k : k \in 0 .. 16}
           B == {b \in C : b >= size \/ b >= MaxBlock}
<1>1. Page \in Nat \ {0} /\ MaxBlock \in Nat \ {0} /\ Page <= MaxBlock /\ MaxBlock <= Page * 2 ^ 16
  BY LoadAssumption
<1>2. \A k \in 0 .. 16 : Page * 2 ^ k \in Nat \ {0}
  <2> SUFFICES ASSUME NEW k \in 0 .. 16 PROVE Page * 2 ^ k \in Nat \ {0}
    OBVIOUS
  <2>1. PICK p \in Nat \ {0} : p = 2 ^ k
    BY Doubling
  <2>2. Page * p \in Nat \ {0}
    BY <1>1
  <2> QED
    BY <2>1, <2>2, Zenon
<1>3. B \subseteq Nat \ {0}
  BY <1>2
<1>4. Page * 2 ^ 16 \in B
  <2>1. Page * 2 ^ 16 \in C
    OBVIOUS
  <2> QED
    BY <1>1, <2>1
<1> DEFINE b == Min(B)
<1>5. b \in B /\ \A y \in B : b <= y
  BY <1>3, <1>4, Least
<1>6. PICK k \in 0 .. 16 : b = Page * 2 ^ k
  BY <1>5
<1>7. b < 2 * MaxBlock
  <2>1. CASE k = 0
    <3>1. b = Page * 1
      BY <1>6, <2>1
    <3> QED
      BY <1>1, <3>1
  <2>2. CASE k # 0
    <3> DEFINE h == Page * 2 ^ (k - 1)
    <3>1. k \in 1 .. 16 /\ k - 1 \in 0 .. 16
      BY <2>2
    <3>2. PICK p \in Nat \ {0} : p = 2 ^ (k - 1)
      BY <3>1, Doubling
    <3>3. h = Page * p /\ h \in Nat \ {0} /\ h \in C
      BY <1>2, <3>1, <3>2
    <3>4. b = Page * (2 * p)
      <4>1. k > 0
        BY <3>1
      <4>2. 2 ^ k = 2 * 2 ^ (k - 1)
        BY <4>1, Doubling, Zenon
      <4> QED
        BY <1>6, <3>2, <4>2, Zenon
    <3>5. b = 2 * h
      <4>1. \A x, y \in Nat : x * (2 * y) = 2 * (x * y)
        OBVIOUS
      <4>2. Page * (2 * p) = 2 * (Page * p)
        BY <1>1, <3>2, <4>1
      <4> QED
        BY <3>3, <3>4, <4>2, Zenon
    <3> HIDE DEF h, b, C
    <3>6. h \notin B
      BY <1>3, <1>5, <3>3, <3>5
    <3>7. h < MaxBlock
      BY <1>1, <3>3, <3>6
    <3> QED
      BY <1>1, <3>3, <3>5, <3>7
  <2> QED
    BY <2>1, <2>2
<1>8. b \in Nat \ {0}
  BY <1>3, <1>5
<1> QED
  BY <1>7, <1>8 DEF calcOptimalBlockSize

-----------------------------------------------------------------------------
(***************************************************************************)
(* What a load writes: the rest of the invariant                           *)
(***************************************************************************)

\* Values of the right kind, also of what LoadRight does not speak of.
Values ==
    /\ offset \in 0 .. Two64 - 1 /\ len \in Nat /\ fails \in 0 .. MaxFails
    /\ dev = [a \in 0 .. Size - 1 |-> dev[a]]

\* A block is read by its scheduled copy or written by the loader.
Locks ==
    /\ \A i \in Block : /\ m_readers[i] \in -1 .. 1
                        /\ m_scheduled[i] <=> m_readers[i] = 1
                        /\ m_readers[i] = -1 <=> pc \in {"read", "unlock"} /\ i = block_idx
    /\ pc = "schedule" => m_readers[block_idx] = 0

\* A card that died sends nothing more.
Events ==
    /\ \A k \in 1 .. Len(c2h) : c2h[k].op = "card_fatal" => k = Len(c2h)
    /\ fatal = "done" => c2h = <<>> /\ m_critical_error

\* The failures of the copies of block i that are still to be recorded.
FailedOf(i) == \E k \in Ended : c2h[k].op = "failed" /\ c2h[k].i = i
Fatality == fatal = "no" /\ \E k \in 1 .. Len(c2h) : c2h[k].op = "card_fatal"
Due(i) == (IF fatal = "no" /\ FailedOf(i) THEN 1 ELSE 0) + (IF Fatality THEN 1 ELSE 0)

\* Each failure that a host resource records is one that happened.
Failures == \A i \in Block : m_failed_copy_ops[i] \in Nat /\ m_failed_copy_ops[i] + Due(i) <= fails

\* Someone will end the copy of a scheduled block.
Held ==
    \A i \in Block : m_scheduled[i] =>
        IF fatal = "no"
        THEN \/ pc = "send" /\ i = block_idx
             \/ \E k \in Todo : h2c[k].i = i
             \/ \E k \in Ended : c2h[k].i = i
        ELSE i \in orphan

\* What is copied was read, and lies inside the resource as schedule computes it.
Pieces ==
    /\ pc \in {"unlock", "schedule", "send"} /\ n >= 0 => Len(mem[block_idx]) = n
    /\ pc \in {"schedule", "send"} => n > 0
    /\ pc = "send" => (devres_offset + n) % Two64 <= Size
    /\ \A k \in Todo : /\ h2c[k].at \in 0 .. Two64 - 1 /\ Len(h2c[k].bytes) \in Nat
                       /\ (h2c[k].at + Len(h2c[k].bytes)) % Two64 <= Size

\* The end of a load: nothing is mapped, and if it went well nothing is under way.
Over ==
    /\ pc \notin {"end", "done"} => ret = "ok"
    /\ pc = "done" => \A i \in Block : ~is_mapped[i] /\ ~copy[i]
    /\ fatal = "no" => /\ \A k \in Ended : made[c2h[k].i]
                       /\ pc \in {"end", "done"} /\ ret = "ok" => Ended = {}

\* How much of what was read is not yet given to the card.
Unsent == IF pc \in {"unlock", "schedule", "send"} /\ n > 0 THEN n ELSE 0

\* How far the load is; a block that is not full is the last one.
Progress ==
    ret = "ok" /\ offset <= Size =>
        /\ devres_offset + Unsent = offset + pos /\ offset <= devres_offset /\ devres_offset <= Size
        /\ pc \in {"unlock", "schedule", "send"} => n < 0 \/ n = block_size \/ pos = len
        /\ pc \in {"drain", "drain_asleep", "end", "done"} => pos = len

\* The byte of the stream that belongs at a.
Right(a) == a - offset + 1

\* What was read into the block, and what is under way, are bytes of the stream at
\* their place, and so is what the resource holds.
InHand ==
    pc \in {"unlock", "schedule", "send"} /\ n >= 0 =>
        \A j \in 1 .. n : mem[block_idx][j] = Right(devres_offset + j - 1)
UnderWay ==
    \A k \in Todo : /\ offset <= h2c[k].at /\ h2c[k].at + Len(h2c[k].bytes) <= offset + pos
                    /\ \A j \in 1 .. Len(h2c[k].bytes) : h2c[k].bytes[j] = Right(h2c[k].at + j - 1)
InPlace == \A a \in 0 .. Size - 1 : dev[a] = 0 \/ (a - offset \in 0 .. len - 1 /\ dev[a] = Right(a))

\* All that was sent has arrived or will, unless a copy failed.
Unfailed == \A i \in Block : m_failed_copy_ops[i] = 0 /\ ~FailedOf(i)
Arrived ==
    ret = "ok" /\ Unfailed =>
        \A a \in offset .. devres_offset - 1 :
           \/ dev[a] = Right(a)
           \/ \E k \in Todo : h2c[k].at <= a /\ a < h2c[k].at + Len(h2c[k].bytes)

Contents == fatal = "no" /\ offset <= Size => InHand /\ UnderWay /\ InPlace /\ Arrived

LInv == Locks /\ Events /\ Failures /\ Held /\ Pieces /\ Over /\ Progress /\ Contents

-----------------------------------------------------------------------------
(***************************************************************************)
(* What every step keeps of it                                             *)
(***************************************************************************)

\* A resource, a load and its stream are what they were at the start.
LEMMA LoadFixed ==
    ASSUME [Next]_vars
    PROVE  /\ UNCHANGED <<offset, len>>
           /\ fails' = fails \/ (fails < MaxFails /\ fails' = fails + 1)
           /\ dev' = dev \/ card_copies
           /\ block_size' = block_size
<1>1. /\ UNCHANGED <<offset, len>>
      /\ fails' = fails \/ (fails < MaxFails /\ fails' = fails + 1)
      /\ dev' = dev \/ card_copies
  BY DEF Next, Loader, Respond, prepare, lock_cpu_access, read_cb, unlock_cpu_access, schedule, schedule_send,
     drain, end, copy_event, context_fatal, card_fatal, card_fatal_broken, card_copies, card_event, Host, vars,
     loaderVars, cardVars, Fails
<1> QED
  BY <1>1 DEF block_size

LEMMA ValuesKept == ASSUME Values, [Next]_vars PROVE Values'
<1>1. offset' \in 0 .. Two64 - 1 /\ len' \in Nat /\ fails' \in 0 .. MaxFails
  <2>1. MaxFails \in Nat
    BY LoadAssumption
  <2> QED
    BY <2>1, LoadFixed DEF Values
<1>2. dev' = [a \in 0 .. Size - 1 |-> dev'[a]]
  <2>1. CASE dev' = dev
    BY <2>1 DEF Values
  <2>2. CASE card_copies
    <3>1. DOMAIN dev = 0 .. Size - 1
      BY DEF Values
    <3> QED
      BY <2>2, <3>1 DEF card_copies, Values
  <2> QED
    BY <2>1, <2>2, LoadFixed
<1> QED
  BY <1>1, <1>2 DEF Values

\* What postSchedule does to the locks, and whom it wakes.
LEMMA Given ==
    ASSUME NEW S, NEW failed, postSchedule(S, failed), S \subseteq {i \in Block : m_scheduled[i]}
    PROVE  /\ \A i \in Block : IF i \in S
                               THEN /\ m_scheduled[i] /\ ~m_scheduled'[i] /\ m_readers'[i] = m_readers[i] - 1
                                    /\ m_failed_copy_ops'[i] = IF failed THEN m_failed_copy_ops[i] + 1 ELSE m_failed_copy_ops[i]
                               ELSE /\ m_readers'[i] = m_readers[i] /\ (m_scheduled'[i] <=> m_scheduled[i])
                                    /\ m_failed_copy_ops'[i] = m_failed_copy_ops[i]
           /\ \/ pc' = pc
              \/ pc = "asleep" /\ pc' = "lock"
              \/ pc = "drain_asleep" /\ pc' = "drain"
<1>1. \/ pc' = pc
      \/ pc = "asleep" /\ pc' = "lock"
      \/ pc = "drain_asleep" /\ pc' = "drain"
  BY DEF postSchedule, Wake
<1> SUFFICES ASSUME NEW i \in Block
             PROVE  IF i \in S
                    THEN /\ m_scheduled[i] /\ ~m_scheduled'[i] /\ m_readers'[i] = m_readers[i] - 1
                         /\ m_failed_copy_ops'[i] = IF failed THEN m_failed_copy_ops[i] + 1 ELSE m_failed_copy_ops[i]
                    ELSE /\ m_readers'[i] = m_readers[i] /\ (m_scheduled'[i] <=> m_scheduled[i])
                         /\ m_failed_copy_ops'[i] = m_failed_copy_ops[i]
  BY <1>1
<1>2. m_scheduled'[i] <=> m_scheduled[i] /\ i \notin S
  BY DEF postSchedule
<1>3. m_readers'[i] = IF i \in S THEN m_readers[i] - 1 ELSE m_readers[i]
  BY DEF postSchedule
<1>4. m_failed_copy_ops'[i] = IF i \in S /\ failed THEN m_failed_copy_ops[i] + 1 ELSE m_failed_copy_ops[i]
  BY DEF postSchedule
<1> QED
  BY <1>2, <1>3, <1>4

\* The event of a copy is that of a scheduled one, which ends.
LEMMA CopyEnds ==
    ASSUME IInv, TypeOK, Events, copy_event
    PROVE  /\ fatal = "no" /\ Alive /\ c2h # <<>> /\ c2h' = Tail(c2h) /\ 1 \in Ended
           /\ Busy(c2h[1].i)
           /\ postSchedule({c2h[1].i}, c2h[1].op = "failed")
           /\ {c2h[1].i} \subseteq {i \in Block : m_scheduled[i]}
<1>1. c2h # <<>> /\ c2h' = Tail(c2h) /\ Head(c2h) = c2h[1] /\ Len(c2h) > 0 /\ c2h[1].op \in {"success", "failed"}
  BY TailListed DEF copy_event, IInv, Functions
<1>2. fatal = "no" /\ Alive
  BY <1>1 DEF IInv, Functions, Events, TypeOK, copy_event
<1>3. 1 \in Ended
  BY <1>1 DEF Ended, IInv, Functions, Listed
<1>4. Busy(c2h[1].i)
  BY <1>2, <1>3 DEF Alive, Once
<1>5. {i \in {Head(c2h).i} : m_scheduled[i]} = {c2h[1].i}
  BY <1>1, <1>4 DEF Busy
<1>6. postSchedule({c2h[1].i}, c2h[1].op = "failed")
  BY <1>1, <1>5 DEF copy_event
<1> QED
  BY <1>1, <1>2, <1>3, <1>4, <1>6 DEF Busy

LEMMA LocksKept == ASSUME IInv, TypeOK, Events, Locks, [Next]_vars PROVE Locks'
<1> USE DEF Locks
<1>1. block_idx \in Block /\ m_scheduled \in [Block -> BOOLEAN] /\ m_readers = [i \in Block |-> m_readers[i]]
  BY DEF TypeOK, IInv, Functions
<1>2. CASE prepare \/ drain \/ end
  BY <1>2 DEF prepare, drain, end, Stop, loaderVars, lockVars
<1>3. CASE lock_cpu_access
  <2>1. UNCHANGED <<block_idx, m_scheduled>> /\ pc = "lock"
    BY <1>3 DEF lock_cpu_access, loaderVars
  <2>2. CASE m_readers' = m_readers /\ pc' \in {"asleep", "end"}
    BY <2>1, <2>2
  <2>3. CASE m_readers[block_idx] = 0 /\ pc' = "read" /\ m_readers' = [m_readers EXCEPT ![block_idx] = -1]
    BY <1>1, <2>1, <2>3
  <2> QED
    BY <1>3, <2>2, <2>3 DEF lock_cpu_access, Stop
<1>4. CASE read_cb
  BY <1>4 DEF read_cb, lockVars
<1>5. CASE unlock_cpu_access
  <2>1. /\ UNCHANGED <<block_idx, m_scheduled>> /\ pc = "unlock" /\ pc' \in {"end", "drain", "schedule"}
        /\ m_readers' = [m_readers EXCEPT ![block_idx] = 0]
    BY <1>5 DEF unlock_cpu_access, loaderVars, Stop
  <2> QED
    BY <1>1, <2>1
<1>6. CASE schedule
  <2>1. UNCHANGED block_idx /\ pc = "schedule"
    BY <1>6 DEF schedule, loaderVars
  <2>2. CASE UNCHANGED <<m_readers, m_scheduled>> /\ pc' = "end"
    BY <2>1, <2>2
  <2>3. CASE /\ pc' = "send" /\ m_readers' = [m_readers EXCEPT ![block_idx] = @ + 1]
             /\ m_scheduled' = [m_scheduled EXCEPT ![block_idx] = TRUE]
    BY <1>1, <2>1, <2>3
  <2> QED
    BY <1>6, <2>2, <2>3 DEF schedule, Stop
<1>7. CASE schedule_send
  <2>1. pc = "send" /\ pc' \in {"block", "drain", "end"}
    BY <1>7 DEF schedule_send, Stop
  <2>2. CASE UNCHANGED <<m_readers, m_scheduled>>
    BY <2>1, <2>2
  <2>3. CASE /\ m_readers' = [m_readers EXCEPT ![block_idx] = IF m_scheduled[block_idx] THEN @ - 1 ELSE @]
             /\ m_scheduled' = [m_scheduled EXCEPT ![block_idx] = FALSE]
    BY <1>1, <2>1, <2>3
  <2> QED
    BY <1>7, <2>2, <2>3 DEF schedule_send
<1>8. ASSUME NEW S, NEW failed, postSchedule(S, failed), S \subseteq {i \in Block : m_scheduled[i]},
             UNCHANGED block_idx
      PROVE  Locks'
  <2>1. \A i \in Block : IF i \in S THEN m_scheduled[i] /\ ~m_scheduled'[i] /\ m_readers'[i] = m_readers[i] - 1
                                    ELSE m_readers'[i] = m_readers[i] /\ (m_scheduled'[i] <=> m_scheduled[i])
    BY <1>8, Given
  <2>2. \/ pc' = pc
        \/ pc = "asleep" /\ pc' = "lock"
        \/ pc = "drain_asleep" /\ pc' = "drain"
    BY <1>8, Given
  <2> QED
    BY <1>1, <1>8, <2>1, <2>2
<1>9. CASE copy_event
  <2>1. UNCHANGED block_idx
    BY <1>9 DEF copy_event, loaderVars
  <2> QED
    BY <1>8, <1>9, <2>1, CopyEnds
<1>10. CASE card_fatal
  BY <1>8, <1>10 DEF card_fatal, loaderVars
<1>11. CASE context_fatal \/ card_fatal_broken \/ card_copies \/ card_event \/ UNCHANGED vars
  BY <1>11 DEF context_fatal, card_fatal_broken, card_copies, card_event, Host, vars, loaderVars, lockVars
<1> QED
  BY <1>2, <1>3, <1>4, <1>5, <1>6, <1>7, <1>9, <1>10, <1>11 DEF Next, Loader, Respond

\* A card that lives has not said otherwise.
LEMMA Living ==
    ASSUME Functions, ~Dead
    PROVE  fatal = "no" /\ ~Fatality /\ \A k \in 1 .. Len(c2h) : c2h[k].op # "card_fatal"
BY DEF Dead, Functions, Listed, Fatality

LEMMA EventsKept == ASSUME IInv, TypeOK, Events, [Next]_vars PROVE Events'
<1>1. Functions /\ Listed(c2h)
  BY DEF IInv, Functions
<1>2. ASSUME c2h # <<>>, c2h' = Tail(c2h)
      PROVE  /\ \A k \in 1 .. Len(c2h') : c2h'[k].op = "card_fatal" => k = Len(c2h')
             /\ c2h[1].op = "card_fatal" => c2h' = <<>>
  <2>1. /\ Len(c2h') = Len(c2h) - 1 /\ Len(c2h) > 0 /\ Listed(c2h') /\ Len(c2h) \in Nat
        /\ \A k \in 1 .. Len(c2h) - 1 : c2h'[k] = c2h[k + 1]
    BY <1>1, <1>2, TailListed DEF Listed
  <2>2. \A k \in 1 .. Len(c2h') : c2h'[k].op = "card_fatal" => k = Len(c2h')
    <3> SUFFICES ASSUME NEW k \in 1 .. Len(c2h'), c2h'[k].op = "card_fatal" PROVE k = Len(c2h')
      OBVIOUS
    <3>1. k + 1 \in 1 .. Len(c2h) /\ c2h[k + 1].op = "card_fatal"
      BY <2>1
    <3>2. k + 1 = Len(c2h)
      BY <3>1 DEF Events
    <3> QED
      BY <2>1, <3>2
  <2>3. c2h[1].op = "card_fatal" => c2h' = <<>>
    <3> SUFFICES ASSUME c2h[1].op = "card_fatal" PROVE c2h' = <<>>
      OBVIOUS
    <3>1. 1 \in 1 .. Len(c2h)
      BY <2>1
    <3>2. Len(c2h') = 0
      BY <2>1, <3>1 DEF Events
    <3> QED
      BY <2>1, <3>2 DEF Listed
  <2> QED
    BY <2>2, <2>3
<1>3. ASSUME UNCHANGED <<c2h, fatal>>, m_critical_error => m_critical_error' PROVE Events'
  BY <1>3 DEF Events
<1>4. CASE Loader
  BY <1>3, <1>4 DEF Loader, prepare, lock_cpu_access, read_cb, unlock_cpu_access, schedule, schedule_send,
     drain, end, cardVars
<1>5. CASE copy_event \/ context_fatal
  BY <1>2, <1>5 DEF copy_event, context_fatal, Events
<1>6. CASE card_fatal
  BY <1>6 DEF card_fatal, cardVars, Events
<1>7. CASE card_fatal_broken
  <2>1. c2h # <<>> /\ c2h[1].op = "card_fatal" /\ c2h' = Tail(c2h) /\ fatal' = "done" /\ m_critical_error'
    BY <1>1, <1>7, TailListed DEF card_fatal_broken, Functions
  <2> QED
    BY <1>2, <2>1 DEF Events
<1>8. CASE card_copies \/ card_event
  <2>1. ~Dead /\ UNCHANGED fatal /\ \E e : c2h' = Append(c2h, e)
    BY <1>8 DEF card_copies, card_event, Host
  <2> PICK e : c2h' = Append(c2h, e)
    BY <2>1
  <2>2. /\ Len(c2h') = Len(c2h) + 1 /\ Len(c2h) \in Nat
        /\ \A k \in 1 .. Len(c2h) : c2h'[k] = c2h[k]
    BY <1>1, AppendListed DEF Listed
  <2>3. fatal' = "no" /\ \A k \in 1 .. Len(c2h) : c2h[k].op # "card_fatal"
    BY <1>1, <2>1, Living
  <2>4. \A k \in 1 .. Len(c2h') : k \in 1 .. Len(c2h) \/ k = Len(c2h')
    BY <2>2
  <2> QED
    BY <2>2, <2>3, <2>4 DEF Events
<1>9. CASE UNCHANGED vars
  BY <1>3, <1>9 DEF vars, cardVars
<1> QED
  BY <1>4, <1>5, <1>6, <1>7, <1>8, <1>9 DEF Next, Respond

\* A failure of block i that is due is at least one.
LEMMA DueIs == ASSUME NEW i PROVE Due(i) \in 0 .. 2 /\ Due(i)' \in 0 .. 2
BY DEF Due

LEMMA FailuresKept == ASSUME IInv, TypeOK, Values, Events, Failures, [Next]_vars PROVE Failures'
<1>1. Functions /\ Listed(c2h) /\ fails \in Nat /\ fails' \in Nat /\ fails <= fails'
  BY LoadFixed, LoadAssumption DEF IInv, Functions, Values
<1>2. ASSUME UNCHANGED <<m_failed_copy_ops, c2h, fatal>> PROVE Failures'
  <2>1. \A i \in Block : Due(i)' = Due(i)
    BY <1>2 DEF Due, FailedOf, Fatality, Ended
  <2> QED
    BY <1>1, <1>2, <2>1, DueIs DEF Failures
<1>3. CASE Loader
  BY <1>2, <1>3 DEF Loader, prepare, lock_cpu_access, read_cb, unlock_cpu_access, schedule, schedule_send,
     drain, end, cardVars, lockVars
<1>4. CASE copy_event
  <2> DEFINE b == c2h[1].i
  <2>1. /\ fatal = "no" /\ fatal' = "no" /\ Once /\ c2h # <<>> /\ c2h' = Tail(c2h) /\ 1 \in Ended
        /\ postSchedule({b}, c2h[1].op = "failed") /\ {b} \subseteq {i \in Block : m_scheduled[i]}
    BY <1>4, CopyEnds DEF Alive, copy_event
  <2>2. /\ \A k \in 1 .. Len(c2h') : k + 1 \in 1 .. Len(c2h) /\ c2h'[k] = c2h[k + 1]
        /\ \A k \in Ended' : k + 1 \in Ended /\ c2h'[k] = c2h[k + 1] /\ k + 1 # 1
    <3>1. /\ Len(c2h') = Len(c2h) - 1 /\ Len(c2h) \in Nat
          /\ \A k \in 1 .. Len(c2h) - 1 : c2h'[k] = c2h[k + 1]
      BY <1>1, <2>1, TailListed DEF Listed
    <3>2. \A k \in Ended' : k + 1 \in Ended /\ c2h'[k] = c2h[k + 1] /\ k \in Nat /\ k # 0
      BY <1>1, <2>1, EventTaken
    <3> QED
      BY <3>1, <3>2
  <2>3. Fatality' => Fatality
    BY <2>1, <2>2 DEF Fatality
  <2>4. \A i \in Block : FailedOf(i)' => FailedOf(i) /\ i # b
    <3> SUFFICES ASSUME NEW i \in Block, NEW k \in Ended', c2h'[k].op = "failed", c2h'[k].i = i
                 PROVE  FailedOf(i) /\ i # b
      BY DEF FailedOf
    <3>1. k + 1 \in Ended /\ c2h'[k] = c2h[k + 1] /\ k + 1 # 1
      BY <2>2
    <3>2. c2h[k + 1].i # b
      BY <2>1, <3>1 DEF Once
    <3> QED
      BY <3>1, <3>2 DEF FailedOf
  <2>5. c2h[1].op = "failed" => FailedOf(b)
    BY <2>1 DEF FailedOf
  <2>6. \A i \in Block : m_failed_copy_ops'[i] = IF i = b /\ c2h[1].op = "failed" THEN m_failed_copy_ops[i] + 1
                                                 ELSE m_failed_copy_ops[i]
    <3> DEFINE f == c2h[1].op = "failed"
    <3>1. postSchedule({b}, f) /\ {b} \subseteq {i \in Block : m_scheduled[i]}
      BY <2>1
    <3> HIDE DEF b, f
    <3>2. \A i \in Block : IF i \in {b}
                           THEN m_failed_copy_ops'[i] = IF f THEN m_failed_copy_ops[i] + 1 ELSE m_failed_copy_ops[i]
                           ELSE m_failed_copy_ops'[i] = m_failed_copy_ops[i]
      BY <3>1, Given
    <3> QED
      BY <3>2 DEF f
  <2> SUFFICES ASSUME NEW i \in Block
               PROVE  m_failed_copy_ops'[i] \in Nat /\ m_failed_copy_ops'[i] + Due(i)' <= fails'
    BY DEF Failures
  <2>7. m_failed_copy_ops[i] \in Nat /\ m_failed_copy_ops[i] + Due(i) <= fails
    BY DEF Failures
  <2> HIDE DEF b
  <2>8. CASE i = b /\ c2h[1].op = "failed"
    BY <1>1, <2>1, <2>3, <2>4, <2>5, <2>6, <2>7, <2>8 DEF Due
  <2>9. CASE ~(i = b /\ c2h[1].op = "failed")
    BY <1>1, <2>1, <2>3, <2>4, <2>6, <2>7, <2>9 DEF Due
  <2> QED
    BY <2>8, <2>9
<1>5. CASE card_fatal
  <2> SUFFICES ASSUME NEW i \in Block
               PROVE  m_failed_copy_ops'[i] \in Nat /\ m_failed_copy_ops'[i] + Due(i)' <= fails'
    BY DEF Failures
  <2>1. m_failed_copy_ops[i] \in Nat /\ m_failed_copy_ops[i] + Due(i) <= fails
    BY DEF Failures
  <2>2. Fatality
    BY <1>1, <1>5, TailListed DEF card_fatal, Fatality, Listed
  <2>3. Due(i) >= 1 /\ Due(i)' = 0
    BY <1>5, <2>2 DEF Due, Fatality, card_fatal
  <2>4. m_failed_copy_ops'[i] \in {m_failed_copy_ops[i], m_failed_copy_ops[i] + 1}
    BY <1>5, Given DEF card_fatal
  <2> QED
    BY <1>1, <2>1, <2>3, <2>4, DueIs
<1>6. CASE context_fatal \/ card_fatal_broken
  <2>1. c2h # <<>> /\ c2h' = Tail(c2h) /\ UNCHANGED m_failed_copy_ops /\ (fatal' = fatal \/ fatal' = "done")
    BY <1>6 DEF context_fatal, card_fatal_broken, lockVars, IInv, Functions
  <2>2. \A k \in 1 .. Len(c2h') : k + 1 \in 1 .. Len(c2h) /\ c2h'[k] = c2h[k + 1]
    BY <1>1, <2>1, TailListed DEF Listed
  <2>3. \A k \in Ended' : k + 1 \in Ended /\ c2h'[k] = c2h[k + 1]
    BY <1>1, <2>1, EventTaken
  <2>4. (Fatality' => Fatality) /\ \A i \in Block : fatal' = "no" /\ FailedOf(i)' => fatal = "no" /\ FailedOf(i)
    BY <2>1, <2>2, <2>3 DEF Fatality, FailedOf
  <2>5. \A i \in Block : Due(i)' <= Due(i)
    BY <2>4 DEF Due
  <2> QED
    BY <1>1, <2>1, <2>5, DueIs DEF Failures
<1>7. CASE card_copies \/ card_event
  <2>1. ~Dead /\ UNCHANGED <<fatal, m_failed_copy_ops>>
    BY <1>7 DEF card_copies, card_event, Host, lockVars
  <2>2. PICK e : /\ c2h' = Append(c2h, e)
                 /\ \/ e.op = "success"
                    \/ e.op = "failed" /\ fails' = fails + 1
                    \/ e.op \in {"context_fatal", "card_fatal"} /\ fails' = fails + 1
    <3>1. CASE card_copies
      <4>1. \/ c2h' = Append(c2h, [op |-> "success", i |-> Head(h2c).i])
            \/ c2h' = Append(c2h, [op |-> "failed", i |-> Head(h2c).i]) /\ fails' = fails + 1
        BY <3>1 DEF card_copies, Fails
      <4> QED
        BY <4>1
    <3>2. CASE card_event
      <4>1. PICK o \in {"context_fatal", "card_fatal"} : c2h' = Append(c2h, [op |-> o, i |-> 0])
        BY <3>2 DEF card_event
      <4>2. fails' = fails + 1
        BY <3>2 DEF card_event, Fails
      <4> QED
        BY <4>1, <4>2
    <3> QED
      BY <1>7, <3>1, <3>2
  <2>3. fatal = "no" /\ ~Fatality /\ \A k \in 1 .. Len(c2h) : c2h[k].op # "card_fatal"
    BY <1>1, <2>1, Living
  <2>4. /\ \A k \in Ended' : \/ k \in Ended /\ c2h'[k] = c2h[k]
                             \/ k = Len(c2h) + 1 /\ c2h'[k] = e
        /\ \A k \in 1 .. Len(c2h') : (k \in 1 .. Len(c2h) /\ c2h'[k] = c2h[k]) \/ c2h'[k] = e
    <3>1. /\ \A k \in 1 .. Len(c2h) : c2h'[k] = c2h[k]
          /\ Len(c2h') = Len(c2h) + 1 /\ c2h'[Len(c2h) + 1] = e /\ Len(c2h) \in Nat
      BY <1>1, <2>2, AppendListed DEF Listed
    <3>2. \A k \in 1 .. Len(c2h') : k \in 1 .. Len(c2h) \/ k = Len(c2h) + 1
      BY <3>1
    <3> QED
      BY <1>1, <2>2, <3>1, <3>2, EventSent
  <2>5. CASE e.op = "success"
    <3>1. ~Fatality' /\ \A i \in Block : FailedOf(i)' => FailedOf(i)
      BY <2>3, <2>4, <2>5 DEF Fatality, FailedOf
    <3>2. \A i \in Block : Due(i)' <= Due(i)
      BY <2>1, <3>1 DEF Due
    <3> QED
      BY <1>1, <2>1, <3>2, DueIs DEF Failures
  <2>6. CASE e.op = "failed" /\ fails' = fails + 1
    <3>1. ~Fatality'
      BY <2>3, <2>4, <2>6 DEF Fatality
    <3>2. \A i \in Block : Due(i)' <= 1 /\ Due(i)' \in 0 .. 2
      BY <3>1 DEF Due
    <3> QED
      BY <1>1, <2>1, <2>6, <3>2, DueIs DEF Failures
  <2>7. CASE e.op \in {"context_fatal", "card_fatal"} /\ fails' = fails + 1
    <3>1. \A i \in Block : FailedOf(i)' => FailedOf(i)
      BY <2>4, <2>7 DEF FailedOf
    <3>2. \A i \in Block : Due(i)' <= Due(i) + 1
      BY <2>1, <2>3, <3>1 DEF Due
    <3> QED
      BY <1>1, <2>1, <2>7, <3>2, DueIs DEF Failures
  <2> QED
    BY <2>2, <2>5, <2>6, <2>7
<1>8. CASE UNCHANGED vars
  BY <1>2, <1>8 DEF vars, cardVars, lockVars
<1> QED
  BY <1>3, <1>4, <1>5, <1>6, <1>7, <1>8 DEF Next, Respond

LEMMA TypesKept ==
    ASSUME TypeOK, Values, Functions, Values', Locks', Failures', [Next]_vars
    PROVE  TypeOK'
<1> USE DEF Values
<1>1. /\ pos \in 0 .. len /\ n \in -1 .. block_size /\ block_idx \in Block /\ devres_offset \in 0 .. Two64 - 1
      /\ len \in Nat /\ block_size \in Nat \ {0} /\ block_size' = block_size /\ len' = len /\ Two64 \in Nat \ {0}
  BY LoadFixed, LoadAssumption, BlockSize DEF TypeOK, block_size
<1>2. \A i \in Block : m_readers'[i] \in -1 .. 1 /\ m_failed_copy_ops'[i] \in 0 .. MaxFails
  <2> SUFFICES ASSUME NEW i \in Block PROVE m_failed_copy_ops'[i] \in 0 .. MaxFails
    BY DEF Locks
  <2>1. m_failed_copy_ops'[i] \in Nat /\ m_failed_copy_ops'[i] + Due(i)' <= fails' /\ Due(i)' \in 0 .. 2
    BY DueIs DEF Failures
  <2>2. fails' \in 0 .. MaxFails /\ MaxFails \in Nat
    BY LoadAssumption
  <2> QED
    BY <2>1, <2>2
<1>3. /\ pc' \in {"block", "lock", "asleep", "read", "unlock", "schedule", "send", "drain", "drain_asleep", "end", "done"}
      /\ ret' \in {"ok", "io_error", "context_broken", "sync_failed", "invalid_argument"}
      /\ fatal' \in {"no", "failed", "done"} /\ m_critical_error' \in BOOLEAN
  <2>1. CASE Loader
    BY <2>1 DEF Loader, prepare, lock_cpu_access, read_cb, unlock_cpu_access, schedule, schedule_send,
       drain, end, Stop, TypeOK
  <2>2. CASE copy_event \/ card_fatal
    BY <2>2 DEF copy_event, card_fatal, postSchedule, Wake, TypeOK
  <2>3. CASE context_fatal \/ card_fatal_broken
    BY <2>3 DEF context_fatal, card_fatal_broken, TypeOK
  <2>4. CASE card_copies \/ card_event \/ UNCHANGED vars
    BY <2>4 DEF card_copies, card_event, Host, vars, TypeOK
  <2> QED
    BY <2>1, <2>2, <2>3, <2>4 DEF Next, Respond
<1>4. /\ pos' \in 0 .. len' /\ n' \in -1 .. block_size' /\ block_idx' \in Block /\ devres_offset' \in 0 .. Two64 - 1
  <2>1. CASE read_cb
    <3>1. /\ UNCHANGED <<block_idx, devres_offset>>
          /\ \/ n' = Min({block_size, len - pos}) /\ pos' = pos + n'
             \/ n' = -1 /\ pos' = pos
      BY <2>1 DEF read_cb
    <3>2. Min({block_size, len - pos}) = IF block_size <= len - pos THEN block_size ELSE len - pos
      BY <1>1, MinOfTwo
    <3> QED
      BY <1>1, <3>1, <3>2
  <2>2. CASE schedule_send
    <3>1. /\ UNCHANGED <<pos, n>> /\ devres_offset' \in {devres_offset, (devres_offset + n) % Two64}
          /\ block_idx' \in {block_idx, (block_idx + 1) % 2}
      BY <2>2 DEF schedule_send
    <3>2. (block_idx + 1) % 2 \in Block
      BY <1>1 DEF Block
    <3>3. (devres_offset + n) % Two64 \in 0 .. Two64 - 1
      BY <1>1
    <3> QED
      BY <1>1, <3>1, <3>2, <3>3
  <2>3. CASE UNCHANGED <<pos, n, block_idx, devres_offset>>
    BY <1>1, <2>3
  <2>4. CASE prepare \/ lock_cpu_access \/ unlock_cpu_access \/ schedule \/ drain \/ end
    BY <2>3, <2>4 DEF prepare, lock_cpu_access, unlock_cpu_access, schedule, drain, end, loaderVars
  <2>5. CASE Respond
    BY <2>3, <2>5 DEF Respond, copy_event, context_fatal, card_fatal, card_fatal_broken, loaderVars
  <2>6. CASE card_copies \/ card_event \/ UNCHANGED vars
    BY <2>3, <2>6 DEF card_copies, card_event, Host, vars, loaderVars
  <2> QED
    BY <2>1, <2>2, <2>4, <2>5, <2>6 DEF Next, Loader
<1>5. {made, is_mapped, copy, m_scheduled, m_hostres}' \subseteq [Block -> BOOLEAN]
  <2>1. {made, is_mapped, copy, m_scheduled, m_hostres} \subseteq [Block -> BOOLEAN]
    BY DEF TypeOK
  <2>0. ASSUME NEW f, f \in [Block -> BOOLEAN], NEW v \in BOOLEAN
        PROVE  [f EXCEPT ![block_idx] = v] \in [Block -> BOOLEAN]
    BY <2>0
  <2>2. CASE prepare
    <3>1. CASE UNCHANGED blockVars
      BY <2>1, <2>2, <3>1 DEF prepare, blockVars, lockVars
    <3>2. CASE ~UNCHANGED blockVars
      <4>1. UNCHANGED <<m_scheduled, m_hostres>>
        BY <2>2 DEF prepare, lockVars
      <4>2. PICK stage \in 0 .. 3 : /\ made' = [made EXCEPT ![block_idx] = stage >= 1]
                                    /\ is_mapped' = [is_mapped EXCEPT ![block_idx] = stage >= 2]
                                    /\ copy' = [copy EXCEPT ![block_idx] = stage = 3]
        BY <2>2, <3>2 DEF prepare
      <4> DEFINE x == stage >= 1
                 y == stage >= 2
                 z == stage = 3
      <4>3. x \in BOOLEAN /\ y \in BOOLEAN /\ z \in BOOLEAN
        OBVIOUS
      <4> HIDE DEF x, y, z
      <4>4. made' \in [Block -> BOOLEAN] /\ is_mapped' \in [Block -> BOOLEAN] /\ copy' \in [Block -> BOOLEAN]
        <5>1. /\ made' = [made EXCEPT ![block_idx] = x]
              /\ is_mapped' = [is_mapped EXCEPT ![block_idx] = y]
              /\ copy' = [copy EXCEPT ![block_idx] = z]
          BY <4>2 DEF x, y, z
        <5> QED
          BY <2>0, <2>1, <4>3, <5>1
      <4> QED
        BY <2>1, <4>1, <4>4
    <3> QED
      BY <3>1, <3>2
  <2>3. CASE lock_cpu_access \/ read_cb \/ unlock_cpu_access \/ drain
    BY <2>1, <2>3 DEF lock_cpu_access, read_cb, unlock_cpu_access, drain, blockVars, lockVars
  <2>4. CASE schedule \/ schedule_send
    <3>1. /\ UNCHANGED <<made, is_mapped, copy>>
          /\ \/ m_scheduled' = m_scheduled
             \/ m_scheduled' = [m_scheduled EXCEPT ![block_idx] = TRUE]
             \/ m_scheduled' = [m_scheduled EXCEPT ![block_idx] = FALSE]
          /\ m_hostres' = m_hostres \/ m_hostres' = [m_hostres EXCEPT ![block_idx] = TRUE]
      BY <2>4 DEF schedule, schedule_send, blockVars
    <3>2. m_scheduled' \in [Block -> BOOLEAN] /\ m_hostres' \in [Block -> BOOLEAN]
      BY <2>0, <2>1, <3>1
    <3> QED
      BY <2>1, <3>1, <3>2
  <2>6. CASE end
    BY <2>1, <2>6 DEF end, lockVars
  <2>7. CASE copy_event \/ card_fatal
    <3>1. UNCHANGED <<made, is_mapped, copy>>
      BY <2>7 DEF copy_event, card_fatal, blockVars
    <3>2. \E S, f : postSchedule(S, f)
      BY <2>7 DEF copy_event, card_fatal
    <3>3. m_scheduled' \in [Block -> BOOLEAN] /\ m_hostres' \in [Block -> BOOLEAN]
      BY <2>1, <3>2 DEF postSchedule
    <3> QED
      BY <2>1, <3>1, <3>3
  <2>8. CASE context_fatal \/ card_fatal_broken
    BY <2>1, <2>8 DEF context_fatal, card_fatal_broken, blockVars, lockVars
  <2>9. CASE card_copies \/ card_event \/ UNCHANGED vars
    BY <2>1, <2>9 DEF card_copies, card_event, Host, vars, blockVars, lockVars
  <2> QED
    BY <2>2, <2>3, <2>4, <2>6, <2>7, <2>8, <2>9 DEF Next, Loader, Respond
<1> QED
  BY <1>2, <1>3, <1>4, <1>5 DEF TypeOK

\* Taking the first of a queue leaves the others, one place earlier,
LEMMA OthersLeft ==
    ASSUME NEW s, NEW t, Listed(s), s # <<>>, t = Tail(s)
    PROVE  /\ Head(s) = s[1] /\ 1 \in 1 .. Len(s)
           /\ \A k \in 1 .. Len(t) : k + 1 \in 1 .. Len(s) /\ t[k] = s[k + 1] /\ k + 1 # 1
           /\ \A k \in 1 .. Len(s) : k # 1 => k - 1 \in 1 .. Len(t) /\ t[k - 1] = s[k]
<1>1. /\ Len(t) = Len(s) - 1 /\ Len(s) \in Nat /\ Len(s) > 0 /\ Head(s) = s[1]
      /\ \A k \in 1 .. Len(s) - 1 : t[k] = s[k + 1]
  BY TailListed DEF Listed
<1> QED
  BY <1>1

\* and one that is added comes after the others.
LEMMA OneAdded ==
    ASSUME NEW s, NEW t, NEW e, Listed(s), t = Append(s, e)
    PROVE  /\ \A k \in 1 .. Len(s) : k \in 1 .. Len(t) /\ t[k] = s[k]
           /\ Len(s) + 1 \in 1 .. Len(t) /\ t[Len(s) + 1] = e
           /\ \A k \in 1 .. Len(t) : (k \in 1 .. Len(s) /\ t[k] = s[k]) \/ t[k] = e
<1>1. /\ Len(t) = Len(s) + 1 /\ Len(s) \in Nat /\ t[Len(s) + 1] = e
      /\ \A k \in 1 .. Len(s) : t[k] = s[k]
  BY AppendListed DEF Listed
<1>2. \A k \in 1 .. Len(t) : k \in 1 .. Len(s) \/ k = Len(s) + 1
  BY <1>1
<1> QED
  BY <1>1, <1>2

LEMMA HeldKept == ASSUME IInv, TypeOK, Events, Locks, Held, [Next]_vars PROVE Held'
<1> DEFINE Going(i) == (\E k \in Todo : h2c[k].i = i) \/ (\E k \in Ended : c2h[k].i = i)
<1>1. Functions /\ Listed(h2c) /\ Listed(c2h)
  BY DEF IInv, Functions
<1>2. block_idx \in Block /\ m_scheduled \in [Block -> BOOLEAN]
  BY DEF TypeOK
<1>3. ASSUME UNCHANGED <<h2c, c2h, fatal, orphan>>, pc = "send" => pc' = "send" /\ block_idx' = block_idx,
             \A i \in Block : m_scheduled'[i] => m_scheduled[i]
      PROVE  Held'
  BY <1>3 DEF Held, Todo, Ended
<1>4. CASE prepare \/ lock_cpu_access \/ read_cb \/ unlock_cpu_access \/ drain \/ end
  <2>1. UNCHANGED <<h2c, c2h, fatal, orphan, m_scheduled>> /\ pc # "send"
    BY <1>4 DEF prepare, lock_cpu_access, read_cb, unlock_cpu_access, drain, end, cardVars, lockVars
  <2> QED
    BY <1>3, <2>1
<1>5. CASE schedule
  <2>1. pc = "schedule" /\ UNCHANGED <<h2c, c2h, fatal, block_idx>>
    BY <1>5 DEF schedule, cardVars, loaderVars
  <2>2. CASE UNCHANGED <<m_scheduled, orphan>>
    BY <1>3, <2>1, <2>2
  <2>3. CASE ~UNCHANGED <<m_scheduled, orphan>>
    <3>1. /\ ~m_critical_error /\ pc' = "send"
          /\ m_scheduled' = [m_scheduled EXCEPT ![block_idx] = TRUE]
          /\ orphan' = IF fatal = "failed" THEN orphan \cup {block_idx} ELSE orphan
      BY <1>5, <2>3 DEF schedule
    <3>2. fatal # "done" /\ fatal \in {"no", "failed", "done"}
      BY <3>1 DEF Events, TypeOK
    <3> SUFFICES ASSUME NEW i \in Block, m_scheduled'[i]
                 PROVE  IF fatal = "no" THEN (pc' = "send" /\ i = block_idx) \/ Going(i) ELSE i \in orphan'
      BY <2>1 DEF Held, Todo, Ended
    <3>3. CASE i = block_idx
      BY <3>1, <3>2, <3>3
    <3>4. CASE i # block_idx
      BY <1>2, <2>1, <3>1, <3>2, <3>4 DEF Held
    <3> QED
      BY <3>3, <3>4
  <2> QED
    BY <2>2, <2>3
<1>6. CASE schedule_send
  <2>1. pc = "send" /\ UNCHANGED <<c2h, fatal, orphan>>
    BY <1>6 DEF schedule_send
  <2>2. CASE h2c' = h2c /\ m_scheduled' = [m_scheduled EXCEPT ![block_idx] = FALSE]
    BY <1>2, <2>1, <2>2 DEF Held, Todo, Ended
  <2>3. CASE /\ h2c' = Append(h2c, [i |-> block_idx, at |-> devres_offset, bytes |-> mem[block_idx]])
             /\ m_scheduled' = m_scheduled
    <3>1. PICK j \in 1 .. Len(h2c') : h2c'[j].i = block_idx
      BY <1>1, <2>3, OneAdded
    <3>2. \A k \in 1 .. Len(h2c) : k \in 1 .. Len(h2c') /\ h2c'[k] = h2c[k]
      BY <1>1, <2>3, OneAdded
    <3> QED
      BY <2>1, <2>3, <3>1, <3>2 DEF Held, Todo, Ended
  <2> QED
    BY <1>6, <2>2, <2>3 DEF schedule_send
<1>7. CASE copy_event
  <2>1. /\ fatal = "no" /\ fatal' = fatal /\ h2c' = h2c /\ c2h # <<>> /\ c2h' = Tail(c2h) /\ block_idx' = block_idx
        /\ pc = "send" => pc' = "send"
        /\ \A i \in Block : m_scheduled'[i] => m_scheduled[i] /\ i # c2h[1].i
    <3>1. /\ UNCHANGED <<fatal, h2c, block_idx>>
      BY <1>7 DEF copy_event, loaderVars
    <3>2. \A i \in Block : m_scheduled'[i] => m_scheduled[i] /\ i # c2h[1].i
      <4> DEFINE b == c2h[1].i
                 f == c2h[1].op = "failed"
      <4>1. postSchedule({b}, f) /\ {b} \subseteq {i \in Block : m_scheduled[i]}
        BY <1>7, CopyEnds
      <4> HIDE DEF b, f
      <4>2. \A i \in Block : IF i \in {b} THEN ~m_scheduled'[i] ELSE m_scheduled'[i] <=> m_scheduled[i]
        BY <4>1, Given
      <4> QED
        BY <4>2 DEF b
    <3>3. pc = "send" => pc' = "send"
      BY <1>7, CopyEnds DEF postSchedule, Wake
    <3> QED
      BY <1>7, <3>1, <3>2, <3>3, CopyEnds
  <2>2. \A k \in 1 .. Len(c2h) : k # 1 => k - 1 \in 1 .. Len(c2h') /\ c2h'[k - 1] = c2h[k]
    BY <1>1, <2>1, OthersLeft
  <2> SUFFICES ASSUME NEW i \in Block, m_scheduled'[i] PROVE (pc' = "send" /\ i = block_idx) \/ Going(i)'
    BY <2>1 DEF Held
  <2>3. (pc = "send" /\ i = block_idx) \/ Going(i)
    BY <2>1 DEF Held
  <2>4. (\E k \in Ended : c2h[k].i = i) => \E k \in Ended' : c2h'[k].i = i
    BY <2>1, <2>2 DEF Ended
  <2> QED
    BY <2>1, <2>3, <2>4 DEF Todo
<1>8. CASE context_fatal
  <2>1. /\ fatal' = fatal /\ h2c' = h2c /\ c2h # <<>> /\ c2h' = Tail(c2h) /\ c2h[1].op = "context_fatal"
        /\ UNCHANGED <<block_idx, pc, m_scheduled, orphan>>
    BY <1>1, <1>8, OthersLeft DEF context_fatal, loaderVars, lockVars
  <2>2. \A k \in 1 .. Len(c2h) : k # 1 => k - 1 \in 1 .. Len(c2h') /\ c2h'[k - 1] = c2h[k]
    BY <1>1, <2>1, OthersLeft
  <2>3. \A i \in Block : (\E k \in Ended : c2h[k].i = i) => \E k \in Ended' : c2h'[k].i = i
    BY <2>1, <2>2 DEF Ended
  <2> QED
    BY <2>1, <2>3 DEF Held, Todo
<1>9. CASE card_fatal
  <2>1. m_scheduled' = [i \in Block |-> m_scheduled[i] /\ i \notin {j \in Block : m_scheduled[j]}]
    BY <1>9 DEF card_fatal, postSchedule
  <2>2. \A i \in Block : ~m_scheduled'[i]
    BY <2>1
  <2> QED
    BY <2>2 DEF Held
<1>10. CASE card_fatal_broken
  BY <1>10 DEF card_fatal_broken, lockVars, Held
<1>11. CASE card_copies
  <2>1. /\ UNCHANGED <<fatal, pc, block_idx, m_scheduled, orphan>> /\ h2c # <<>> /\ h2c' = Tail(h2c)
    BY <1>11 DEF card_copies, Host, loaderVars, lockVars
  <2>2. PICK e : c2h' = Append(c2h, e) /\ e.op \in {"success", "failed"} /\ e.i = h2c[1].i
    <3>1. \/ c2h' = Append(c2h, [op |-> "success", i |-> Head(h2c).i])
          \/ c2h' = Append(c2h, [op |-> "failed", i |-> Head(h2c).i])
      BY <1>11 DEF card_copies
    <3>2. Head(h2c) = h2c[1]
      BY <1>1, <2>1, OthersLeft
    <3> QED
      BY <3>1, <3>2
  <2>3. \A k \in 1 .. Len(h2c) : k # 1 => k - 1 \in 1 .. Len(h2c') /\ h2c'[k - 1] = h2c[k]
    BY <1>1, <2>1, OthersLeft
  <2>4. /\ \A k \in 1 .. Len(c2h) : k \in 1 .. Len(c2h') /\ c2h'[k] = c2h[k]
        /\ Len(c2h) + 1 \in 1 .. Len(c2h') /\ c2h'[Len(c2h) + 1] = e
    BY <1>1, <2>2, OneAdded
  <2>5. \A i \in Block : (\E k \in Todo : h2c[k].i = i) =>
                          (\E k \in Todo' : h2c'[k].i = i) \/ \E k \in Ended' : c2h'[k].i = i
    BY <2>2, <2>3, <2>4 DEF Todo, Ended
  <2>6. \A i \in Block : (\E k \in Ended : c2h[k].i = i) => \E k \in Ended' : c2h'[k].i = i
    BY <2>4 DEF Ended
  <2> QED
    BY <2>1, <2>5, <2>6 DEF Held
<1>12. CASE card_event
  <2>1. UNCHANGED <<fatal, pc, block_idx, m_scheduled, orphan, h2c>>
    BY <1>12 DEF card_event, Host, loaderVars, lockVars
  <2>2. \E e : c2h' = Append(c2h, e)
    BY <1>12 DEF card_event
  <2>3. \A k \in 1 .. Len(c2h) : k \in 1 .. Len(c2h') /\ c2h'[k] = c2h[k]
    BY <1>1, <2>2, OneAdded
  <2>4. \A i \in Block : (\E k \in Ended : c2h[k].i = i) => \E k \in Ended' : c2h'[k].i = i
    BY <2>3 DEF Ended
  <2> QED
    BY <2>1, <2>4 DEF Held, Todo
<1>13. CASE UNCHANGED vars
  BY <1>3, <1>13 DEF vars, loaderVars, cardVars, lockVars
<1> QED
  BY <1>4, <1>5, <1>6, <1>7, <1>8, <1>9, <1>10, <1>11, <1>12, <1>13 DEF Next, Loader, Respond

LEMMA PiecesKept == ASSUME Functions, TypeOK, Values, Pieces, [Next]_vars PROVE Pieces'
<1>1. /\ Listed(h2c) /\ block_idx \in Block /\ mem = [i \in Block |-> mem[i]]
      /\ n \in -1 .. block_size /\ devres_offset \in 0 .. Two64 - 1 /\ pos \in 0 .. len /\ len \in Nat
      /\ block_size \in Nat \ {0}
  BY BlockSize DEF Functions, TypeOK, Values, block_size
<1>2. ASSUME UNCHANGED <<h2c, n, mem, block_idx, devres_offset>>,
             pc' \in {"unlock", "schedule", "send"} => pc' = pc
      PROVE  Pieces'
  BY <1>2 DEF Pieces, Todo
<1>3. CASE prepare \/ lock_cpu_access \/ drain \/ end
  BY <1>2, <1>3 DEF prepare, lock_cpu_access, drain, end, Stop, loaderVars, cardVars
<1>4. CASE read_cb
  <2>1. pc' = "unlock" /\ UNCHANGED <<h2c, block_idx, devres_offset>>
    BY <1>4 DEF read_cb, cardVars
  <2>2. n' >= 0 => Len(mem'[block_idx]) = n'
    <3>1. CASE n' = -1
      BY <3>1
    <3>2. CASE /\ n' = Min({block_size, len - pos})
               /\ mem' = [mem EXCEPT ![block_idx] = [k \in 1 .. n' |-> pos + k]]
      <4>1. n' \in Nat
        <5>1. len - pos \in Nat /\ block_size \in Nat
          BY <1>1
        <5>2. Min({block_size, len - pos}) = IF block_size <= len - pos THEN block_size ELSE len - pos
          BY <5>1, MinOfTwo
        <5> QED
          BY <3>2, <5>1, <5>2
      <4>2. mem'[block_idx] = [k \in 1 .. n' |-> pos + k]
        BY <1>1, <3>2
      <4> QED
        BY <4>1, <4>2
    <3> QED
      BY <1>4, <3>1, <3>2 DEF read_cb
  <2> QED
    BY <2>1, <2>2 DEF Pieces, Todo
<1>5. CASE unlock_cpu_access
  <2>1. /\ UNCHANGED <<h2c, n, mem, block_idx, devres_offset>> /\ pc = "unlock"
        /\ pc' \in {"end", "drain", "schedule"} /\ (pc' = "schedule" => n > 0)
    BY <1>5 DEF unlock_cpu_access, Stop, loaderVars, cardVars
  <2> QED
    BY <2>1 DEF Pieces, Todo
<1>6. CASE schedule
  <2>1. /\ UNCHANGED <<h2c, n, mem, block_idx, devres_offset>> /\ pc = "schedule" /\ pc' \in {"end", "send"}
        /\ pc' = "send" => ~((devres_offset + n) % Two64 > Size)
    BY <1>6 DEF schedule, Stop, loaderVars, cardVars
  <2>2. pc' = "send" => (devres_offset + n) % Two64 <= Size
    BY <1>1, <2>1, LoadAssumption
  <2> QED
    BY <2>1, <2>2 DEF Pieces, Todo
<1>7. CASE schedule_send
  <2>1. pc = "send" /\ pc' \in {"block", "drain", "end"} /\ n > 0
    BY <1>7 DEF schedule_send, Stop, Pieces
  <2>2. CASE h2c' = h2c
    BY <2>1, <2>2 DEF Pieces, Todo
  <2>3. CASE h2c' = Append(h2c, [i |-> block_idx, at |-> devres_offset, bytes |-> mem[block_idx]])
    <3> DEFINE e == [i |-> block_idx, at |-> devres_offset, bytes |-> mem[block_idx]]
    <3>1. /\ e.at \in 0 .. Two64 - 1 /\ Len(e.bytes) \in Nat
          /\ (e.at + Len(e.bytes)) % Two64 <= Size
      BY <1>1, <2>1 DEF Pieces
    <3> HIDE DEF e
    <3>2. \A k \in 1 .. Len(h2c') : (k \in 1 .. Len(h2c) /\ h2c'[k] = h2c[k]) \/ h2c'[k] = e
      BY <1>1, <2>3, OneAdded DEF e
    <3> QED
      BY <2>1, <3>1, <3>2 DEF Pieces, Todo
  <2> QED
    BY <1>7, <2>2, <2>3 DEF schedule_send
<1>8. CASE copy_event \/ card_fatal
  BY <1>2, <1>8 DEF copy_event, card_fatal, postSchedule, Wake, loaderVars, cardVars
<1>9. CASE context_fatal \/ card_fatal_broken \/ card_event \/ UNCHANGED vars
  BY <1>2, <1>9 DEF context_fatal, card_fatal_broken, card_event, Host, vars, loaderVars, cardVars
<1>10. CASE card_copies
  <2>1. UNCHANGED <<n, mem, block_idx, devres_offset, pc>> /\ h2c # <<>> /\ h2c' = Tail(h2c)
    BY <1>10 DEF card_copies, Host, loaderVars
  <2>2. \A k \in 1 .. Len(h2c') : k + 1 \in 1 .. Len(h2c) /\ h2c'[k] = h2c[k + 1]
    BY <1>1, <2>1, OthersLeft
  <2> QED
    BY <2>1, <2>2 DEF Pieces, Todo
<1> QED
  BY <1>3, <1>4, <1>5, <1>6, <1>7, <1>8, <1>9, <1>10 DEF Next, Loader, Respond

LEMMA OverKept == ASSUME IInv, TypeOK, Events, Over, [Next]_vars PROVE Over'
<1>1. Functions /\ Listed(h2c) /\ Listed(c2h) /\ block_idx \in Block /\ made \in [Block -> BOOLEAN]
  BY DEF IInv, Functions, TypeOK
<1>2. ASSUME UNCHANGED <<is_mapped, copy, ret, c2h, made, fatal>>,
             pc' \in {"end", "done"} <=> pc \in {"end", "done"}, pc' = "done" => pc = "done"
      PROVE  Over'
  BY <1>2 DEF Over, Ended
<1>3. ASSUME UNCHANGED <<is_mapped, copy, c2h, fatal>>, \A i \in Block : made[i] => made'[i], Alive \/ fatal # "no",
             pc' = "end", ret' # "ok"
      PROVE  Over'
  BY <1>3 DEF Over, Ended, Alive, Once, Busy
<1>4. Alive \/ fatal # "no"
  BY DEF IInv
<1>5. CASE prepare
  <2>1. /\ UNCHANGED <<c2h, fatal>> /\ pc = "block"
        /\ (pc' = "lock" /\ ret' = ret) \/ (pc' = "end" /\ ret' # "ok")
    BY <1>5 DEF prepare, Stop, cardVars
  <2>2. \A i \in Block : made[i] => made'[i]
    BY <1>1, <1>5 DEF prepare, blockVars
  <2>3. fatal = "no" => \A k \in Ended : made'[c2h[k].i]
    BY <1>4, <2>2 DEF Over, Alive, Once, Busy
  <2> QED
    BY <2>1, <2>3 DEF Over, Ended
<1>6. CASE lock_cpu_access \/ read_cb \/ unlock_cpu_access \/ schedule \/ schedule_send
  <2>1. /\ UNCHANGED <<is_mapped, copy, c2h, fatal, made>> /\ pc \notin {"end", "done"}
        /\ (pc' \notin {"end", "done"} /\ ret' = ret) \/ (pc' = "end" /\ ret' # "ok")
    BY <1>6 DEF lock_cpu_access, read_cb, unlock_cpu_access, schedule, schedule_send, Stop, blockVars, cardVars
  <2> QED
    BY <1>2, <1>3, <1>4, <2>1
<1>7. CASE drain
  <2>1. /\ UNCHANGED <<is_mapped, copy, c2h, fatal, made>> /\ pc = "drain" /\ pc' \in {"end", "drain_asleep"}
        /\ pc' = "drain_asleep" => ret' = ret
        /\ pc' = "end" => \A i \in Block : made[i] => m_readers[i] = 0
    BY <1>7 DEF drain, Stop, blockVars, cardVars
  <2>2. fatal = "no" /\ pc' = "end" => Ended = {}
    BY <1>4, <2>1 DEF Over, Alive, Once, Busy
  <2> QED
    BY <2>1, <2>2 DEF Over, Ended
<1>8. CASE end
  <2>1. /\ UNCHANGED <<ret, c2h, fatal, made>> /\ pc = "end" /\ pc' = "done"
        /\ \A i \in Block : ~is_mapped'[i] /\ ~copy'[i]
    BY <1>8 DEF end, cardVars
  <2> QED
    BY <2>1 DEF Over, Ended
<1>9. ASSUME UNCHANGED <<is_mapped, copy, ret, made, fatal>>,
             pc' \in {"end", "done"} <=> pc \in {"end", "done"}, pc' = "done" => pc = "done",
             c2h # <<>>, c2h' = Tail(c2h)
      PROVE  Over'
  <2>1. \A k \in Ended' : k + 1 \in Ended /\ c2h'[k] = c2h[k + 1]
    BY <1>1, <1>9, EventTaken
  <2> QED
    BY <1>9, <2>1 DEF Over
<1>10. CASE copy_event \/ context_fatal
  BY <1>9, <1>10 DEF copy_event, context_fatal, postSchedule, Wake, blockVars
<1>11. CASE card_fatal
  BY <1>11 DEF card_fatal, postSchedule, Wake, blockVars, Over
<1>12. CASE card_fatal_broken
  BY <1>12 DEF card_fatal_broken, blockVars, Over
<1>13. CASE card_copies
  <2>1. /\ UNCHANGED <<is_mapped, copy, ret, made, fatal, pc>> /\ fatal = "no" /\ h2c # <<>>
    BY <1>1, <1>13, Living DEF card_copies, Host, blockVars
  <2>2. ~(pc \in {"end", "done"} /\ ret = "ok") /\ made[h2c[1].i]
    BY <1>1, <1>4, <2>1, OthersLeft DEF Alive, At, Intact, Todo
  <2>3. PICK e : c2h' = Append(c2h, e) /\ e.i = h2c[1].i
    <3>1. \/ c2h' = Append(c2h, [op |-> "success", i |-> Head(h2c).i])
          \/ c2h' = Append(c2h, [op |-> "failed", i |-> Head(h2c).i])
      BY <1>13 DEF card_copies
    <3>2. Head(h2c) = h2c[1]
      BY <1>1, <2>1, OthersLeft
    <3> QED
      BY <3>1, <3>2
  <2>4. \A k \in 1 .. Len(c2h') : (k \in 1 .. Len(c2h) /\ c2h'[k] = c2h[k]) \/ c2h'[k] = e
    BY <1>1, <2>3, OneAdded
  <2> QED
    BY <2>1, <2>2, <2>3, <2>4 DEF Over, Ended
<1>14. CASE card_event
  <2>1. UNCHANGED <<is_mapped, copy, ret, made, fatal, pc>>
    BY <1>14 DEF card_event, Host, blockVars
  <2>2. PICK o \in {"context_fatal", "card_fatal"} : c2h' = Append(c2h, [op |-> o, i |-> 0])
    BY <1>14 DEF card_event
  <2>3. Ended' = Ended /\ \A k \in Ended : c2h'[k] = c2h[k]
    <3>1. [op |-> o, i |-> 0].op \notin {"success", "failed"}
      OBVIOUS
    <3> QED
      BY <1>1, <2>2, <3>1, EventSent
  <2> QED
    BY <2>1, <2>3 DEF Over
<1>15. CASE UNCHANGED vars
  BY <1>2, <1>15 DEF vars, blockVars, cardVars
<1> QED
  BY <1>5, <1>6, <1>7, <1>8, <1>10, <1>11, <1>12, <1>13, <1>14, <1>15 DEF Next, Loader, Respond

\* A load that has gone wrong stays so.
LEMMA GoesWell == ASSUME Over, [Next]_vars, ret' = "ok" PROVE ret = "ok"
<1>1. CASE drain
  BY <1>1 DEF Over, drain
<1>2. CASE ~drain
  BY <1>2 DEF Next, Loader, Respond, prepare, lock_cpu_access, read_cb, unlock_cpu_access, schedule, schedule_send,
     end, copy_event, context_fatal, card_fatal, card_fatal_broken, card_copies, card_event, Host, vars, Stop
<1> QED
  BY <1>1, <1>2

\* Numbers as the steps of a load compute them.
LEMMA Numbers ==
    ASSUME TypeOK, Values
    PROVE  /\ pos \in Nat /\ pos <= len /\ n \in Int /\ n <= block_size /\ devres_offset \in Nat /\ devres_offset < Two64
           /\ offset \in Nat /\ len \in Nat /\ len - pos \in Nat
           /\ block_size \in Nat /\ block_size > 0 /\ Size + block_size < Two64 /\ Size \in Nat /\ Two64 \in Nat
           /\ Min({block_size, len - pos}) = IF block_size <= len - pos THEN block_size ELSE len - pos
           /\ block_idx \in Block
<1>1. block_size \in Nat \ {0} /\ block_size < 2 * MaxBlock
  BY BlockSize DEF block_size
<1>2. /\ pos \in Nat /\ pos <= len /\ n \in Int /\ n <= block_size /\ devres_offset \in Nat /\ devres_offset < Two64
      /\ offset \in Nat /\ len \in Nat /\ len - pos \in Nat /\ block_idx \in Block
  <2>1. Two64 \in Nat
    BY LoadAssumption
  <2>2. /\ pos \in 0 .. len /\ n \in -1 .. block_size /\ devres_offset \in 0 .. Two64 - 1 /\ block_idx \in Block
        /\ offset \in 0 .. Two64 - 1 /\ len \in Nat
    BY DEF TypeOK, Values
  <2> QED
    BY <1>1, <2>1, <2>2
<1>3. Min({block_size, len - pos}) = IF block_size <= len - pos THEN block_size ELSE len - pos
  BY <1>1, <1>2, MinOfTwo
<1>4. Size + block_size < Two64 /\ Size \in Nat /\ Two64 \in Nat
  BY <1>1, LoadAssumption
<1> QED
  BY <1>1, <1>2, <1>3, <1>4

LEMMA NoWrap == ASSUME NEW x \in Nat, NEW m \in Nat, x < m PROVE x % m = x
OBVIOUS

LEMMA ProgressKept == ASSUME TypeOK, Values, Pieces, Over, Progress, [Next]_vars PROVE Progress'
<1>1. /\ offset' = offset /\ len' = len /\ block_size' = block_size
      /\ ret' = "ok" => ret = "ok"
  BY LoadFixed, GoesWell
<1>2. ASSUME UNCHANGED <<devres_offset, pos, n>>,
             ret' = "ok" => /\ pc' \in {"unlock", "schedule", "send"} <=> pc \in {"unlock", "schedule", "send"}
                            /\ pc' \in {"drain", "drain_asleep", "end", "done"} =>
                                  pc \in {"drain", "drain_asleep", "end", "done"}
      PROVE  Progress'
  BY <1>1, <1>2 DEF Progress, Unsent
<1>3. CASE prepare \/ lock_cpu_access \/ schedule \/ drain \/ end
  BY <1>2, <1>3 DEF prepare, lock_cpu_access, schedule, drain, end, Stop, loaderVars
<1>4. CASE read_cb
  <2>1. /\ pc = "read" /\ pc' = "unlock" /\ devres_offset' = devres_offset
        /\ \/ n' = Min({block_size, len - pos}) /\ pos' = pos + n'
           \/ n' = -1 /\ pos' = pos
    BY <1>4 DEF read_cb
  <2> QED
    BY <1>1, <2>1, Numbers DEF Progress, Unsent
<1>5. CASE unlock_cpu_access
  <2>1. /\ pc = "unlock" /\ UNCHANGED <<devres_offset, pos, n>>
        /\ \/ pc' = "end" /\ ret' # "ok"
           \/ pc' = "drain" /\ n = 0
           \/ pc' = "schedule" /\ n > 0
    BY <1>5 DEF unlock_cpu_access, Stop, loaderVars
  <2> QED
    BY <1>1, <2>1, Numbers DEF Progress, Unsent
<1>6. CASE schedule_send
  <2>1. /\ pc = "send" /\ UNCHANGED <<pos, n>>
        /\ \/ /\ devres_offset' = (devres_offset + n) % Two64
              /\ pc' = IF n = block_size THEN "block" ELSE "drain"
           \/ ret' # "ok"
    BY <1>6 DEF schedule_send, Stop
  <2> SUFFICES ASSUME ret' = "ok", offset <= Size PROVE Progress'
    BY <1>1 DEF Progress
  <2>2. n > 0 /\ (devres_offset + n) % Two64 <= Size
    BY <2>1 DEF Pieces
  <2>3. /\ devres_offset + n = offset + pos /\ offset <= devres_offset /\ devres_offset <= Size
        /\ n = block_size \/ pos = len
    BY <1>1, <2>1, <2>2, Numbers DEF Progress, Unsent
  <2>4. (devres_offset + n) % Two64 = devres_offset + n
    <3>1. devres_offset + n \in Nat /\ devres_offset + n < Two64
      BY <2>2, <2>3, Numbers
    <3> QED
      BY <3>1, Numbers, NoWrap
  <2> QED
    BY <1>1, <2>1, <2>2, <2>3, <2>4, Numbers DEF Progress, Unsent
<1>7. CASE copy_event \/ card_fatal
  BY <1>2, <1>7 DEF copy_event, card_fatal, postSchedule, Wake, loaderVars
<1>8. CASE context_fatal \/ card_fatal_broken \/ card_copies \/ card_event \/ UNCHANGED vars
  BY <1>2, <1>8 DEF context_fatal, card_fatal_broken, card_copies, card_event, Host, vars, loaderVars
<1> QED
  BY <1>3, <1>4, <1>5, <1>6, <1>7, <1>8 DEF Next, Loader, Respond

LEMMA InHandKept ==
    ASSUME Functions, TypeOK, Values, Over, Progress, offset <= Size, InHand, [Next]_vars
    PROVE  InHand'
<1>1. mem = [i \in Block |-> mem[i]] /\ offset' = offset
  BY LoadFixed DEF Functions
<1>2. ASSUME UNCHANGED <<mem, block_idx, devres_offset, n>>,
             pc' \in {"unlock", "schedule", "send"} => pc \in {"unlock", "schedule", "send"}
      PROVE  InHand'
  BY <1>1, <1>2 DEF InHand, Right
<1>3. CASE prepare \/ lock_cpu_access \/ unlock_cpu_access \/ schedule \/ drain \/ end
  BY <1>2, <1>3 DEF prepare, lock_cpu_access, unlock_cpu_access, schedule, drain, end, Stop, loaderVars
<1>4. CASE read_cb
  <2>1. /\ pc = "read" /\ UNCHANGED <<block_idx, devres_offset>>
        /\ \/ /\ n' = Min({block_size, len - pos}) /\ pos' = pos + n'
              /\ mem' = [mem EXCEPT ![block_idx] = [k \in 1 .. n' |-> pos + k]]
           \/ n' = -1
    BY <1>4 DEF read_cb
  <2>2. CASE n' = -1
    BY <2>2 DEF InHand
  <2>3. CASE n' # -1
    <3>1. mem'[block_idx] = [k \in 1 .. n' |-> pos + k]
      BY <1>1, <2>1, <2>3, Numbers
    <3>2. devres_offset = offset + pos
      BY <2>1, Numbers DEF Over, Progress, Unsent
    <3>3. n' \in Int
      BY <2>1, <2>3, Numbers
    <3>4. \A j \in 1 .. n' : mem'[block_idx][j] = pos + j
      BY <3>1
    <3>5. \A j \in 1 .. n' : pos + j = (devres_offset + j - 1) - offset + 1
      BY <3>2, <3>3, Numbers
    <3>6. \A j \in 1 .. n' : mem'[block_idx][j] = Right(devres_offset + j - 1)
      BY <3>4, <3>5 DEF Right
    <3>7. \A j \in 1 .. n' : mem'[block_idx'][j] = Right(devres_offset + j - 1)'
      BY <1>1, <2>1, <3>6 DEF Right
    <3> QED
      BY <3>7 DEF InHand
  <2> QED
    BY <2>2, <2>3
<1>5. CASE schedule_send
  <2>1. pc' \notin {"unlock", "schedule", "send"}
    BY <1>5 DEF schedule_send, Stop
  <2> QED
    BY <2>1 DEF InHand
<1>6. CASE copy_event \/ card_fatal
  BY <1>2, <1>6 DEF copy_event, card_fatal, postSchedule, Wake, loaderVars
<1>7. CASE context_fatal \/ card_fatal_broken \/ card_copies \/ card_event \/ UNCHANGED vars
  BY <1>2, <1>7 DEF context_fatal, card_fatal_broken, card_copies, card_event, Host, vars, loaderVars
<1> QED
  BY <1>3, <1>4, <1>5, <1>6, <1>7 DEF Next, Loader, Respond

LEMMA UnderWayKept ==
    ASSUME Functions, TypeOK, Values, Pieces, Over, Progress, offset <= Size, InHand, UnderWay, [Next]_vars
    PROVE  UnderWay'
<1>1. Listed(h2c) /\ offset' = offset
  BY LoadFixed DEF Functions
<1>2. pos' \in Int /\ pos' >= pos
  <2>1. CASE read_cb
    BY <2>1, Numbers DEF read_cb
  <2>2. CASE ~read_cb
    <3>1. pos' = pos
      BY <2>2 DEF Next, Loader, Respond, prepare, lock_cpu_access, unlock_cpu_access, schedule, schedule_send,
         drain, end, copy_event, context_fatal, card_fatal, card_fatal_broken, card_copies, card_event, Host, vars
    <3> QED
      BY <3>1, Numbers
  <2> QED
    BY <2>1, <2>2
<1>3. CASE h2c' = h2c
  <2>1. \A k \in Todo : h2c[k].at + Len(h2c[k].bytes) <= offset + pos'
    <3> SUFFICES ASSUME NEW k \in Todo PROVE h2c[k].at + Len(h2c[k].bytes) <= offset + pos'
      OBVIOUS
    <3>1. h2c[k].at + Len(h2c[k].bytes) <= offset + pos
      BY DEF UnderWay
    <3>2. h2c[k].at \in 0 .. Two64 - 1 /\ Len(h2c[k].bytes) \in Nat
      BY DEF Pieces
    <3>3. offset \in Nat /\ pos \in Nat /\ Two64 \in Nat
      BY Numbers
    <3>4. h2c[k].at + Len(h2c[k].bytes) \in Int
      BY <3>2, <3>3
    <3>5. \A o, p, x, y \in Int : x <= o + p /\ y >= p => x <= o + y
      OBVIOUS
    <3> QED
      BY <1>2, <3>1, <3>3, <3>4, <3>5
  <2> QED
    BY <1>1, <1>3, <2>1 DEF UnderWay, Todo, Right
<1>4. CASE schedule_send /\ h2c' # h2c
  <2> DEFINE e == [i |-> block_idx, at |-> devres_offset, bytes |-> mem[block_idx]]
  <2>1. pc = "send" /\ h2c' = Append(h2c, e) /\ pos' = pos
    BY <1>4 DEF schedule_send
  <2>2. n > 0 /\ Len(e.bytes) = n /\ e.at = devres_offset /\ e.bytes = mem[block_idx]
    BY <2>1, Numbers DEF Pieces
  <2>3. /\ offset <= e.at /\ e.at + Len(e.bytes) <= offset + pos
        /\ \A j \in 1 .. Len(e.bytes) : e.bytes[j] = Right(e.at + j - 1)
    BY <2>1, <2>2, Numbers DEF Over, Progress, Unsent, InHand
  <2> HIDE DEF e
  <2>4. \A k \in 1 .. Len(h2c') : (k \in 1 .. Len(h2c) /\ h2c'[k] = h2c[k]) \/ h2c'[k] = e
    BY <1>1, <2>1, OneAdded
  <2> QED
    BY <1>1, <2>1, <2>3, <2>4 DEF UnderWay, Todo, Right
<1>5. CASE card_copies
  <2>1. h2c # <<>> /\ h2c' = Tail(h2c) /\ pos' = pos
    BY <1>5 DEF card_copies, Host
  <2>2. \A k \in 1 .. Len(h2c') : k + 1 \in 1 .. Len(h2c) /\ h2c'[k] = h2c[k + 1]
    BY <1>1, <2>1, OthersLeft
  <2> QED
    BY <1>1, <2>1, <2>2 DEF UnderWay, Todo, Right
<1> QED
  <2>1. h2c' = h2c \/ schedule_send \/ card_copies
    BY DEF Next, Loader, Respond, prepare, lock_cpu_access, read_cb, unlock_cpu_access, schedule,
       drain, end, copy_event, context_fatal, card_fatal, card_fatal_broken, card_event, vars, cardVars
  <2> QED
    BY <1>3, <1>4, <1>5, <2>1

\* A copy that succeeds puts bytes where they belong.
LEMMA CopyWrites ==
    ASSUME Functions, TypeOK, Values, Pieces, Intact, UnderWay, card_copies
    PROVE  LET m == h2c[1] IN
           /\ h2c # <<>> /\ h2c' = Tail(h2c) /\ 1 \in Todo
           /\ \/ /\ dev' = dev /\ c2h' = Append(c2h, [op |-> "failed", i |-> m.i])
              \/ /\ c2h' = Append(c2h, [op |-> "success", i |-> m.i])
                 /\ \A a \in 0 .. Size - 1 :
                       IF m.at <= a /\ a < m.at + Len(m.bytes)
                       THEN dev'[a] = Right(a) /\ a - offset \in 0 .. len - 1
                       ELSE dev'[a] = dev[a]
<1> DEFINE m == h2c[1]
<1>1. h2c # <<>> /\ h2c' = Tail(h2c) /\ 1 \in Todo /\ Head(h2c) = m
  BY OthersLeft DEF card_copies, Functions, Todo
<1>2. /\ m.at \in Nat /\ Len(m.bytes) \in Nat /\ offset <= m.at /\ m.at + Len(m.bytes) <= offset + pos
      /\ \A j \in 1 .. Len(m.bytes) : m.bytes[j] = Right(m.at + j - 1)
  BY <1>1, LoadAssumption DEF Pieces, UnderWay
<1>3. mem[m.i] = m.bytes
  BY <1>1 DEF Intact
<1>4. DOMAIN dev = 0 .. Size - 1
  BY DEF Values
<1> HIDE DEF m
<1>5. CASE dev' = dev /\ c2h' = Append(c2h, [op |-> "failed", i |-> m.i])
  BY <1>1, <1>5 DEF m
<1>6. CASE /\ c2h' = Append(c2h, [op |-> "success", i |-> m.i])
           /\ dev' = [a \in DOMAIN dev |-> IF a - m.at \in 0 .. Len(m.bytes) - 1 THEN mem[m.i][a - m.at + 1] ELSE dev[a]]
  <2>1. ASSUME NEW a \in 0 .. Size - 1
        PROVE  IF m.at <= a /\ a < m.at + Len(m.bytes)
               THEN dev'[a] = Right(a) /\ a - offset \in 0 .. len - 1
               ELSE dev'[a] = dev[a]
    <3>1. dev'[a] = IF a - m.at \in 0 .. Len(m.bytes) - 1 THEN m.bytes[a - m.at + 1] ELSE dev[a]
      BY <1>3, <1>4, <1>6
    <3>2. a \in Int
      BY Numbers
    <3>3. CASE m.at <= a /\ a < m.at + Len(m.bytes)
      <4> DEFINE j == a - m.at + 1
      <4>1. a - m.at \in 0 .. Len(m.bytes) - 1 /\ j \in 1 .. Len(m.bytes) /\ m.at + j - 1 = a
        BY <1>2, <3>2, <3>3
      <4>2. m.bytes[j] = Right(a)
        BY <1>2, <4>1
      <4>3. a - offset \in 0 .. len - 1
        <5>1. /\ offset <= m.at /\ m.at + Len(m.bytes) <= offset + pos /\ m.at \in Nat /\ Len(m.bytes) \in Nat
              /\ pos \in Nat /\ pos <= len /\ offset \in Nat /\ len \in Nat
          BY <1>2, Numbers
        <5> QED
          BY <3>2, <3>3, <5>1
      <4> QED
        BY <3>1, <3>3, <4>1, <4>2, <4>3
    <3>4. CASE ~(m.at <= a /\ a < m.at + Len(m.bytes))
      <4>1. a - m.at \notin 0 .. Len(m.bytes) - 1
        BY <1>2, <3>2, <3>4
      <4> QED
        BY <3>1, <3>4, <4>1
    <3> QED
      BY <3>3, <3>4
  <2> QED
    BY <1>1, <1>6, <2>1 DEF m
<1> QED
  BY <1>1, <1>5, <1>6 DEF card_copies

LEMMA InPlaceKept ==
    ASSUME Functions, TypeOK, Values, Pieces, Alive, UnderWay, InPlace, [Next]_vars
    PROVE  InPlace'
<1>1. offset' = offset /\ len' = len /\ (dev' = dev \/ card_copies)
  BY LoadFixed
<1>2. CASE dev' = dev
  BY <1>1, <1>2 DEF InPlace, Right
<1>3. CASE card_copies /\ dev' # dev
  <2>1. \A a \in 0 .. Size - 1 : dev'[a] = dev[a] \/ (dev'[a] = Right(a) /\ a - offset \in 0 .. len - 1)
    BY <1>3, CopyWrites DEF Alive
  <2> QED
    BY <1>1, <2>1 DEF InPlace, Right
<1> QED
  BY <1>1, <1>2, <1>3

\* What failed has failed.
LEMMA FailureStays ==
    ASSUME IInv, TypeOK, Events, Failures, [Next]_vars, fatal' = "no", Unfailed'
    PROVE  Unfailed
<1>1. Functions /\ Listed(c2h) /\ fatal = "no"
  BY FatalStays DEF IInv, Functions
<1>2. CASE UNCHANGED <<m_failed_copy_ops, c2h>>
  BY <1>2 DEF Unfailed, FailedOf, Ended
<1>3. CASE Loader
  BY <1>2, <1>3 DEF Loader, prepare, lock_cpu_access, read_cb, unlock_cpu_access, schedule, schedule_send,
     drain, end, cardVars, lockVars
<1>4. CASE (copy_event /\ c2h[1].op # "failed") \/ context_fatal
  <2>1. c2h # <<>> /\ c2h' = Tail(c2h) /\ \A i \in Block : m_failed_copy_ops'[i] = m_failed_copy_ops[i]
    <3>1. CASE copy_event
      BY <1>4, <3>1, CopyEnds DEF postSchedule, context_fatal, copy_event
    <3>2. CASE context_fatal
      BY <3>2 DEF context_fatal, lockVars
    <3> QED
      BY <1>4, <3>1, <3>2
  <2>2. \A k \in 1 .. Len(c2h) : k # 1 => k - 1 \in 1 .. Len(c2h') /\ c2h'[k - 1] = c2h[k]
    BY <1>1, <2>1, OthersLeft
  <2>3. c2h[1].op # "failed"
    BY <1>1, <1>4, <2>1, OthersLeft DEF context_fatal
  <2>4. \A i \in Block : FailedOf(i) => FailedOf(i)'
    BY <2>2, <2>3 DEF FailedOf, Ended
  <2> QED
    BY <2>1, <2>4 DEF Unfailed
<1>5. CASE copy_event /\ c2h[1].op = "failed"
  <2> DEFINE b == c2h[1].i
  <2>1. postSchedule({b}, TRUE) /\ b \in Block
    BY <1>5, CopyEnds DEF Busy
  <2> HIDE DEF b
  <2>2. m_failed_copy_ops'[b] = m_failed_copy_ops[b] + 1
    BY <2>1 DEF postSchedule
  <2>3. m_failed_copy_ops[b] \in Nat
    BY <2>1 DEF Failures
  <2> QED
    BY <2>1, <2>2, <2>3 DEF Unfailed
<1>6. CASE card_copies \/ card_event
  <2>1. UNCHANGED m_failed_copy_ops /\ \E e : c2h' = Append(c2h, e)
    BY <1>6 DEF card_copies, card_event, Host, lockVars
  <2>2. \A k \in 1 .. Len(c2h) : k \in 1 .. Len(c2h') /\ c2h'[k] = c2h[k]
    BY <1>1, <2>1, OneAdded
  <2> QED
    BY <2>1, <2>2 DEF Unfailed, FailedOf, Ended
<1>7. ~card_fatal /\ ~card_fatal_broken
  BY DEF card_fatal, card_fatal_broken
<1>8. CASE UNCHANGED vars
  BY <1>2, <1>8 DEF vars, cardVars, lockVars
<1> QED
  BY <1>3, <1>4, <1>5, <1>6, <1>7, <1>8 DEF Next, Respond

LEMMA ArrivedKept ==
    ASSUME IInv, TypeOK, Values, Events, Failures, Pieces, Over, Progress, offset <= Size, fatal' = "no",
           UnderWay, Arrived, [Next]_vars
    PROVE  Arrived'
<1>1. Functions /\ Listed(h2c) /\ Listed(c2h) /\ Alive /\ offset' = offset
  BY FatalStays, LoadFixed DEF IInv, Functions
<1> SUFFICES ASSUME ret' = "ok", Unfailed', NEW a \in offset .. devres_offset' - 1
             PROVE  \/ dev'[a] = Right(a)
                    \/ \E k \in Todo' : h2c'[k].at <= a /\ a < h2c'[k].at + Len(h2c'[k].bytes)
  BY <1>1 DEF Arrived, Right
<1>2. ret = "ok" /\ Unfailed
  BY GoesWell, FailureStays
<1>3. devres_offset <= Size
  BY <1>2 DEF Progress
<1>4. ASSUME a \in offset .. devres_offset - 1
      PROVE  \/ dev[a] = Right(a)
             \/ \E k \in Todo : h2c[k].at <= a /\ a < h2c[k].at + Len(h2c[k].bytes)
  BY <1>2, <1>4 DEF Arrived
<1>5. CASE UNCHANGED <<h2c, devres_offset, dev>>
  BY <1>4, <1>5 DEF Todo
<1>6. CASE schedule_send /\ h2c' # h2c
  <2> DEFINE e == [i |-> block_idx, at |-> devres_offset, bytes |-> mem[block_idx]]
  <2>1. /\ pc = "send" /\ h2c' = Append(h2c, e) /\ dev' = dev /\ devres_offset' = (devres_offset + n) % Two64
    BY <1>6 DEF schedule_send
  <2>2. n > 0 /\ Len(e.bytes) = n /\ e.at = devres_offset
    BY <2>1, Numbers DEF Pieces
  <2>3. devres_offset' = devres_offset + n
    <3>1. devres_offset + n \in Nat /\ devres_offset + n < Two64
      BY <1>3, <2>2, Numbers
    <3> QED
      BY <2>1, <3>1, Numbers, NoWrap
  <2> HIDE DEF e
  <2>4. /\ \A k \in 1 .. Len(h2c) : k \in 1 .. Len(h2c') /\ h2c'[k] = h2c[k]
        /\ Len(h2c) + 1 \in 1 .. Len(h2c') /\ h2c'[Len(h2c) + 1] = e
    BY <1>1, <2>1, OneAdded
  <2>5. CASE a \in offset .. devres_offset - 1
    BY <1>4, <2>1, <2>4, <2>5 DEF Todo
  <2>6. CASE a \notin offset .. devres_offset - 1
    <3>1. devres_offset <= a /\ a < devres_offset + n
      BY <2>3, <2>6, Numbers
    <3> QED
      BY <2>2, <2>4, <3>1 DEF Todo
  <2> QED
    BY <2>5, <2>6
<1>7. CASE card_copies
  <2> DEFINE m == h2c[1]
  <2>1. UNCHANGED devres_offset
    BY <1>7 DEF card_copies, Host, loaderVars
  <2>2. h2c # <<>> /\ h2c' = Tail(h2c) /\ 1 \in Todo
    BY <1>1, <1>7, CopyWrites DEF Alive
  <2>3. a \in 0 .. Size - 1
    BY <1>3, <2>1, Numbers
  <2>4. IF m.at <= a /\ a < m.at + Len(m.bytes) THEN dev'[a] = Right(a) ELSE dev'[a] = dev[a]
    <3>1. c2h' # Append(c2h, [op |-> "failed", i |-> m.i])
      <4> SUFFICES ASSUME c2h' = Append(c2h, [op |-> "failed", i |-> m.i]) PROVE FALSE
        OBVIOUS
      <4> PICK b : b = m.i
        OBVIOUS
      <4> DEFINE e == [op |-> "failed", i |-> b]
      <4>1. e.op = "failed" /\ e.i = b /\ b \in Block
        BY <1>1, <2>2 DEF Alive, Once, Busy
      <4> HIDE DEF e
      <4>2. Len(c2h) + 1 \in 1 .. Len(c2h') /\ c2h'[Len(c2h) + 1] = e
        BY <1>1, OneAdded DEF e
      <4>3. FailedOf(b)'
        BY <4>1, <4>2 DEF FailedOf, Ended
      <4> QED
        BY <4>1, <4>3 DEF Unfailed
    <3> QED
      BY <1>1, <1>7, <2>3, <3>1, CopyWrites DEF Alive
  <2>5. \A k \in 1 .. Len(h2c) : k # 1 => k - 1 \in 1 .. Len(h2c') /\ h2c'[k - 1] = h2c[k]
    BY <1>1, <2>2, OthersLeft
  <2> QED
    BY <1>4, <2>1, <2>4, <2>5 DEF Todo
<1> QED
  <2>1. UNCHANGED <<h2c, devres_offset, dev>> \/ schedule_send \/ card_copies
    BY DEF Next, Loader, Respond, prepare, lock_cpu_access, read_cb, unlock_cpu_access, schedule,
       drain, end, copy_event, context_fatal, card_fatal, card_fatal_broken, card_event, vars, cardVars, Host,
       loaderVars
  <2>2. schedule_send => UNCHANGED <<h2c, devres_offset, dev>> \/ h2c' # h2c
    <3> SUFFICES ASSUME schedule_send, h2c' = h2c PROVE UNCHANGED <<h2c, devres_offset, dev>>
      OBVIOUS
    <3>1. ASSUME NEW e PROVE h2c' # Append(h2c, e)
      <4>1. Len(Append(h2c, e)) = Len(h2c) + 1 /\ Len(h2c) \in Nat
        BY <1>1, AppendListed DEF Listed
      <4> QED
        BY <4>1
    <3>2. \A e : h2c' # Append(h2c, e)
      BY <3>1
    <3> QED
      BY <3>2 DEF schedule_send
  <2> QED
    BY <1>5, <1>6, <1>7, <2>1, <2>2

LEMMA ContentsKept ==
    ASSUME IInv, TypeOK, Values, Events, Failures, Pieces, Over, Progress, Contents, [Next]_vars
    PROVE  Contents'
<1> SUFFICES ASSUME fatal' = "no", offset' <= Size PROVE InHand' /\ UnderWay' /\ InPlace' /\ Arrived'
  BY DEF Contents
<1>1. fatal = "no" /\ offset <= Size /\ Functions /\ Alive
  BY FatalStays, LoadFixed DEF IInv
<1>2. InHand /\ UnderWay /\ InPlace /\ Arrived
  BY <1>1 DEF Contents
<1> QED
  BY <1>1, <1>2, InHandKept, UnderWayKept, InPlaceKept, ArrivedKept

-----------------------------------------------------------------------------
(***************************************************************************)
(* The theorem about loads                                                 *)
(***************************************************************************)

Whole == IInv /\ TypeOK /\ Values /\ LInv

LEMMA LoadStart == Init => Whole
<1> SUFFICES ASSUME Init PROVE Whole
  OBVIOUS
<1> USE DEF Init
<1>1. Len(h2c) = 0 /\ Len(c2h) = 0 /\ Listed(h2c) /\ Listed(c2h)
  BY SeqListed, EmptySeq
<1>2. Todo = {} /\ Ended = {}
  BY <1>1 DEF Todo, Ended
<1>3. /\ Two64 \in Nat \ {0} /\ MaxFails \in Nat /\ MaxLen \in Nat /\ Offsets \subseteq 0 .. Two64 - 1 /\ Size \in Nat
  BY LoadAssumption
<1>4. IInv
  <2>1. Functions
    BY <1>1 DEF Functions, Block
  <2> QED
    BY <1>2, <2>1 DEF IInv, Alive, Once, Intact, At
<1>5. Values
  BY <1>3 DEF Values
<1>6. TypeOK
  <2>1. block_size \in Nat \ {0}
    BY BlockSize DEF block_size
  <2>2. /\ pc \in {"block", "lock", "asleep", "read", "unlock", "schedule", "send", "drain", "drain_asleep", "end", "done"}
        /\ ret \in {"ok", "io_error", "context_broken", "sync_failed", "invalid_argument"}
        /\ fatal \in {"no", "failed", "done"} /\ m_critical_error \in BOOLEAN
    OBVIOUS
  <2>3. /\ pos \in 0 .. len /\ n \in -1 .. block_size /\ block_idx \in Block /\ devres_offset \in 0 .. Two64 - 1
    BY <1>3, <2>1 DEF Block
  <2>4. {made, is_mapped, copy, m_scheduled, m_hostres} \subseteq [Block -> BOOLEAN]
    OBVIOUS
  <2>5. \A i \in Block : m_readers[i] \in -1 .. 1 /\ m_failed_copy_ops[i] \in 0 .. MaxFails
    BY <1>3
  <2> QED
    BY <2>2, <2>3, <2>4, <2>5 DEF TypeOK
<1>7. Locks /\ Events /\ Held /\ Over
  BY <1>1, <1>2 DEF Locks, Events, Held, Over
<1>8. Failures
  <2>1. \A i \in Block : Due(i) = 0
    BY <1>1, <1>2 DEF Due, FailedOf, Fatality
  <2> QED
    BY <2>1 DEF Failures
<1>9. Pieces
  BY <1>2 DEF Pieces
<1>10. Progress
  BY <1>3 DEF Progress, Unsent
<1>11. Contents
  <2>1. InHand /\ UnderWay
    BY <1>2 DEF InHand, UnderWay
  <2>2. InPlace
    BY DEF InPlace
  <2>3. Arrived
    BY <1>3 DEF Arrived
  <2> QED
    BY <2>1, <2>2, <2>3 DEF Contents
<1> QED
  BY <1>4, <1>5, <1>6, <1>7, <1>8, <1>9, <1>10, <1>11 DEF Whole, LInv

\* All of it together is inductive.
THEOREM WholeInductive == Spec => []Whole
<1>1. Init => Whole
  BY LoadStart
<1>2. Whole /\ [Next]_vars => Whole'
  <2> SUFFICES ASSUME Whole, [Next]_vars PROVE Whole'
    OBVIOUS
  <2>1. IInv /\ TypeOK /\ Values /\ Functions
    BY DEF Whole, IInv
  <2>2. Locks /\ Events /\ Failures /\ Held /\ Pieces /\ Over /\ Progress /\ Contents
    BY DEF Whole, LInv
  <2>3. IInv'
    BY <2>1, IInvKept
  <2>4. Values' /\ Locks' /\ Events' /\ Failures'
    BY <2>1, <2>2, ValuesKept, LocksKept, EventsKept, FailuresKept
  <2>5. TypeOK'
    BY <2>1, <2>4, TypesKept
  <2>6. Held' /\ Pieces' /\ Over' /\ Progress' /\ Contents'
    BY <2>1, <2>2, HeldKept, PiecesKept, OverKept, ProgressKept, ContentsKept
  <2> QED
    BY <2>3, <2>4, <2>5, <2>6 DEF Whole, LInv
<1> QED
  BY <1>1, <1>2, PTL DEF Spec

\* A load that reports success has put every byte of its stream at its place in the
\* device resource and nothing anywhere else, no copy is for a piece that lies outside,
\* and when it is over no lock, mapping or copy is left: whatever the sizes of pages,
\* blocks, resource and stream, and whichever calls, reads and copies failed in
\* nnpdrvDeviceResourceSubLoadFromStream.
THEOREM LoadsAreRight == Spec => []LoadRight
<1>1. Whole => LoadRight
  <2> SUFFICES ASSUME Whole PROVE LoadRight
    OBVIOUS
  <2>1. IInv /\ TypeOK /\ Values /\ Functions /\ Locks /\ Events /\ Held /\ Pieces /\ Over /\ Progress /\ Contents
    BY DEF Whole, LInv, IInv
  <2>2. InsideResource
    <3> SUFFICES ASSUME NEW k \in DOMAIN h2c, h2c[k].at + Len(h2c[k].bytes) < Two64
                 PROVE  h2c[k].at + Len(h2c[k].bytes) <= Size
      BY DEF InsideResource
    <3>1. k \in Todo
      BY <2>1 DEF Functions, Listed, Todo
    <3> DEFINE x == h2c[k].at + Len(h2c[k].bytes)
    <3>2. x \in Nat /\ x % Two64 <= Size /\ Two64 \in Nat
      <4>1. Two64 \in Nat
        BY LoadAssumption
      <4>2. h2c[k].at \in 0 .. Two64 - 1 /\ Len(h2c[k].bytes) \in Nat /\ x % Two64 <= Size
        BY <2>1, <3>1 DEF Pieces
      <4> QED
        BY <4>1, <4>2
    <3> HIDE DEF x
    <3>3. x < Two64 => x <= Size
      BY <3>2, NoWrap
    <3> QED
      BY <3>3 DEF x
  <2>3. LoadedRight
    <3> SUFFICES ASSUME pc = "done", ret = "ok", offset <= Size, \A i \in Block : m_failed_copy_ops[i] = 0, ~Dead
                 PROVE  dev = [a \in 0 .. Size - 1 |-> IF a - offset \in 0 .. len - 1 THEN a - offset + 1 ELSE 0]
      BY DEF LoadedRight
    <3>1. fatal = "no"
      BY DEF Dead
    <3>2. InPlace /\ Arrived
      BY <2>1, <3>1 DEF Contents
    <3>3. Ended = {} /\ Todo = {}
      <4>1. Ended = {} /\ h2c = <<>>
        BY <2>1, <3>1 DEF Over, IInv, Alive, At
      <4> QED
        BY <2>1, <4>1, EmptySeq DEF Todo
    <3>4. devres_offset = offset + len
      BY <2>1, Numbers DEF Progress, Unsent
    <3>5. \A a \in offset .. devres_offset - 1 : dev[a] = Right(a)
      <4>1. Unfailed
        BY <3>3 DEF Unfailed, FailedOf
      <4> QED
        BY <3>2, <3>3, <4>1 DEF Arrived
    <3>6. \A a \in 0 .. Size - 1 : dev[a] = IF a - offset \in 0 .. len - 1 THEN a - offset + 1 ELSE 0
      <4> SUFFICES ASSUME NEW a \in 0 .. Size - 1
                   PROVE  dev[a] = IF a - offset \in 0 .. len - 1 THEN a - offset + 1 ELSE 0
        OBVIOUS
      <4>1. CASE a - offset \in 0 .. len - 1
        <5>1. a \in offset .. devres_offset - 1
          BY <2>1, <3>4, <4>1, Numbers
        <5> QED
          BY <3>5, <4>1, <5>1 DEF Right
      <4>2. CASE a - offset \notin 0 .. len - 1
        BY <3>2, <4>2 DEF InPlace
      <4> QED
        BY <4>1, <4>2
    <3> QED
      BY <2>1, <3>6 DEF Values
  <2>4. NothingLeft
    <3> SUFFICES ASSUME pc = "done", h2c = <<>> \/ fatal = "done", c2h = <<>>, NEW i \in Block
                 PROVE  ~is_mapped[i] /\ ~copy[i] /\ (i \notin orphan => m_readers[i] = 0 /\ ~m_scheduled[i])
      BY DEF NothingLeft
    <3>1. ~is_mapped[i] /\ ~copy[i]
      BY <2>1 DEF Over
    <3>2. Ended = {} /\ (h2c = <<>> => Todo = {})
      BY EmptySeq DEF Ended, Todo
    <3>3. fatal # "failed" /\ fatal \in {"no", "failed", "done"}
      BY <2>1 DEF Functions, TypeOK
    <3>4. m_scheduled[i] => i \in orphan
      BY <2>1, <3>2, <3>3 DEF Held
    <3>5. i \notin orphan => m_readers[i] = 0
      BY <2>1, <3>4 DEF Locks
    <3> QED
      BY <3>1, <3>4, <3>5
  <2> QED
    BY <2>1, <2>2, <2>3, <2>4 DEF LoadRight
<1> QED
  BY <1>1, WholeInductive, PTL
==============================================================================
