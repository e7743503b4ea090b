------------------------------ MODULE StreamLoad ------------------------------
(***************************************************************************)
(* nnpdrvDeviceResourceSubLoadFromStream (src/nnpi_drv/nnpiInference.cpp): *)
(* a stream is read into two blocks of host memory in turn, and each block *)
(* is copied to a device resource while the other one is filled.  Files    *)
(* and buffers (nnpdrvCreateDeviceResourceFromFile,                        *)
(* nnpdrvDeviceResourceSubLoad) are loaded this way.  The locks of the     *)
(* blocks and the sub-resource copies are those of nnpiHostProc.cpp and    *)
(* nnpiCopyCommand.h.                                                      *)
(*                                                                         *)
(* Byte p of the stream is the number p.  The response thread and the card *)
(* run beside the loader; a copy may fail, and the context may break: on a *)
(* context-fatal event the copies under way still end, on a card-fatal one *)
(* the host fails them, before it marks the context as broken.             *)
(***************************************************************************)
EXTENDS Integers, Sequences, FiniteSets, FiniteSetsExt

CONSTANTS
    Page, MaxBlock,  \* NNP_PAGE_SIZE, MAX_BLOCK_SIZE
    Size,            \* of the device resource
    Two64,           \* sizes and offsets are uint64_t: arithmetic is modulo this
    Offsets,         \* the offsets that callers give
    MaxLen,          \* bound: bytes of the stream
    MaxFails         \* bound: calls, reads and copies that fail, and events

ASSUME LoadAssumption ==
    /\ {Page, MaxBlock, Size, Two64} \subseteq Nat \ {0} /\ {MaxLen, MaxFails} \subseteq Nat
    /\ Page <= MaxBlock /\ MaxBlock <= Page * 2 ^ 16  \* a block_size is reached
    /\ Size + 2 * MaxBlock < Two64 /\ Offsets \subseteq 0 .. Two64 - 1

Block == 0 .. 1   \* nblocks is 2

VARIABLES
    pc, ret,            \* the loader: position and result
    offset, len,        \* its offset, the stream's length
    pos,                \* bytes read of the stream
    block_idx, n, devres_offset,
    made, is_mapped, copy,  \* [Block -> BOOLEAN]: hostres[i], is_mapped[i] and copy[i] exist
    mem,                \* [Block -> bytes read into it last]
    m_readers, m_failed_copy_ops,  \* of the host resource of each block
    m_scheduled, m_hostres,        \* of its copy: m_hostres is set?
    m_critical_error,   \* the context is broken
    fatal,              \* a card-fatal event is being handled: copies were failed, broken is next
    h2c, c2h,           \* copies to do (with the bytes they are for: history), events
    dev,                \* the device resource: [0 .. Size - 1 -> byte of the stream, or 0]
    fails,
    orphan,             \* history: blocks scheduled after their copies were failed
    crash               \* history: postSchedule of a copy without host resource

loaderVars == <<offset, len, block_idx, n, devres_offset>>
blockVars == <<made, is_mapped, copy>>
lockVars == <<m_readers, m_failed_copy_ops, m_scheduled, m_hostres>>
cardVars == <<h2c, c2h, dev>>
vars == <<pc, ret, pos, loaderVars, blockVars, mem, lockVars, m_critical_error, fatal, cardVars, fails, orphan, crash>>

\* calcOptimalBlockSize: a page, doubled until it is as large as the size or MAX_BLOCK_SIZE.
calcOptimalBlockSize(size) ==
    Min({b \in {Page * 2 ^ k : k \in 0 .. 16} : b >= size \/ b >= MaxBlock})

block_size == calcOptimalBlockSize((Size - offset) % Two64)

Init ==
    /\ pc = "block" /\ ret = "ok" /\ offset \in Offsets /\ len \in 0 .. MaxLen
    /\ pos = 0 /\ block_idx = 0 /\ n = 0 /\ devres_offset = offset
    /\ made = [i \in Block |-> FALSE] /\ is_mapped = made /\ copy = made
    /\ mem = [i \in Block |-> <<>>]
    /\ m_readers = [i \in Block |-> 0] /\ m_failed_copy_ops = [i \in Block |-> 0]
    /\ m_scheduled = [i \in Block |-> FALSE] /\ m_hostres = [i \in Block |-> FALSE]
    /\ m_critical_error = FALSE /\ fatal = "no"
    /\ h2c = <<>> /\ c2h = <<>> /\ dev = [a \in 0 .. Size - 1 |-> 0]
    /\ fails = 0 /\ orphan = {} /\ crash = FALSE

Fails == fails < MaxFails /\ fails' = fails + 1
Stop(r) == pc' = "end" /\ ret' = r

-----------------------------------------------------------------------------
(***************************************************************************)
(* The loop                                                                *)
(***************************************************************************)

\* The first time, a block is created, mapped and given a copy command.
prepare ==
    /\ pc = "block"
    /\ IF made[block_idx]
       THEN pc' = "lock" /\ UNCHANGED <<ret, blockVars, fails>>
       ELSE \E stage \in 0 .. 3 :
              /\ made' = [made EXCEPT ![block_idx] = stage >= 1]
              /\ is_mapped' = [is_mapped EXCEPT ![block_idx] = stage >= 2]
              /\ copy' = [copy EXCEPT ![block_idx] = stage = 3]
              /\ \/ stage = 3 /\ ~m_critical_error /\ pc' = "lock" /\ UNCHANGED <<ret, fails>>
                 \/ stage = 2 /\ m_critical_error /\ Stop("context_broken") /\ UNCHANGED fails
                 \/ stage < 3 /\ Fails /\ Stop("io_error")
    /\ UNCHANGED <<loaderVars, pos, mem, lockVars, m_critical_error, fatal, cardVars, orphan, crash>>

\* lock_cpu_access(UINT32_MAX, true): waits until no copy reads the block; broken()
\* and a begin_cpu_access that fails leave it unlocked.
lock_cpu_access ==
    /\ pc = "lock"
    /\ IF m_readers[block_idx] # 0 THEN pc' = "asleep" /\ UNCHANGED <<ret, m_readers, fails>>
       ELSE IF m_failed_copy_ops[block_idx] > 0 THEN Stop("context_broken") /\ UNCHANGED <<m_readers, fails>>
       ELSE \/ /\ pc' = "read" /\ UNCHANGED <<ret, fails>>
               /\ m_readers' = [m_readers EXCEPT ![block_idx] = -1]
            \/ Fails /\ Stop("sync_failed") /\ UNCHANGED m_readers
    /\ UNCHANGED <<loaderVars, pos, blockVars, mem, m_failed_copy_ops, m_scheduled, m_hostres,
                   m_critical_error, fatal, cardVars, orphan, crash>>

\* read_cb: a block, what is left of the stream, nothing, or an error (-1).
read_cb ==
    /\ pc = "read" /\ pc' = "unlock"
    /\ \/ /\ n' = Min({block_size, len - pos}) /\ pos' = pos + n' /\ UNCHANGED fails
          /\ mem' = [mem EXCEPT ![block_idx] = [k \in 1 .. n' |-> pos + k]]
       \/ Fails /\ n' = -1 /\ UNCHANGED <<pos, mem>>
    /\ UNCHANGED <<ret, offset, len, block_idx, devres_offset, blockVars, lockVars, m_critical_error, fatal,
                   cardVars, orphan, crash>>

\* unlock_cpu_access, and what the loop makes of n.
unlock_cpu_access ==
    /\ pc = "unlock" /\ m_readers' = [m_readers EXCEPT ![block_idx] = 0]
    /\ \/ n < 0 /\ Stop("io_error") /\ UNCHANGED fails
       \/ n >= 0 /\ Fails /\ Stop("sync_failed")
       \/ n = 0 /\ pc' = "drain" /\ UNCHANGED <<ret, fails>>
       \/ n > 0 /\ pc' = "schedule" /\ UNCHANGED <<ret, fails>>
    /\ UNCHANGED <<loaderVars, pos, blockVars, mem, m_failed_copy_ops, m_scheduled, m_hostres,
                   m_critical_error, fatal, cardVars, orphan, crash>>

\* schedule of a sub-resource copy: the tests, and preSchedule, which takes the
\* device's lock and sets m_scheduled.
schedule ==
    /\ pc = "schedule"
    /\ IF m_critical_error THEN Stop("context_broken") /\ UNCHANGED <<m_readers, m_scheduled, orphan>>
       ELSE IF (devres_offset + n) % Two64 > Size
       THEN Stop("invalid_argument") /\ UNCHANGED <<m_readers, m_scheduled, orphan>>
       ELSE /\ pc' = "send" /\ UNCHANGED ret
            /\ m_readers' = [m_readers EXCEPT ![block_idx] = @ + 1]
            /\ m_scheduled' = [m_scheduled EXCEPT ![block_idx] = TRUE]
            /\ orphan' = IF fatal = "failed" THEN orphan \cup {block_idx} ELSE orphan
    /\ UNCHANGED <<loaderVars, pos, blockVars, mem, m_failed_copy_ops, m_hostres,
                   m_critical_error, fatal, cardVars, fails, crash>>

\* Mutant: the offset advances by one more than what was read.
schedule_send_skips ==
    /\ pc = "send"
    /\ h2c' = Append(h2c, [i |-> block_idx, at |-> devres_offset, bytes |-> mem[block_idx]])
    /\ m_hostres' = [m_hostres EXCEPT ![block_idx] = TRUE]
    /\ devres_offset' = (devres_offset + block_size + 1) % Two64
    /\ block_idx' = (block_idx + 1) % 2
    /\ pc' = IF n = block_size THEN "block" ELSE "drain"
    /\ UNCHANGED <<ret, m_readers, m_scheduled, fails, offset, len, n, pos, blockVars, mem, m_failed_copy_ops,
                   m_critical_error, fatal, c2h, dev, orphan, crash>>

\* Then m_hostres is set and the command written; if it cannot be, postSchedule.
\* The loop goes on with the other block, unless this one was not full.
schedule_send ==
    /\ pc = "send"
    /\ \/ /\ h2c' = Append(h2c, [i |-> block_idx, at |-> devres_offset, bytes |-> mem[block_idx]])
          /\ m_hostres' = [m_hostres EXCEPT ![block_idx] = TRUE]
          /\ devres_offset' = (devres_offset + n) % Two64
          /\ block_idx' = (block_idx + 1) % 2
          /\ pc' = IF n = block_size THEN "block" ELSE "drain"
          /\ UNCHANGED <<ret, m_readers, m_scheduled, fails>>
       \/ /\ Fails /\ Stop("io_error")
          /\ m_readers' = [m_readers EXCEPT ![block_idx] = IF m_scheduled[block_idx] THEN @ - 1 ELSE @]
          /\ m_scheduled' = [m_scheduled EXCEPT ![block_idx] = FALSE]
          /\ UNCHANGED <<h2c, m_hostres, devres_offset, block_idx>>
    /\ UNCHANGED <<offset, len, n, pos, blockVars, mem, m_failed_copy_ops, m_critical_error, fatal, c2h, dev, orphan, crash>>

\* Mutant: the last copies are not waited for.
drain_not ==
    /\ pc = "drain" /\ Stop("ok")
    /\ UNCHANGED <<loaderVars, pos, blockVars, mem, lockVars, m_critical_error, fatal, cardVars, fails, orphan, crash>>

\* The copies under way are waited for by locking and unlocking the blocks one
\* after the other; what the locks return is not looked at.
drain ==
    /\ pc = "drain"
    /\ IF \E i \in Block : made[i] /\ m_readers[i] # 0 THEN pc' = "drain_asleep" /\ UNCHANGED ret ELSE Stop("ok")
    /\ UNCHANGED <<loaderVars, pos, blockVars, mem, lockVars, m_critical_error, fatal, cardVars, fails, orphan, crash>>

\* On every path: unmapHostResource and the destruction of the copies.
end ==
    /\ pc = "end" /\ pc' = "done"
    /\ is_mapped' = [i \in Block |-> FALSE] /\ copy' = [i \in Block |-> FALSE]
    /\ UNCHANGED <<ret, loaderVars, pos, made, mem, lockVars, m_critical_error, fatal, cardVars, fails, orphan, crash>>

-----------------------------------------------------------------------------
(***************************************************************************)
(* The response thread                                                     *)
(***************************************************************************)

\* unlock_device_access notifies who waits for the block.
Wake == pc' = CASE pc = "asleep" -> "lock" [] pc = "drain_asleep" -> "drain" [] OTHER -> pc

\* Mutant: the notification is lost.
postSchedule_silent(S, failed) ==
    /\ m_scheduled' = [i \in Block |-> m_scheduled[i] /\ i \notin S]
    /\ m_readers' = [i \in Block |-> IF i \in S THEN m_readers[i] - 1 ELSE m_readers[i]]
    /\ m_failed_copy_ops' = [i \in Block |-> IF i \in S /\ failed THEN m_failed_copy_ops[i] + 1 ELSE m_failed_copy_ops[i]]
    /\ m_hostres' = [i \in Block |-> m_hostres[i] /\ i \notin S]
    /\ crash' = (crash \/ \E i \in S : ~m_hostres[i])
    /\ UNCHANGED pc

\* postSchedule of the copies S that are scheduled, after a failure or not: a
\* failed one is recorded in its host resource, through m_hostres.
postSchedule(S, failed) ==
    /\ m_scheduled' = [i \in Block |-> m_scheduled[i] /\ i \notin S]
    /\ m_readers' = [i \in Block |-> IF i \in S THEN m_readers[i] - 1 ELSE m_readers[i]]
    /\ m_failed_copy_ops' = [i \in Block |-> IF i \in S /\ failed THEN m_failed_copy_ops[i] + 1 ELSE m_failed_copy_ops[i]]
    /\ m_hostres' = [i \in Block |-> m_hostres[i] /\ i \notin S]
    /\ crash' = (crash \/ \E i \in S : ~m_hostres[i])
    /\ IF S = {} THEN UNCHANGED pc ELSE Wake

\* EXECUTE_COPY_SUBRES_SUCCESS and _FAILED
copy_event ==
    /\ c2h # <<>> /\ Head(c2h).op \in {"success", "failed"} /\ c2h' = Tail(c2h)
    /\ postSchedule({i \in {Head(c2h).i} : m_scheduled[i]}, Head(c2h).op = "failed")
    /\ UNCHANGED <<ret, loaderVars, pos, blockVars, mem, m_critical_error, fatal, h2c, dev, fails, orphan>>

context_fatal ==
    /\ c2h # <<>> /\ Head(c2h).op = "context_fatal" /\ c2h' = Tail(c2h)
    /\ m_critical_error' = TRUE
    /\ UNCHANGED <<pc, ret, loaderVars, pos, blockVars, mem, lockVars, fatal, h2c, dev, fails, orphan, crash>>

\* A card-fatal event: failAllScheduledCopyCommands first,
card_fatal ==
    /\ c2h # <<>> /\ Head(c2h).op = "card_fatal" /\ fatal = "no" /\ fatal' = "failed"
    /\ postSchedule({i \in Block : m_scheduled[i]}, TRUE)
    /\ UNCHANGED <<ret, loaderVars, pos, blockVars, mem, m_critical_error, cardVars, fails, orphan>>

\* then the context is broken.
card_fatal_broken ==
    /\ fatal = "failed" /\ fatal' = "done" /\ m_critical_error' = TRUE /\ c2h' = Tail(c2h)
    /\ UNCHANGED <<pc, ret, loaderVars, pos, blockVars, mem, lockVars, h2c, dev, fails, orphan, crash>>

-----------------------------------------------------------------------------
(***************************************************************************)
(* The card                                                                *)
(***************************************************************************)

Dead == fatal # "no" \/ \E k \in DOMAIN c2h : c2h[k].op = "card_fatal"
Host == <<pc, ret, loaderVars, pos, blockVars, mem, lockVars, m_critical_error, fatal, orphan, crash>>

\* The next copy, of what is in the block now; or it fails.
card_copies ==
    /\ h2c # <<>> /\ ~Dead /\ h2c' = Tail(h2c)
    /\ LET m == Head(h2c) IN
       \/ /\ dev' = [a \in DOMAIN dev |-> IF a - m.at \in 0 .. Len(m.bytes) - 1 THEN mem[m.i][a - m.at + 1] ELSE dev[a]]
          /\ c2h' = Append(c2h, [op |-> "success", i |-> m.i]) /\ UNCHANGED fails
       \/ Fails /\ c2h' = Append(c2h, [op |-> "failed", i |-> m.i]) /\ UNCHANGED dev
    /\ UNCHANGED Host

card_event ==
    /\ Fails /\ ~Dead
    /\ \E o \in {"context_fatal", "card_fatal"} : c2h' = Append(c2h, [op |-> o, i |-> 0])
    /\ UNCHANGED <<Host, h2c, dev>>

Loader == prepare \/ lock_cpu_access \/ read_cb \/ unlock_cpu_access \/ schedule \/ schedule_send \/ drain \/ end
Respond == copy_event \/ context_fatal \/ card_fatal \/ card_fatal_broken

Next == Loader \/ Respond \/ card_copies \/ card_event

Spec == Init /\ [][Next]_vars

\* The loader and the response thread run while they can, and a live card copies.
FairSpec == Spec /\ WF_vars(Loader) /\ WF_vars(Respond) /\ WF_vars(card_copies)

-----------------------------------------------------------------------------
(***************************************************************************)
(* Properties                                                              *)
(***************************************************************************)

TypeOK ==
    /\ pc \in {"block", "lock", "asleep", "read", "unlock", "schedule", "send", "drain", "drain_asleep", "end", "done"}
    /\ ret \in {"ok", "io_error", "context_broken", "sync_failed", "invalid_argument"}
    /\ pos \in 0 .. len /\ n \in -1 .. block_size /\ block_idx \in Block /\ devres_offset \in 0 .. Two64 - 1
    /\ {made, is_mapped, copy, m_scheduled, m_hostres} \subseteq [Block -> BOOLEAN]
    /\ \A i \in Block : m_readers[i] \in -1 .. 1 /\ m_failed_copy_ops[i] \in 0 .. MaxFails
    /\ fatal \in {"no", "failed", "done"} /\ m_critical_error \in BOOLEAN

\* A block is not filled again before the card has copied it: each copy that the
\* card has still to do finds the bytes it was scheduled for.  (A copy that the
\* host has failed after a fatal event no longer counts.)
BlockIntact == ~Dead => \A k \in DOMAIN h2c : mem[h2c[k].i] = h2c[k].bytes

\* The card never has a copy to do from a block that is no longer mapped for its
\* channel; except after a load that failed, which does not wait for the other block.
MappedWhileCopied == ret = "ok" /\ ~Dead => \A k \in DOMAIN h2c : is_mapped[h2c[k].i] /\ copy[h2c[k].i]

\* Each copy is for a piece of the device resource, however long the stream is
\* and wherever the load starts; unless the sum of offset and size wraps around,
\* which the test of schedule does not notice.
InsideResource ==
    \A k \in DOMAIN h2c : LET e == h2c[k].at + Len(h2c[k].bytes) IN e < Two64 => e <= Size

\* A load that reports success has put the whole stream in its place, and nothing
\* anywhere else; for an offset inside the resource, and unless a copy failed
\* after the last lock of its block, which the loader does not notice.
LoadedRight ==
    pc = "done" /\ ret = "ok" /\ offset <= Size /\ (\A i \in Block : m_failed_copy_ops[i] = 0) /\ ~Dead =>
        dev = [a \in 0 .. Size - 1 |-> IF a - offset \in 0 .. len - 1 THEN a - offset + 1 ELSE 0]

\* Once the load is over and its events are handled, every lock is free and no
\* mapping or copy is left, whichever step failed; except a block that was scheduled
\* between the failing of all copies and the breaking of the context.
NothingLeft ==
    pc = "done" /\ (h2c = <<>> \/ fatal = "done") /\ c2h = <<>> /\ ~crash =>
        \A i \in Block : /\ ~is_mapped[i] /\ ~copy[i]
                         /\ i \notin orphan => m_readers[i] = 0 /\ ~m_scheduled[i]

\* The loader returns: a block it waits for is given back, by a copy that ends or
\* by the failing of all copies; with the same exception.
LoadEnds == <>(pc = "done" \/ orphan # {} \/ crash)

\* Filling and copying alternate: what the card is to copy is still mapped and is
\* what was read.
BlocksRight == BlockIntact /\ MappedWhileCopied

\* What a load writes, and what is left of it when it is over.
LoadRight == TypeOK /\ InsideResource /\ LoadedRight /\ NothingLeft
==============================================================================
