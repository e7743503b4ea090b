# A TLA+ model of the NNP-I host driver library

nnpi-host is the user-mode driver of Intel's NNP-I inference cards: a C++
library with a C API (`src/include/nnpdrvInference.h`) that talks to a kernel
driver through a channel per inference context. This directory holds TLA+
modules of its parts, TLC configurations that check them on small instances,
and TLAPS proofs for every value of the constants. Paths below are relative to
the repository root; files without a directory are in `src/nnpi_drv/`.

## 1. The system

The application's threads call the API. Every context has one **channel** (a
file descriptor) to its card and one **response thread** that reads the card's
messages and applies them to the context's objects. Threads wait for the
response thread on `nnpiWaitQueue`s: a mutex with a condition variable on which
all waiters are notified together. Commands too long for a message go through a
ring buffer in shared memory, and so do the card's long answers.

| Part | State | Operations | Hard because |
|---|---|---|---|
| Host resource (`nnpiHostProc`) | `m_readers`, `m_cpu_locked`, `m_failed_copy_ops` | lock/unlock for the CPU (blocking, with timeout), lock/unlock for the device | a hand-made readers/writer lock, partly tested without its mutex |
| Copy command (`nnpiCopyCommand`) | `m_scheduled` | schedule, preSchedule, postSchedule | the scheduling thread and the response thread share a plain bool |
| Command ring (`nnpiRingBuffer`) | head, tail, full flag, invalid flag | lockFreeSpace, unlockFreeSpace, updateHead, setInvalid | several senders, one card; full or empty at head = tail |
| Id allocator (`nnpiIDA`) | free ranges, count | alloc, free | boundaries of ranges, unsigned arithmetic |
| Context (`nnpiInfContext`) | critical error, answers to creates, finalizes in progress, object database, ids | create, wait for the answer, destroy, recover, response handler | answers, errors and recoveries arrive in any order; ids are reused |
| Markers (`SyncPoint`) | last created and completed sync point, failed ones | createMarker, waitMarker | 16-bit wrap around, stale failures |
| Command list (`nnpiCommandList`) | vector of parameters, edits, completion, error list | append, overwrite, finalize, schedule, wait, clearErrors | locks several resources with undo; packs edits into pages; waits with its mutex held |
| Error list (`nnpiExecErrorList`), response ring | packets, state; head and tail | query, append, clear | assembled from packets by the response thread while other threads restart it |
| Channel, active contexts (`nnpiChannel`) | killed flags, response thread, group of contexts | create, kill, kill_all, exit | objects that own themselves; teardown from three threads |
| Network, request (`nnpiDevNet`, `nnpiInfReq`) | ids, resources, handles | create, add resources, set property, destroy | shared answer keys, ids lost on failure, find and remove apart |
| Stream load (`nnpiInference.cpp`) | two blocks, offsets | fill, copy, drain, clean up | two blocks in flight; gives up half way; unsigned sums |
| Device (`nnpiDevice`) | cache of devices | ioctl and sysfs | input and output |

Interactions: schedule() of a copy locks its host resource and writes to the
channel; the response thread's postSchedule unlocks it. Creates allocate an id,
write to the channel (through a command ring for networks, requests and command
lists) and wait for `m_create_reply`. The response thread frees an id when the
card confirms a destruction. A fatal event makes the response thread fail all
scheduled copies, set the critical error, wake everybody and, if the card is
lost, clear the database, invalidate the rings and exit. The last references of
a context and its channel are dropped by that thread or by the application.

What makes each part correct: the lock excludes conflicting users, counts
exactly and is released in the end; failed data is not handed out; the ring
loses and overwrites nothing; an id has one owner; a create gets the answer to
its own request; the card has what the application asked for last; a completed
marker is complete; no error is forgotten; nothing is used after its end; nobody
waits for ever. `PROJECT.json` lists under `hazards` the places where this can
go wrong, with the properties that watch them.

## 2. Modules

| Module | Models | Composes |
|---|---|---|
| `HostRes` | `nnpiHostRes` as a lock: CPU threads as actions, device side as operators | |
| `CopyCommand` | `schedule`, `preSchedule`, `postSchedule`, the copy part of the response handler, `failAllScheduledCopyCommands`, `recover` as far as copies see it | extends `HostRes` |
| `RWLock` | abstract: any number of readers or one writer | refined by `CopyCommand` |
| `CmdRing` | `nnpiRingBuffer` as command ring, with its senders and the card | |
| `BoundedFifo` | abstract: a queue with a capacity | refined by `CmdRing` |
| `IDA` | `nnpiIDA` | |
| `InfContext` | create, answer, destroy, critical errors and recover of a context | uses of `IDA` what is proved of it |
| `CmdListEdits` | a command list's entries: append, batching, overwrite, `send_to_card` | |
| `CommandList` | a finalized list: schedule with locks and undo, complete, wait, clearErrors | extends `HostRes` |
| `Marker` | `SyncPoint`, `createMarker`, `waitMarker`, the events of syncs | |
| `ErrorList` | `nnpiExecErrorList`, the response ring, `waitCriticalError`, `recover`, `processExecErrorList` | |
| `ContextLife` | creation and end of contexts, channels and response threads, `nnpdrvFin` | |
| `StreamLoad` | `nnpdrvDeviceResourceSubLoadFromStream` with sub-resource copies | |
| `Network` | `nnpiDevNet`, `nnpiInfReq` and their handles | extends `IDA` |
| `CommandProofs`, `CommandListProofs`, `InfContextProofs`, `MarkerProofs`, `ErrorListProofs`, `ContextLifeProofs`, `StreamLoadProofs`, `NetworkProofs` | theorems | extend their module; `CommandProofs` is about `CopyCommand` and `CmdListEdits`, `CommandListProofs` also about `CmdRing`, `NetworkProofs` about `IDA` |
| `MCCopy`, `MCRing`, `MCContext`, `MCEdits`, `MCList`, `MCMarker`, `MCErrors`, `MCLife`, `MCLoad`, `MCNet` | instances for TLC | extend their module |

Variables have the names of the members they stand for. A section under a
mutex is one step; what the code reads or writes without it is a step of its
own. `pc`-like variables say where a thread is in a call, and variables marked
*history* in their declaration are not in the code: properties alone read them.

### HostRes and CopyCommand

`lock_cpu_access` is `lock_cpu_access_test` (the unlocked test of
`m_cpu_locked`), then `_take`, `_fail`, `_sleep` or `_timeout`; `schedule` is
`schedule_check`, `schedule_lock`, `schedule_mark`, `schedule_send` or
`schedule_fail`, and its undo is `undo_test`, `undo_clear`, `undo_unlock`; the
response thread's postSchedule is `copy_event`, `resp_clear`, `resp_unlock`.
`card_fatal`, `fail_copy` and `fail_done` are the handling of a lost card,
`context_fatal`, `recover`, `clearRequestSucceeded` and `recover_fail` that of a
broken context. A sleeping thread wakes by a notification or spuriously.

Three constants say what the application and the card do:
`RescheduleInFlight` (a copy is scheduled again before the first run is over),
`CardFails`, and `RaceCardFailure` (also while a schedule() is running).

### CmdRing and IDA

In `CmdRing` the unit is the page, which is what every caller reserves. `owner`
is the thread between `lockFreeSpace` and `unlockFreeSpace`, which hold and
release the mutex. `chan` is what the channel holds for the card, `mem` the
shared memory. In `IDA`, `m_free_ranges` is the `std::map` of the code, as a
function, and `held` what callers have. Arithmetic is modulo `Two32`, so that
`id - 1` at id 0 is what the code computes.

### InfContext

Threads create objects of one kind each (`Does`). `pc` walks through *alloc*,
*counted* (command lists only), *wait*/*asleep*, *created*/*failed*, *have*.
`send` takes the context's mutex, which `wait_create_command` gives back, except
for command lists, as in the code. `m_critical_error` distinguishes what the code
does: *context* (context-fatal), *fatal* (fatal for the card, reported by its own
software), *abort*, *card* (driver-reported, or channel killed, which is what
`card_fatal()` tests). `process_create_reply`, `destroyed`, `critical_error`,
`errors_cleared` and `response_exit` are the branches of `response_handler`.
`by` in an answer is history: the request it answers. The card (`card_answer`,
`card_breaks`, `card_dies`) is external: it answers in order, may refuse, and
once it is lost the driver refuses writes. Each handle is destroyed once.

### CmdListEdits and CommandList

A command list is modelled twice. `CmdListEdits` has its contents: `m_vec` with
its flags and counters, `append`, the overwrites, and the two loops as steps:
`optimize_batch_copies` takes an entry a round (`batch_none`, `batch_on`,
`batch_last`, `batch_break`, with `new_list`, and `start` for `first_copy_cmd`),
and `send_to_card` packs item by item (`pack_header`, `pack_command`, `pack_over`,
`pack_end` between `page_begin` and `page_sent`) with the bytes that an item takes:
`pos` is the entry, `sub` the copy in a copy list. Commands have numbers in the
order of the appends; `cmd` has what the application set for each. `card.tab` is
what the card has put together, `page_read` what it will have with the page that
is being filled, `want` (history) what was asked for. `Overlap` says whether the
list is edited while another thread sends it.

`CommandList` has a finalized list in use: `Vec` is `m_vec` after batching, and a
schedule takes the locks entry by entry and copy by copy: `sched` is the entry, the
copy in it and, when one is busy (*back*) or the send fails (*all*), how many
copies of the entry are to release. The response thread's
events are `post` (copies to release) and `calls` (the calls of the list after
that). Within a
copy the lock and `m_scheduled` change in one step, as the races inside it are
those of `CopyCommand`. `ClearInFlight` says whether errors may be cleared while
the list runs, `FailInClear` whether the query of a wait may fail to be sent while
clearErrors waits for its own. `CallsEnd` holds also when the context breaks: the
events of a break complete the list and wake who waits. It ends with the recover
(`Recovered`), for what comes then may be a deadlock of the code (section 3).

### Marker

The code has a counter of 16 bits and a bit that flips when it wraps
(`[val, wrap]`). The model also keeps *positions*, the counter with its cycle,
which are never used twice: `made` and `done` are the positions of the two sync
points, and properties compare positions where the code compares values. `Mod`
is the number of values. `Window` states what the code relies on: the counter
stays within one cycle of the last completed sync and of what is waited for.
`failedAt` and `untold` are history: the positions whose sync failed, and those
of them that no waiter was told of. `m_failed_sync_points` holds values, so a
position in `untold` that the counter has left behind breaks the marker that
gets its value next (`Stale`).
`Shared` says whether a marker is waited for twice.

### ErrorList

Two lists, the context's and that of a command list that may be destroyed; the
response ring with one packet in a page; the positions of `waitCriticalError`
(`w`), `recover` (`rec`) and of the query of the command list (`usr`). `recover`
takes an execution error or another one that is fatal for the context only, and
keeps it in `critical_save` to put it back; one of the card or an abort it refuses.
`processExecErrorList` is the response thread's step for a packet: tail, head,
lookup, `appendErrorListPacket`, and the message that gives the page back. The
card sends an answer as it has pages. `asked`, `overlap` and `dropped` are
history.

### ContextLife

Contexts and channels hold a `shared_ptr` to themselves: `ctxThis` and
`chanThis`. Other references are counted from where threads are, so that a
destructor runs (`dtor`) when the last is gone. `u` is the thread that creates
and destroys a context, `op` one that uses it, `resp` its response thread,
`kill` those in `nnpiChannel::kill`, `fin` the one in `nnpdrvFin`. `group` is the
group of active contexts a channel was added to, `s_active` the current one.

### StreamLoad

`pc` follows the loop of the loader: lock a block, read into it, unlock,
schedule its copy, and in the end wait for both. Byte *p* of the stream is the
number *p*, so that `dev` shows what went where. Sums are modulo `Two64`.

### Network

One thread builds the network from files; then threads add resources, set
properties, create and destroy requests and destroy the network. Each call is
its steps: `find_network` or `find_infreq` in the handle map, the tests without
the mutex, `lock`, a `send` per page, the wait under a key of `m_create_reply`,
and what follows the answer. `m_free_ranges` and `m_num_alloc` are those of
`IDA`, whose operators the actions use. `hist` names what happened that a
property is about. How a waiter sleeps and wakes is in `InfContext`.

## 3. Runs

| Run | Question | Bounds |
|---|---|---|
| `copy` | Has one CPU thread at a time a resource, in the mode that `m_cpu_locked` says; is every lock released, also on exit, and failed data withheld? | an input that two CPU threads lock, an output with one, a lockless resource; timeouts but for one thread; three copies; card failure and recovery. Deadlock is checked |
| `copy_rw` | Do readers and a writer of one resource exclude each other, as `RWLock` says, does the counter stay exact, and does a wait end? | two reading copies (so that `m_readers` passes 1), one writing, one CPU thread. Deadlock is checked |
| `ring` | Are pages lost, overwritten or reordered; does every send end? | two pages, the size the code uses; commands of three, two and one pages, so that the ring is full and wraps; failing writes and exit |
| `ctx` | Do ids, objects, answers and counts stay in step through breaks and recovery? | a thread with two creates of copies, one with a command list; two ids; one break, one recovery, one loss of the card |
| `edits` | Does the card have what was asked for last, however it was batched and packed? | three commands of every kind, copy lists of two, pages of 36 bytes (exactly a count and two copies), two overwrites, two sends, one failure |
| `list` | Are resources locked while the card works, until the context breaks; does the list run once, is no failure missed; do waits and clears return, also when the context breaks, until it is recovered? | a copy and a copy list, with single copies of the same resources; two runs, one failure, one break, timeouts, queries and clears that cannot be sent |
| `marker` | Does success mean done, and does a wait return, across wraps? | a counter of three values that wraps twice, two waiters, a failing sync or write, a break or an abort |
| `errors` | Are packets read where they are, is no error forgotten, does every query end? | a ring of two pages and answers of up to three packets; one waiter, recover, a command list; a failing message, an event that is fatal for the context or the card |
| `life` | Does nothing outlive its end or end without its users knowing, do calls and `nnpdrvFin` return? | two contexts of which one may lose its card, its driver or its channel, twice over; a failing step |
| `v_fin_misses` | Does `nnpdrvFin` wait for every context? No | three contexts, no failure |
| `load` | Are blocks intact and mapped while copied, does every byte get to its place, is nothing left locked? | a resource of seven bytes, blocks of one or two, streams of up to eight, offsets inside, at the edge, past the end and where sums wrap around; any three failures |
| `net` | Are ids exact and nobody else's, are resources whole, do answers reach their callers? | three ids, two threads, resources with configuration in two pages, one failure of a step, an answer or the card |

Each bound is a constant named `Max...` or a set in the `MC` module. They suffice
for the interesting cases: an id freed and used again while another's
destruction is pending (`ctx`, `net`), an answer before, during and after a
break (`ctx`), a packet that waits for a page (`errors`), a page exactly full
and one that overflows inside a copy list (`edits`), a counter that comes back
to a failed value (`marker`), a block used a third time (`load`). Deadlock is
not checked where calls are bounded and the system may rest. The type invariant
of a module is the first conjunct of one of its properties, together with small
parts that belong to one question (`IdsRight`, `EditsRight`, `ListRight`,
`PacketsRight`, `EndsRight`, `LoadRight`, `RequestsRight`,
`ResourcesRight`).

`v_fin_misses` is expected to fail: when two channels of a group are removed at
once, the second removal drops the new group that another context was added to
meanwhile, and `nnpdrvFin` returns while that context is alive, though the
comment at `nnpiInference.cpp:60` says otherwise. With two contexts the property
holds; it takes three.

### What the code does not guarantee

The properties say under which conditions they hold. Each condition below
excludes a behaviour of the code that was found with these modules; setting the
constant or dropping the condition shows the trace.

| Behaviour | Where | Excluded by |
|---|---|---|
| two threads pass the unlocked test of `m_cpu_locked` and both hold an output, though the comment at :192 says "Cannot lock for cpu if already locked for cpu"; on an input the wait lets one of them pass | `nnpiHostProc.cpp:193` | `Disciplined`: one CPU thread per resource that is locked for read, for `CpuLockedExact` |
| a host-to-card copy scheduled twice leaves its resource busy with nothing pending | `nnpiCopyCommand.h:56` | `Disciplined`: `RescheduleInFlight = FALSE` |
| a failed schedule and the failing card both unlock | `nnpiCopyCommand.h:75` | `Disciplined`: `RaceCardFailure = FALSE` |
| `unlock_cpu_access` wakes nobody; two threads without timeout on one resource may sleep on | `nnpiHostProc.cpp:250` | one CPU thread per resource in `copy_rw`, which checks `WaitEnds` |
| a create after recovery takes the answer to one from before | `nnpiInfContext.cpp:85` | `AnswerIsMineUnlessRecovered` |
| recover takes the error away from a create that sleeps with the mutex | `nnpiInfContext.cpp:857` | `CreateEndsUnlessRecovered`, `RecoverEndsWhileAlive` |
| clearErrors of a running list keeps the mutex that the response thread needs | `nnpiCommandList.cpp:285` | `ClearInFlight = FALSE` |
| the context breaks while clearErrors waits with that mutex, the response thread sleeps on it in `completeAllCommandLists`, and recover zeroes the error before clearErrors looks: neither goes on, and with them no wait of the list. The same after a break that was recovered, when the old run is reported complete | `nnpiCommandList.cpp:287`, `nnpiInfContext.cpp:857` | `Recovered` in `ClearEnds` and `WaitReturns` |
| a wait whose query cannot be sent has restarted the query that clearErrors waits for, which then keeps the mutex for ever | `nnpiCommandList.cpp:336` | `FailInClear = FALSE` |
| the undo of a copy list begins with the copy that could not be locked | `nnpiCommandList.h:183` | the copies of a copy list are not scheduled on their own in `MCList` |
| after a break and recover, the undo of a busy copy list releases a copy that the card may still run from before | `nnpiCommandList.h:190` | `broke = 0` in `LockHeldOnCard` |
| a wait that timed out unlocks the list's mutex once more | `nnpiCommandList.cpp:332` | `wait # "late"` in `ListIsRight`, `NoFailureIsMissed` |
| a list edited while another thread sends it, or between `get_cmd_for_overwrite` and `overwrite`, miscounts or loses the edit | `nnpiCommandList.cpp:262` | `overlapped` in `Undisturbed`; `Overlap = FALSE` in the run |
| a send that fails drops the edits that it has not sent | `nnpiCommandList.cpp:160` | `failed` in `Undisturbed` |
| a failed marker that nobody waits for breaks the marker with its value in a later cycle | `nnpiInfContext.h:58` | `Stale` in `BrokenIsFailed` |
| an error that arrives as `waitCriticalError` times out, or whose query cannot be sent, is dropped | `nnpiInfContext.cpp:804` | `dropped` in `ErrorNotForgotten` |
| a recover that cannot send puts the error back and wakes nobody | `nnpiInfContext.cpp:863` | `fails > 0` in `QueryEnds` |
| two queries of one list mix their packets | `nnpiInfContext.cpp:878` | `overlap` in `AssembledRight` |
| a context whose thread ends before create set `m_this` is never freed | `nnpiInfContext.cpp:199` | `leaked` in `NotLeaked`, `FinEnds` |
| a card that dies when `nnpdrvFin` already waits; a channel freed while it is about to be killed | `nnpiInference.cpp:57`, `nnpiChannel.cpp:78` | `late`, `crash` in `FinEnds` |
| a load that fails does not wait for the other block; a copy that fails after its block's last lock goes unnoticed | `nnpiInference.cpp:738` | `ret = "ok"` in `MappedWhileCopied`, the failed copies in `LoadedRight` |
| offset and size of a sub-resource copy wrap around | `nnpiCopyCommand.h:144` | `e < Two64` in `InsideResource` |
| a copy scheduled between the failing of all copies and the breaking of the context stays locked | `nnpiInfContext.cpp:937` | `orphan` in `NothingLeft`, `LoadEnds` |
| a property and another command on the network share one answer | `nnpiDevNet.cpp:184` | `overlap` in `AnswerIsOwn` |
| resources are added under a request begun after the test | `nnpiDevNet.cpp:153` | `raced` in `NoAddUnderRequest` |
| one handle destroyed by two threads hits the id's next owner | `nnpiInference.cpp:1142` | `twice` in `DestroysOwn` |
| the id of a request that failed is lost | `nnpiDevNet.cpp:135` | `leaked` in `IdsAgree` |

Every property of a passing run has a mutant, a changed definition above the
original and marked "Mutant", under which TLC must find the property violated.

### Fairness

Weak fairness of each thread's steps inside a call (the operating system runs
runnable threads), of the response thread (it loops on `read`), and of the card
(it completes what it was given while it is alive; without this no host code
could promise anything). `copy_rw` also assumes that a CPU thread that has the
resource gives it back, and `marker` that a waiter's call returns. In `list` the
last step of clearErrors, the test of wait and the response thread have strong
fairness: they need a mutex, or the end of a query, that others take away in
between and give back, and a mutex that is free again and again is obtained. The
card has to do its work only until its context breaks, so that waits and clears
which return after a break do so without it.
Nothing is assumed of new calls, timeouts, spurious wakeups or failures.

## 4. Proofs

All theorems hold for every value of the constants that the named assumptions
`HostResAssumption`, `CopyAssumption`, `RingAssumption`, `IDAAssumption`,
`ContextAssumption`, `EditsAssumption`, `ListAssumption`, `MarkerAssumption`, `ErrorsAssumption`, `LifeAssumption`,
`LoadAssumption` and `NetworkAssumption` allow; TLC evaluates each in the runs of
its module. `LoadAssumption` says among other things that at most 16 doublings of a
page reach `MAX_BLOCK_SIZE`; in the code 4 do.

* `CommandProofs`, a copy. `TypeCorrect` needs nothing else. `Inductive` shows that
  `IInv` is an invariant when `Disciplined` holds, and gives `ReadersAreExact`,
  `CpuLockedIsExact`, `DmaIsExclusive`, `BusyIsPending` and
  `FailedDataStaysLocked`. `CpuLockedIsExact` is for any number of threads on a
  resource that is locked for write: all of them may pass the unlocked test, the wait
  lets one take the resource, for the count is exact, and its mode is
  `m_cpu_locked` (`CpuMode`). `ReadersExact` alone is not inductive: a step that
  unlocks for a copy must know that the copy is still accounted for, once.
  `CopyStages` says who stands for the lock of a copy at each point: `m_scheduled`,
  the scheduling thread or the response thread; `RespOne` and `CardQuiet` keep the
  response thread's two roles apart; `FailRecorded` says that a failure is in the
  resource before it is unlocked. The counting itself is in four lemmas about a
  number that stands for a set of owners (`AddReader`, `AddWriter`,
  `RemoveReader`, `RemoveWriter`). `ImplementsLock` is the refinement of `RWLock`:
  a step changes what one actor has of one resource, or nothing (`CopyMoves`,
  `OneMoves`), and since the count is exact before and after it, a change is one
  that the abstract lock allows (`WriterAlone`). `ExitIsClean` needs no
  discipline: a response thread that exits after a fatal event has visited every
  copy that was scheduled (`Released`), and a dead one releases no more
  (`DeadQuiet`).
* `CommandProofs`, the commands of a list, for lists, pages and batches of any size
  and edits at any time. `ListWellFormed` is what holds whatever fails or overlaps:
  the entries have the commands 1, 2, ... in order (`Chain`), each is what its type
  says (`VecOK`), and in the middle of `optimize_batch_copies` the new list is a
  chain up to the batch that is open, whose entries are copies of one direction
  (`Run`). From it follow `EditsBatchesRight`, and that `get_cmd_for_overwrite`,
  which subtracts the sizes of the entries one by one, finds the command that was
  meant (`Finds`). `EditsInvariant` has the rest, as long as no send failed and no
  edit overlapped one (`Undisturbed`). Neither counters nor card are right in the
  middle of a send; what holds there is `Half`: entries before `pos` have nothing
  left, those behind it are counted, a copy list whose header is packed has as many
  edited copies to go as the card still expects for it, and the entries that the
  card has read and those still edited add up to what the first page announced. Where
  a page ends does not matter to it. `AllEdited` says
  that before the first send all is edited, so that a copy list may be made with
  all its copies counted; `Replied` that a finalize that is answered has sent
  everything, so that `Known`, what the card has, is the whole list from then on;
  `Wanted` relates the commands to what was asked for, with the overwrite that is on
  its way. They give `EditsAreRight` and `CardIsUpToDate`.
* `CommandListProofs`, the ring. `RingInductive` shows `RInv`, whose parts beyond
  the properties are: one thread between lock and unlock (`OneOwner`), it has a
  free page (`HasRoom`), a full ring's head and tail meet (`FullMeets`), and the card
  is exactly `consumed` pages past the head the host knows (`CardPlace`).
  `RingIsFifo` is the refinement of `BoundedFifo`, step by step.
* `CommandListProofs`, the list. `ListTypeCorrect` needs nothing else: a failure is
  counted once on its way from the card to the list (`CountsBound`), and each
  resource's failed copies are those in the list's errors (`FailedExact`). The
  others assume `ListDisciplined`: the application has a copy in the list once and
  does not schedule it on its own as well. Without it `m_scheduled`, which is one
  flag, stands for two locks. `StageInv` says that a list in flight is in one stage,
  prepared, queued, run, reported complete or about to be completed (`OneStage`),
  and that the report of completion is the last event of the run
  (`CompleteLast`, `LastEvent`). `CopyInv` says where each copy is, in an event,
  with the response thread or scheduled on its own (`Places`), which copies the
  stage needs scheduled and which may still be to undo (`Needs`, `May` in
  `ListOwn`), and that a lock's count is that of the copies scheduled on it
  (`LocksExact`). This gives `ListKeepsLocks` and `ListRunsRight`. The properties are
  about a context that has not broken yet (`broke = 0`): after a break and a recovery the
  list may be scheduled while its old run is still on the card, and the undo of
  the new schedule then releases what the old run writes. `ErrInv` compares the
  host's count of failures with the card's: a failure is counted or on its way
  (`Tally`), no run overtakes the clearing of errors (`ClearsFirst`), and what the
  host was told of errors still holds unless the word that they are cleared comes
  after it (`Fresh`). With it come `ListIsRight` and `NoFailureIsMissed`, for
  `ClearInFlight = FALSE` and as long as no wait times out: `wait_late`
  takes the mutex from clearErrors or schedule, so `WaitqOwner` fails
  after one. In the run, which has timeouts but one waiter, the two properties
  hold nevertheless.
* `InfContextProofs`. `IdsAreRight`, `CountIsExact` and `AnswersAreMine`, for any
  threads, kinds of objects and ids. What the properties leave out is where an
  object is at every point: its id is with the creating thread, in a request, in
  an answer, with the handle or in an event of its destruction, and these owners
  exclude each other (`Exclusive`, `Kept`, `Lost`, `Found`). That a thread finds
  its own answer holds only until the context was recovered (`Asked`, `Pending`,
  `Awaited`, under `Calm`). `Counted` says that
  `m_cmdlist_finalized_in_progress` counts requests, answers on their way and
  threads about to count down; `AppendLists` and `TailLists` are the lemmas about
  the queues. The count stays exact even after the response thread has gone.
* `MarkerProofs`. `TypeCorrect`, `SyncPointsAreRight` and `SuccessIsDone`: for
  every width of the counter and any number of waiters, the wrap bit tells the
  cycles apart and success means done. `DoneIsDone` alone is not inductive: the
  last completed sync may only move forward (`OnTheirWay`, `InOrder`: what the
  card has and what it reports lies ahead, in order), and a waiter's marker is
  within a cycle of both ends (`Recently`). `LessAt` is the lemma about the
  code's comparison of two sync points. `BrokenIsItsOwn` is an action property:
  every value in `m_failed_sync_points` stands for a failed position nobody was
  told of (`FailedKnown`), and a position near the counter is determined by its
  value (`NearValue`).
* `ContextLifeProofs`. `ThreadsEndFirst` and `EndsAreRight`, for any number of
  contexts. That a context is broken when its thread has ended is not inductive: a
  thread that was killed ends first, and its killer breaks the context later. So
  the invariant says which thread ends why (`Asked`, `Why`), who kills whom
  (`KillsOwn`), and until when context and channel hold themselves (`Fresh`,
  `Owned`, `Released`, `Joined`).
* `StreamLoadProofs`. `BlocksAreRight` and `LoadsAreRight`, for any sizes of blocks, resource and
  stream. The invariant is about the card, the events and the loader together:
  whoever has still to deal with a copy stands for the one reader of its block,
  and no two of them are for the same block (`Once`), so that a loader with
  `m_readers` = -1 is alone (`BlockFree`), and one that has seen both blocks free
  leaves nothing to copy (`DrainKeeps`). Once the card is lost nothing is
  claimed, and it stays lost (`FatalStays`). `LoadRight` speaks of the
  end of a load, and `Whole` of the way there: `Progress` relates the stream's
  position, the offset in the resource and what is read and not yet sent, `InHand`,
  `UnderWay`, `InPlace` and `Arrived` follow each byte from the stream to the card,
  `Failures` bounds what the resources recorded by what failed, so that a
  load that sees no failure missed none, and `Locks` and `Held` say who has a block
  and who ends its copy, so that nothing is left locked. `BlockSize` is the lemma
  about the doubling that finds the size of a block; it rests on the minimum of a set
  of naturals, which the library's `WFMin` gives without induction.
* `ErrorListProofs`. `PacketsAreRight` and `ErrorIsNotForgotten`, for any command
  lists, waiters, ring and answers. That an answer is assembled rightly is not
  inductive: the packets arrive one by one, and in between they are in pages, in
  events and in a buffer. `Ring` ties the card's page to the events that announce
  packets; `Query` says for a list where its query is (`InOnePlace`), that its
  buffer is empty before the first packet (`EmptyBefore`), and that the k-th
  packet on its way is the k-th that the buffer lacks (`Arriving`) as long as no
  two queries of the list overlapped; `Destroyed` that no packet follows the event
  that a list is gone. `Remembered` says who still knows of an error: the context
  is broken, somebody `Holds` it, or the event or the clearing message is in the
  channel. The lemmas about positions in queues are shared by all of them.
* `NetworkProofs`. First the allocator: `IDAInductive` shows that the ranges are
  disjoint and hold exactly the ids nobody holds, and that the count is exact;
  `NoWrap` treats the unsigned arithmetic. Then the network: `NetworkInv` shows
  `NetInv`, the conjunction of eleven parts that the header of the module lists,
  each with a lemma that a step keeps it (`TypesHeld` to `ResourcesHeld`).
  `RequestsAreRight` rests on `Ids` and `Claims` (an id is in one place exactly
  while it is held: with the thread that has not sent it yet, in a request, on the
  card, in an event, with a thread that is going to be refused, or lost) and on
  `Numbered` and `Destroys` (a handle has a number of its own, and its request is
  alive until its destroy has been read, unless two threads destroy one handle at a
  time). `ResourcesAreRight` rests on `Pages` (with other commands between them,
  the pages in the channel continue the chain that the card has read, and the
  thread that sends continues the last one), on `Stage` (what there can be before
  the network is built: nothing but that one command), on `Adds`, and on
  `Resources`: the card has `m_devres_vec` and what threads owe (`Owed`), which
  grows with the last page of a command and shrinks when its thread counts. For
  that, and for `AnswersAreOwn`, `OwnAnswer` says that a command or its answer is
  in one place, and its thread waits there; `HeardSame`, `HeardStored`,
  `HeardAnswered` and `HeardRead` say what a step changes of what a thread is going
  to hear. All of them leave out what the properties leave out, and no more: once
  a property was set in the middle of another command, only requests, which have
  keys of their own, are answered rightly, and that they are is proved all the same.

Only model-checked: `FinWaitsForAll` and every liveness property: liveness under fairness is beyond the prover, as are
ENABLED and induction over data. Loops whose result needs such an induction are
modelled round by round, so that it becomes an invariant (`optimize_batch_copies`,
`send_to_card`); the search of `get_cmd_for_overwrite`, which is one step, is
stated by the number of commands before an entry, which `CountBefore` finds by a
bijection.

## 5. Plan

Done: host resources and copies, command ring, ids, context, command lists,
markers, error lists, channels, stream loads, networks. Left:

1. The pairing of device resources for device-to-device copies, with credits.
2. `close_all` and `destroy` of the fork handlers.

## 6. Not modelled

The peers of device-to-device copies (`nnpiDevRes`), the fork handlers and
`close_all`, `nnpiDevice` and the allocation of memory (input and output: calls
of theirs may fail where the modules use them), logging, tracing and user
handles (no effect on the rest), message layouts (data, except the sizes and
masks in `CmdListEdits`), the texts of execution errors, the `dummy_inference`
sample, the maintenance header and the build files. Undefined behaviour of
`std::mutex` where a timed wait has failed (`nnpiInfContext.cpp:611`,
`nnpiUtils.h:85`) is a hazard without a property: the modules give the waiter
the lock after a timeout, as the standard library does when nobody else has it.
