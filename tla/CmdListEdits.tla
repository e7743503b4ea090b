----------------------------- MODULE CmdListEdits -----------------------------
(***************************************************************************)
(* The commands of an nnpiCommandList (src/nnpi_drv/nnpiCommandList.       *)
(* {h,cpp}) and how the card comes to know them: append, the batching of   *)
(* copies into copy lists, the overwriting of parameters, and send_to_card,*)
(* which packs what was edited into the pages of the command ring.         *)
(*                                                                         *)
(* An entry of m_vec is one command of the user, or a copy list of several *)
(* ones; commands are numbered in the order of the appends.  Flags and     *)
(* counters (m_edited, m_num_edits of the list and of a copy list) are     *)
(* those of the code, and so are the bytes that an item takes in a page.   *)
(* The loops of optimize_batch_copies and of send_to_card are modelled     *)
(* round by round, the latter item by item: one thread edits the list      *)
(* while another sends it, as send_to_card runs without the list's mutex   *)
(* in schedule and with it in finalize.  Of a schedule only the sending is *)
(* modelled here; module CommandList has the rest of it.                   *)
(***************************************************************************)
EXTENDS Integers, Sequences, FiniteSets

CONSTANTS
    Kinds,          \* kinds of commands that are appended
    PageSize,       \* NNP_PAGE_SIZE
    MaxBatch,       \* MAX_COPIES_PER_BATCH
    Overlap,        \* may the list be edited while another thread sends it?
    MaxCmds,        \* bound: commands of a list
    MaxOverwrites,  \* bound: overwrites
    MaxSends,       \* bound: calls of send_to_card
    MaxFailures     \* bound: sends that fail

ASSUME EditsAssumption ==
    /\ Kinds \subseteq {"h2c", "c2h", "d2d", "infreq"}
    /\ PageSize \in Nat /\ PageSize >= 4 + 16
    /\ MaxBatch \in Nat \ {0} /\ Overlap \in BOOLEAN
    /\ {MaxCmds, MaxOverwrites, MaxSends, MaxFailures} \subseteq Nat

\* The parameters of a schedule: priority, size or batch size, and for an
\* inference request whether there are none.
Par == [null : BOOLEAN, prio : {0, 1}, val : {0, 1}]
First == [null |-> FALSE, prio |-> 0, val |-> 0]
NoPar == [null |-> TRUE, prio |-> 0, val |-> 0]
Other == [null |-> FALSE, prio |-> 1, val |-> 1]
ParOf(kind) == IF kind = "infreq" THEN {First, Other, NoPar} ELSE {First, Other}

Entry == [type : {"COPY", "INFREQ", "COPYLIST"}, subs : Seq(Nat), idx : Nat, edited : BOOLEAN, num_edits : Nat]
Command == [kind : Kinds, par : Par, edited : BOOLEAN, idx : Nat]

VARIABLES
    m_vec,        \* the entries: type, commands, index; m_edited, m_num_edits of a copy list
    cmd,          \* the commands: kind, parameters, m_edited, index in a copy list
    m_num_edits, m_finalized,
    batch,        \* NNPI_NO_BATCH_COPIES is not set
    new_list, start,  \* optimize_batch_copies: start is 0 when first_copy_cmd is NULL
    snd,          \* what is going on: "none", "batch", "create", "schedule", "reply"
    stage,        \* send_to_card: before the "first" page, in a "page", before the "next"
    pos, sub,     \* next entry, and next copy of a copy list (0: from its header)
    used,         \* bytes of the page
    append_kind,  \* append has seen the list unfinalized
    over,         \* an overwrite between get_cmd_for_overwrite and overwrite
    want,         \* the parameters the application asked for last
    card,         \* what the card has decoded
    page_read,    \* and will have with the items of the page
    overlapped, failed,        \* an edit overlapped a send; a send failed
    overwrites, sends

listParts == <<m_vec, cmd, m_num_edits, m_finalized, batch>>
batchVars == <<new_list, start>>
sendVars == <<snd, stage, pos, sub, used, page_read>>
userParts == <<append_kind, over, want>>
boundVars == <<overlapped, failed, overwrites, sends>>
editsVars == <<listParts, batchVars, sendVars, userParts, card, boundVars>>

NoOver == [u |-> 0, par |-> First]
Blank == [tab |-> [x \in {} |-> 0], announced |-> 0, entries |-> 0, list |-> 0, left |-> 0, last |-> TRUE]
is_copy(u) == cmd[u].kind # "infreq"

EditsInit ==
    /\ m_vec = <<>> /\ cmd = <<>> /\ m_num_edits = 0 /\ m_finalized = FALSE
    /\ batch \in BOOLEAN /\ new_list = <<>> /\ start = 0
    /\ snd = "none" /\ stage = "first" /\ pos = 1 /\ sub = 0 /\ used = 0
    /\ append_kind = "none" /\ over = NoOver /\ want = <<>>
    /\ card = Blank /\ page_read = Blank
    /\ overlapped = FALSE /\ failed = 0 /\ overwrites = 0 /\ sends = 0

\* The thread that sends holds the mutex of the list.
Locked == snd \in {"batch", "create", "reply"}
Sending == snd # "none"

-----------------------------------------------------------------------------
(***************************************************************************)
(* Editing                                                                 *)
(***************************************************************************)

\* append: m_finalized is tested before the mutex is taken.
append_test(kind) ==
    /\ append_kind = "none" /\ ~m_finalized /\ Len(cmd) < MaxCmds
    /\ ~Overlap => ~Sending
    /\ append_kind' = kind
    /\ UNCHANGED <<listParts, batchVars, sendVars, over, want, card, boundVars>>

append(p) ==
    /\ append_kind # "none" /\ ~Locked
    /\ cmd' = Append(cmd, [kind |-> append_kind, par |-> p, edited |-> TRUE, idx |-> 0])
    /\ m_vec' = Append(m_vec, [type |-> IF append_kind = "infreq" THEN "INFREQ" ELSE "COPY",
                               subs |-> <<Len(cmd) + 1>>, idx |-> Len(m_vec),
                               edited |-> FALSE, num_edits |-> 0])
    /\ want' = Append(want, p)
    /\ m_num_edits' = m_num_edits + 1
    /\ append_kind' = "none"
    /\ overlapped' = (overlapped \/ m_finalized \/ Sending)
    /\ UNCHANGED <<m_finalized, batch, batchVars, sendVars, over, card, failed, overwrites, sends>>

is_edited(e) == IF e.type = "COPYLIST" THEN e.edited ELSE cmd[e.subs[1]].edited

\* The entry in which get_cmd_for_overwrite finds command usr_idx: the number of
\* subcommands of the entries before it is subtracted one by one.
SubsBefore(i) == Cardinality(UNION {{k} \X DOMAIN m_vec[k].subs : k \in 1 .. i - 1})
EntryOf(usr_idx) ==
    CHOOSE i \in DOMAIN m_vec : SubsBefore(i) <= usr_idx /\ usr_idx < SubsBefore(i) + Len(m_vec[i].subs)

SubOf(usr_idx) == m_vec[EntryOf(usr_idx)].subs[usr_idx - SubsBefore(EntryOf(usr_idx)) + 1]

\* Command u of entry i is marked edited, and counted unless its entry was.
Mark(i, u) ==
    /\ over.u = 0 /\ ~Locked /\ overwrites < MaxOverwrites
    /\ ~Overlap => ~Sending
    /\ m_num_edits' = IF is_edited(m_vec[i]) THEN m_num_edits ELSE m_num_edits + 1
    /\ m_vec' = IF m_vec[i].type = "COPYLIST" /\ ~cmd[u].edited
                THEN [m_vec EXCEPT ![i].num_edits = @ + 1, ![i].edited = TRUE] ELSE m_vec
    /\ cmd' = [cmd EXCEPT ![u].edited = TRUE]
    /\ overwrites' = overwrites + 1
    /\ overlapped' = (overlapped \/ Sending)
    /\ UNCHANGED <<m_finalized, batch, batchVars, sendVars, append_kind, card, failed, sends>>

\* get_cmd_for_overwrite, under the mutex, for an overwrite with p.
get_cmd_for_overwrite(usr_idx, p) ==
    /\ Mark(EntryOf(usr_idx), SubOf(usr_idx))
    /\ over' = [u |-> SubOf(usr_idx), par |-> p]
    /\ want' = [want EXCEPT ![usr_idx + 1] = p]

\* The parameters of command u after an overwrite with p: that of an inference
\* request takes every one but the priority.
Overwritten(u, p) ==
    IF is_copy(u) THEN p
    ELSE IF p.null THEN [cmd[u].par EXCEPT !.null = TRUE]
    ELSE [p EXCEPT !.prio = cmd[u].par.prio]

\* The overwrite itself, without the mutex.
overwrite ==
    /\ over.u # 0
    /\ cmd' = [cmd EXCEPT ![over.u].par = Overwritten(over.u, over.par)]
    /\ over' = NoOver
    /\ overlapped' = (overlapped \/ Sending)
    /\ UNCHANGED <<m_vec, m_num_edits, m_finalized, batch, batchVars, sendVars>>
    /\ UNCHANGED <<append_kind, want, card, failed, overwrites, sends>>

\* An overwrite by the function of the other kind: the command is marked and
\* NNP_NO_SUCH_COPY_HANDLE or NNP_NO_SUCH_INFREQ_HANDLE is returned.
overwrite_refused(usr_idx) ==
    /\ Mark(EntryOf(usr_idx), SubOf(usr_idx))
    /\ UNCHANGED <<over, want>>

-----------------------------------------------------------------------------
(***************************************************************************)
(* finalize and optimize_batch_copies: a round for each entry              *)
(***************************************************************************)

\* finalize, which the application calls again only if it failed; a list without
\* commands is refused.
finalize_begin ==
    /\ ~m_finalized /\ ~Sending /\ m_vec # <<>> /\ sends < MaxSends
    /\ ~Overlap => append_kind = "none" /\ over.u = 0
    /\ snd' = IF batch THEN "batch" ELSE "create"
    /\ sends' = sends + 1
    /\ overlapped' = (overlapped \/ over.u # 0)
    /\ UNCHANGED <<listParts, batchVars, stage, pos, sub, used, page_read>>
    /\ UNCHANGED <<userParts, card, failed, overwrites>>

\* Mutant: the direction of the copies is not compared.
InBatch_any(i, s) ==
    /\ m_vec[i].type = "COPY" /\ cmd[m_vec[i].subs[1]].kind # "d2d"
    /\ s # 0 => i - s < MaxBatch

\* Does entry i begin a batch (s = 0), or continue the one from s?
InBatch(i, s) ==
    LET kind(j) == cmd[m_vec[j].subs[1]].kind IN
    /\ m_vec[i].type = "COPY" /\ kind(i) # "d2d"
    /\ s # 0 => kind(i) = kind(s) /\ i - s < MaxBatch

\* The batch from entry s to entry t: alone, or as a copy list.
Batch(s, t) ==
    IF s = t THEN m_vec[s]
    ELSE [type |-> "COPYLIST", subs |-> [k \in 1 .. t - s + 1 |-> m_vec[s + k - 1].subs[1]],
          idx |-> 0, edited |-> TRUE, num_edits |-> t - s + 1]

\* The constructor of a copy list gives its copies their indices in it.
Indexed(s, t) ==
    IF s = t THEN cmd
    ELSE [u \in DOMAIN cmd |->
            IF \E k \in s .. t : m_vec[k].subs[1] = u
            THEN [cmd[u] EXCEPT !.idx = (CHOOSE k \in s .. t : m_vec[k].subs[1] = u) - s]
            ELSE cmd[u]]

\* Mutant: the entries keep the indices they were appended with.
Pushed_unnumbered(vec, e) == Append(vec, e)

\* push_back and set_index
Pushed(vec, e) == Append(vec, [e EXCEPT !.idx = Len(vec)])

\* Where the batch begins that entry pos begins or continues.
From == IF start = 0 THEN pos ELSE start

Round ==
    /\ snd = "batch" /\ pos <= Len(m_vec)
    /\ pos' = pos + 1
    /\ UNCHANGED <<m_vec, m_num_edits, m_finalized, batch, snd, stage, sub, used, page_read>>
    /\ UNCHANGED <<userParts, card, boundVars>>

\* An entry that is in no batch.
batch_none ==
    /\ Round /\ start = 0 /\ ~InBatch(pos, 0)
    /\ new_list' = Pushed(new_list, m_vec[pos])
    /\ UNCHANGED <<cmd, start>>

\* One that is, and is not the last.
batch_on ==
    /\ Round /\ InBatch(pos, start) /\ pos < Len(m_vec)
    /\ start' = From
    /\ UNCHANGED <<cmd, new_list>>

batch_last ==
    /\ Round /\ InBatch(pos, start) /\ pos = Len(m_vec)
    /\ new_list' = Pushed(new_list, Batch(From, pos))
    /\ cmd' = Indexed(From, pos)
    /\ start' = 0

\* break_batch: the entry that ends a batch does not begin the next one.
batch_break ==
    /\ Round /\ start # 0 /\ ~InBatch(pos, start)
    /\ new_list' = Pushed(Pushed(new_list, Batch(start, pos - 1)), m_vec[pos])
    /\ cmd' = Indexed(start, pos - 1)
    /\ start' = 0

batch_done ==
    /\ snd = "batch" /\ pos > Len(m_vec)
    /\ m_vec' = new_list /\ m_num_edits' = Len(new_list)
    /\ new_list' = <<>>
    /\ snd' = "create" /\ pos' = 1
    /\ UNCHANGED <<cmd, m_finalized, batch, start, stage, sub, used, page_read, userParts, card, boundVars>>

-----------------------------------------------------------------------------
(***************************************************************************)
(* send_to_card                                                            *)
(***************************************************************************)

\* schedule, once its copies are prepared.
schedule_sends ==
    /\ m_finalized /\ ~Sending /\ sends < MaxSends
    /\ ~Overlap => append_kind = "none" /\ over.u = 0
    /\ snd' = "schedule"
    /\ sends' = sends + 1
    /\ overlapped' = (overlapped \/ over.u # 0)
    /\ UNCHANGED <<listParts, batchVars, stage, pos, sub, used, page_read>>
    /\ UNCHANGED <<userParts, card, failed, overwrites>>

InSend == snd \in {"create", "schedule"}

\* send_to_card is done: finalize waits for the answer.
Sent ==
    /\ snd' = IF snd = "create" THEN "reply" ELSE "none"
    /\ stage' = "first" /\ pos' = 1

\* Nothing was edited: the message alone.
send_bare ==
    /\ InSend /\ stage = "first" /\ m_num_edits = 0
    /\ card' = [card EXCEPT !.announced = 0, !.entries = 0, !.left = 0, !.last = TRUE]
    /\ Sent
    /\ UNCHANGED <<listParts, batchVars, sub, used, page_read, userParts, boundVars>>

\* lockFreeSpace: a page, the first one with the number of edits.
page_begin ==
    /\ InSend /\ stage # "page" /\ (stage = "first" => m_num_edits # 0)
    /\ stage' = "page"
    /\ used' = IF stage = "first" THEN 4 ELSE 0
    /\ page_read' = IF stage = "first"
                    THEN [card EXCEPT !.announced = m_num_edits, !.entries = 0, !.left = 0] ELSE card
    /\ UNCHANGED <<listParts, batchVars, snd, pos, sub, userParts, card, boundVars>>

\* What the loop is at: a command, or the header of a copy list.
AtHeader == sub = 0 /\ m_vec[pos].type = "COPYLIST"
At == m_vec[pos].subs[IF sub = 0 THEN 1 ELSE sub]
\* Is it edited, and its size?
AtEdited ==
    /\ pos <= Len(m_vec) /\ sub <= Len(m_vec[pos].subs)
    /\ IF AtHeader THEN m_vec[pos].edited ELSE cmd[At].edited
Bytes == IF AtHeader THEN 7 ELSE IF is_copy(At) THEN 16 ELSE IF cmd[At].par.null THEN 10 ELSE 15

\* The page is sent: the list is through, the page is full or what comes next
\* does not fit.
PageEnds ==
    \/ pos > Len(m_vec)
    \/ sub = 0 /\ used >= PageSize
    \/ AtEdited /\ used + Bytes > PageSize

Packing == InSend /\ stage = "page" /\ ~PageEnds
PackKeeps == UNCHANGED <<m_num_edits, m_finalized, batch, batchVars, snd, stage, userParts, card, boundVars>>

\* How the card reads a command: copies after a copy list's header belong to it
\* until its count is used up.
Read(c, u, idx) ==
    LET inList == is_copy(u) /\ c.left > 0
        place == IF inList THEN <<c.list, idx + 1>> ELSE <<idx, 0>>
    IN [c EXCEPT !.tab = [x \in DOMAIN c.tab \cup {place} |->
                             IF x = place THEN [u |-> u, par |-> cmd[u].par] ELSE c.tab[x]],
                 !.entries = IF inList THEN @ ELSE @ + 1,
                 !.left = IF inList THEN @ - 1 ELSE @]

\* pack of a command, of its own or of the copy list that is being packed.
pack_command ==
    /\ Packing /\ AtEdited /\ ~AtHeader
    /\ page_read' = Read(page_read, At, IF sub = 0 THEN m_vec[pos].idx ELSE cmd[At].idx)
    /\ used' = used + Bytes
    /\ cmd' = [cmd EXCEPT ![At].edited = FALSE]
    /\ IF sub = 0 THEN pos' = pos + 1 /\ UNCHANGED sub ELSE sub' = sub + 1 /\ UNCHANGED pos
    /\ UNCHANGED m_vec /\ PackKeeps

pack_header ==
    /\ Packing /\ AtEdited /\ AtHeader
    /\ page_read' = [page_read EXCEPT !.entries = @ + 1, !.list = m_vec[pos].idx, !.left = m_vec[pos].num_edits]
    /\ used' = used + 7
    /\ m_vec' = [m_vec EXCEPT ![pos].edited = FALSE]
    /\ sub' = 1
    /\ UNCHANGED <<cmd, pos>> /\ PackKeeps

\* What is not edited is passed over, but for the copies of a copy list whose
\* header went with an earlier page.
pack_over ==
    /\ Packing /\ ~AtEdited /\ sub <= Len(m_vec[pos].subs)
    /\ IF sub = 0 /\ ~(AtHeader /\ m_vec[pos].num_edits > 0)
       THEN pos' = pos + 1 /\ UNCHANGED sub ELSE sub' = sub + 1 /\ UNCHANGED pos
    /\ UNCHANGED <<m_vec, cmd, used, page_read>> /\ PackKeeps

\* The end of a copy list.
pack_end ==
    /\ Packing /\ sub > Len(m_vec[pos].subs)
    /\ m_vec' = [m_vec EXCEPT ![pos].num_edits = 0]
    /\ pos' = pos + 1 /\ sub' = 0
    /\ UNCHANGED <<cmd, used, page_read>> /\ PackKeeps

page_end(last_num_edits) ==
    /\ InSend /\ stage = "page" /\ PageEnds
    /\ card' = [page_read EXCEPT !.last = (pos > Len(m_vec))]
    /\ page_read' = Blank /\ used' = 0 /\ sub' = 0
    /\ IF pos > Len(m_vec)
       THEN Sent /\ m_num_edits' = last_num_edits
       ELSE stage' = "next" /\ UNCHANGED <<snd, pos, m_num_edits>>
    /\ UNCHANGED <<m_vec, cmd, m_finalized, batch, batchVars, userParts, boundVars>>

\* Mutant: the count of edits is kept after the last page.
page_sent_keeps_count == page_end(m_num_edits)

\* The page's message is written.
page_sent == page_end(0)

\* The context is broken, or the message alone cannot be written: the edits stay.
send_refused ==
    /\ InSend /\ stage = "first"
    /\ snd' = "none"
    /\ UNCHANGED <<listParts, batchVars, stage, pos, sub, used, page_read, userParts, card, boundVars>>

\* No page can be had, or its message cannot be written: clear_edits of every
\* entry; that of a copy list does nothing unless it counts edits.
send_fail ==
    /\ InSend /\ failed < MaxFailures
    /\ IF stage = "page" THEN PageEnds ELSE (stage = "first" => m_num_edits # 0)
    /\ cmd' = [u \in DOMAIN cmd |-> [cmd[u] EXCEPT !.edited =
                  /\ @
                  /\ \E i \in DOMAIN m_vec : /\ m_vec[i].type = "COPYLIST" /\ m_vec[i].num_edits = 0
                                             /\ \E k \in DOMAIN m_vec[i].subs : m_vec[i].subs[k] = u]]
    /\ m_vec' = [i \in DOMAIN m_vec |-> [m_vec[i] EXCEPT !.edited = FALSE, !.num_edits = 0]]
    /\ m_num_edits' = 0
    /\ snd' = "none" /\ stage' = "first" /\ pos' = 1 /\ sub' = 0 /\ used' = 0 /\ page_read' = Blank
    /\ failed' = failed + 1
    /\ UNCHANGED <<m_finalized, batch, batchVars, userParts, card, overlapped, overwrites, sends>>

\* The rest of finalize: the card's answer.
finalize_reply(ok) ==
    /\ snd = "reply" /\ (~ok => failed < MaxFailures)
    /\ m_finalized' = ok
    /\ failed' = IF ok THEN failed ELSE failed + 1
    /\ snd' = "none"
    /\ UNCHANGED <<m_vec, cmd, m_num_edits, batch, batchVars, stage, pos, sub, used, page_read>>
    /\ UNCHANGED <<userParts, card, overlapped, overwrites, sends>>

Pack == pack_command \/ pack_header \/ pack_over \/ pack_end

EditsNext ==
    \/ \E kind \in Kinds : append_test(kind)
    \/ \E p \in ParOf(append_kind) \ {Other} : append(p)
    \/ \E usr_idx \in 0 .. Len(cmd) - 1 : \E p \in ParOf(cmd[usr_idx + 1].kind) \ {want[usr_idx + 1]} :
          get_cmd_for_overwrite(usr_idx, p)
    \/ \E usr_idx \in 0 .. Len(cmd) - 1 : overwrite_refused(usr_idx)
    \/ overwrite
    \/ finalize_begin
    \/ batch_none \/ batch_on \/ batch_last \/ batch_break \/ batch_done
    \/ schedule_sends
    \/ send_bare \/ page_begin \/ Pack \/ page_sent \/ send_refused \/ send_fail
    \/ \E ok \in BOOLEAN : finalize_reply(ok)

EditsSpec == EditsInit /\ [][EditsNext]_editsVars

-----------------------------------------------------------------------------
(***************************************************************************)
(* Properties                                                              *)
(***************************************************************************)

EditsTypeOK ==
    /\ m_vec \in Seq(Entry) /\ new_list \in Seq(Entry)
    /\ \A i \in DOMAIN m_vec : m_vec[i].num_edits <= MaxBatch + MaxOverwrites
    /\ cmd \in Seq(Command) /\ Len(cmd) <= MaxCmds
    /\ m_num_edits \in 0 .. MaxCmds + MaxOverwrites /\ m_finalized \in BOOLEAN /\ batch \in BOOLEAN
    /\ start \in 0 .. Len(m_vec) /\ snd \in {"none", "batch", "create", "schedule", "reply"}
    /\ stage \in {"first", "page", "next"} /\ pos \in 1 .. Len(m_vec) + 1 /\ sub \in Nat /\ used \in Nat
    /\ append_kind \in Kinds \cup {"none"} /\ want \in Seq(Par) /\ Len(want) = Len(cmd)
    /\ over \in [u : 0 .. Len(cmd), par : Par]
    /\ card.last \in BOOLEAN /\ overlapped \in BOOLEAN /\ failed \in 0 .. MaxFailures
    /\ overwrites \in 0 .. MaxOverwrites /\ sends \in 0 .. MaxSends

\* No send has failed and no edit ran beside one.
Undisturbed == ~overlapped /\ failed = 0

\* The number of the command after those of entry e.
After(e) == e.subs[1] + Len(e.subs)

\* The entries of vec have the commands 1 .. n, each once and in order.
InOrder(vec, n) ==
    /\ \A i \in DOMAIN vec :
          /\ vec[i].subs # <<>>
          /\ vec[i].subs[1] = IF i = 1 THEN 1 ELSE After(vec[i - 1])
          /\ \A k \in DOMAIN vec[i].subs : vec[i].subs[k] = vec[i].subs[1] + k - 1
    /\ n = IF vec = <<>> THEN 0 ELSE After(vec[Len(vec)]) - 1

\* optimize_batch_copies keeps every command and their order, and a copy list
\* holds at least two and at most MAX_COPIES_PER_BATCH copies, of one direction
\* and none between devices, at any number of finalizes, whatever failed before.
BatchesRight ==
    /\ InOrder(m_vec, Len(cmd))
    /\ \A i \in DOMAIN m_vec : m_vec[i].type = "COPYLIST" =>
          /\ Len(m_vec[i].subs) \in 2 .. MaxBatch
          /\ \E kind \in {"h2c", "c2h"} : \A k \in DOMAIN m_vec[i].subs : cmd[m_vec[i].subs[k]].kind = kind

EditedEntries == {i \in DOMAIN m_vec : is_edited(m_vec[i])}
EditedSubs(i) == {k \in DOMAIN m_vec[i].subs : cmd[m_vec[i].subs[k]].edited}

\* The counters that send_to_card and pack rely on: m_num_edits is the number of
\* edited entries, that of a copy list the number of its edited copies (the
\* assertions of nnpiCopyListParams::pack and clear_edits follow).
EditsCounted ==
    Undisturbed /\ ~Sending =>
        /\ m_num_edits = Cardinality(EditedEntries)
        /\ \A i \in DOMAIN m_vec : m_vec[i].type = "COPYLIST" =>
              /\ m_vec[i].num_edits = Cardinality(EditedSubs(i))
              /\ m_vec[i].edited = (m_vec[i].num_edits > 0)

\* A page never holds more than NNP_PAGE_SIZE bytes, header included.
PageFits == used <= PageSize

\* When the last page of a list has been read, the card has found as many entries
\* as the first page announced and as many copies as the copy lists announced,
\* though both may be spread over several pages.
AnnouncedIsPacked == Undisturbed /\ card.last => card.entries = card.announced /\ card.left = 0

\* Where the card has the k-th command of entry i.
Place(i, k) == <<i - 1, IF m_vec[i].type = "COPYLIST" THEN k ELSE 0>>
Knows(c, i, k) == Place(i, k) \in DOMAIN c.tab /\ c.tab[Place(i, k)].u = m_vec[i].subs[k]

\* What command u has if it is par is what was asked for last; but for the
\* priority of an inference request, which an overwrite leaves as it was.
AsWanted(par, u) ==
    /\ par.null = want[u].null
    /\ ~want[u].null => par.val = want[u].val
    /\ is_copy(u) => par.prio = want[u].prio

\* Between sends, and if none has failed and no edit ran beside one, the card
\* has every command at its index, and every command that is not marked edited
\* with the parameters the application asked for last.
CardUpToDate ==
    Undisturbed /\ m_finalized /\ ~Sending =>
        \A i \in DOMAIN m_vec : \A k \in DOMAIN m_vec[i].subs :
            /\ Knows(card, i, k)
            /\ ~cmd[m_vec[i].subs[k]].edited => AsWanted(card.tab[Place(i, k)].par, m_vec[i].subs[k])

\* The bookkeeping of the edits and the pages they are packed into: the counters
\* are right, and every page fits and holds what was announced.
EditsRight == EditsTypeOK /\ EditsCounted /\ PageFits /\ AnnouncedIsPacked
=============================================================================
