----------------------------- MODULE ContextLife -----------------------------
(***************************************************************************)
(* The life of contexts and their channels: nnpiInfContext::create and     *)
(* destroy, nnpiChannel with its response thread and kill, the set of      *)
(* active contexts (src/nnpi_drv/nnpiChannel.{h,cpp}), and nnpdrvFin,      *)
(* which destroys what is left (nnpiInference.cpp).                        *)
(*                                                                         *)
(* Context and channel are shared_ptr objects that each hold a reference   *)
(* to themselves (m_this).  Their other references are the handle map and  *)
(* the calls under way, so the model keeps m_this and counts the rest from *)
(* where the threads are.  For each context there is a thread that creates *)
(* and destroys it, one that uses it and its response thread; one more     *)
(* thread calls nnpdrvFin, after the others' last call as its              *)
(* documentation asks.  Each context has a card of its own.                *)
(***************************************************************************)
EXTENDS Integers, Sequences, FiniteSets

CONSTANTS
    Ctx,            \* contexts, and their channels
    Mortal,         \* bound: the ones whose card may die
    Used,           \* bound: the ones that are used otherwise
    MaxOps,         \* bound: other calls for a context
    MaxDeaths,      \* bound: fatal events and lost channels
    MaxFails        \* bound: system calls and requests that fail

ASSUME LifeAssumption ==
    /\ IsFiniteSet(Ctx) /\ {"fin", "none"} \cap Ctx = {} /\ Mortal \subseteq Ctx /\ Used \subseteq Ctx
    /\ {MaxOps, MaxDeaths, MaxFails} \subseteq Nat

Killer == Ctx \cup {"fin"}   \* who calls kill: the thread of a context, or nnpdrvFin
NoKill == [c |-> "none", pc |-> "no"]

VARIABLES
    m_critical_error,   \* [Ctx -> "none", "card", "drv" (card_fatal) or "killed" (also card_fatal)]
    ctxThis, chanThis,  \* m_this of the context and of the channel is set
    m_killed, m_kill_on_exit,
    s_contexts,         \* contexts that have a handle
    s_active,           \* number of the nnpiActiveContexts that s_active_contexts points to, 0: none
    group, member,      \* the one of a channel (m_active_ref), and is it in its m_context_chans?
    dtor,               \* ~nnpiChannel: position
    u, op, resp,        \* the threads of a context
    kill,               \* [Killer -> which channel is killed, and position]
    fin,                \* nnpdrvFin: position, and
    finCtx, finGroup,   \*   the context it destroys, the group it waits for
    h2c, c2h, alive,    \* the channel, and does the card still answer?
    ops, deaths, fails,
    leaked, late, crash \* history: a thread that ended before its context's m_this was set;
                        \* a card that died when nnpdrvFin was already waiting; kill of a freed channel

finVars == <<fin, finCtx, finGroup>>
objVars == <<m_critical_error, ctxThis, chanThis, m_killed, m_kill_on_exit>>
setVars == <<s_contexts, s_active, group, member, dtor>>
cardVars == <<h2c, c2h, alive>>
boundVars == <<ops, deaths, fails>>
histVars == <<leaked, late, crash>>
vars == <<objVars, setVars, u, op, resp, kill, finVars, cardVars, boundVars, histVars>>

Init ==
    /\ m_critical_error = [c \in Ctx |-> "none"]
    /\ ctxThis = [c \in Ctx |-> FALSE] /\ chanThis = [c \in Ctx |-> FALSE]
    /\ m_killed = [c \in Ctx |-> FALSE] /\ m_kill_on_exit = [c \in Ctx |-> FALSE]
    /\ s_contexts = {} /\ s_active = 0
    /\ group = [c \in Ctx |-> 0] /\ member = [c \in Ctx |-> FALSE] /\ dtor = [c \in Ctx |-> "live"]
    /\ u = [c \in Ctx |-> "none"] /\ op = [c \in Ctx |-> "idle"] /\ resp = [c \in Ctx |-> "none"]
    /\ kill = [p \in Killer |-> NoKill] /\ fin = "idle" /\ finCtx = "none" /\ finGroup = 0
    /\ h2c = [c \in Ctx |-> <<>>] /\ c2h = [c \in Ctx |-> <<>>] /\ alive = [c \in Ctx |-> TRUE]
    /\ ops = 0 /\ deaths = 0 /\ fails = 0
    /\ leaked = FALSE /\ late = FALSE /\ crash = FALSE

broken(c) == m_critical_error[c] # "none"
card_fatal(c) == m_critical_error[c] \in {"drv", "killed"}

\* notify_all of the context's wait queue.
Woken(pc) == IF pc = "asleep" THEN "wait" ELSE pc
Notify(c) == u' = [u EXCEPT ![c] = Woken(@)] /\ op' = [op EXCEPT ![c] = Woken(@)]

\* Something that may fail does.
Fails == fails < MaxFails /\ fails' = fails + 1

\* nnpiChannel::write; whoever writes gets an error from a killed channel.
WriteOK(c, m) == ~m_killed[c] /\ h2c' = [h2c EXCEPT ![c] = Append(@, m)] /\ UNCHANGED fails
MayFail(c) == \/ m_killed[c] /\ UNCHANGED fails
              \/ Fails
WriteFails(c) == MayFail(c) /\ UNCHANGED h2c

-----------------------------------------------------------------------------
(***************************************************************************)
(* nnpiInfContext::create, with nnpiChannel::create                        *)
(***************************************************************************)

Goto(c, pc) == u' = [u EXCEPT ![c] = pc]

\* The device gives the channel, or refuses.
create_channel(c) ==
    /\ u[c] = "none" /\ fin = "idle"
    /\ \/ Goto(c, "add") /\ UNCHANGED fails
       \/ Goto(c, "gone") /\ Fails
    /\ UNCHANGED <<objVars, setVars, op, resp, kill, finVars, cardVars, ops, deaths, histVars>>

\* nnpiActiveContexts::add, all of it under the global lock.
add(c) ==
    /\ u[c] = "add" /\ Goto(c, "start")
    /\ LET g == IF s_active # 0 THEN s_active ELSE 1 + Cardinality({d \in Ctx : group[d] # 0}) IN
       s_active' = g /\ group' = [group EXCEPT ![c] = g]
    /\ member' = [member EXCEPT ![c] = TRUE]
    /\ UNCHANGED <<objVars, s_contexts, dtor, op, resp, kill, finVars, cardVars, boundVars, histVars>>

\* Mutant: the channel does not own itself.
create_start_unowned(c) ==
    /\ u[c] = "start"
    /\ \/ Goto(c, "this") /\ resp' = [resp EXCEPT ![c] = "read"] /\ UNCHANGED fails
       \/ Goto(c, "gone") /\ Fails /\ UNCHANGED resp
    /\ UNCHANGED <<objVars, setVars, op, kill, finVars, cardVars, ops, deaths, histVars>>

\* The channel's m_this is set and the response thread started.
create_start(c) ==
    /\ u[c] = "start"
    /\ \/ /\ Goto(c, "this") /\ resp' = [resp EXCEPT ![c] = "read"]
          /\ chanThis' = [chanThis EXCEPT ![c] = TRUE] /\ UNCHANGED fails
       \/ Goto(c, "gone") /\ Fails /\ UNCHANGED <<resp, chanThis>>
    /\ UNCHANGED <<m_critical_error, ctxThis, m_killed, m_kill_on_exit, setVars, op, kill, finVars,
                   cardVars, ops, deaths, histVars>>

\* Only then the context's m_this.
create_this(c) ==
    /\ u[c] = "this" /\ Goto(c, "rings")
    /\ ctxThis' = [ctxThis EXCEPT ![c] = TRUE]
    /\ leaked' = (leaked \/ resp[c] \in {"release", "done"})
    /\ UNCHANGED <<m_critical_error, chanThis, m_killed, m_kill_on_exit, setVars, op, resp, kill, finVars,
                   cardVars, boundVars, late, crash>>

\* Three ring buffers; none for a killed channel.
create_rings(c) ==
    /\ u[c] = "rings"
    /\ \/ ~m_killed[c] /\ Goto(c, "send") /\ UNCHANGED fails
       \/ MayFail(c) /\ Goto(c, "fail")
    /\ UNCHANGED <<objVars, setVars, op, resp, kill, finVars, cardVars, ops, deaths, histVars>>

create_send(c) ==
    /\ u[c] = "send"
    /\ \/ WriteOK(c, "create") /\ Goto(c, "wait")
       \/ WriteFails(c) /\ Goto(c, "fail")
    /\ UNCHANGED <<objVars, setVars, op, resp, kill, finVars, c2h, alive, ops, deaths, histVars>>

\* wait_create_command: broken first.  (An answer makes u "created" or "refused".)
create_wait(c) ==
    /\ u[c] = "wait" /\ Goto(c, IF broken(c) THEN "fail" ELSE "asleep")
    /\ UNCHANGED <<objVars, setVars, op, resp, kill, finVars, cardVars, boundVars, histVars>>

create_reply(c) ==
    /\ u[c] \in {"created", "refused"}
    /\ IF broken(c) \/ u[c] = "refused"
       THEN Goto(c, "fail") /\ UNCHANGED s_contexts
       ELSE Goto(c, "up") /\ s_contexts' = s_contexts \cup {c}
    /\ UNCHANGED <<objVars, s_active, group, member, dtor, op, resp, kill, finVars, cardVars, boundVars, histVars>>

\* Every failure after the thread was started kills the channel.
create_fail(c) ==
    /\ u[c] = "fail" /\ Goto(c, "failing")
    /\ kill' = [kill EXCEPT ![c] = [c |-> c, pc |-> "test"]]
    /\ UNCHANGED <<objVars, setVars, op, resp, finVars, cardVars, boundVars, histVars>>

create_failed(c) ==
    /\ u[c] = "failing" /\ kill[c] = NoKill /\ Goto(c, "gone")
    /\ UNCHANGED <<objVars, setVars, op, resp, kill, finVars, cardVars, boundVars, histVars>>

-----------------------------------------------------------------------------
(***************************************************************************)
(* nnpdrvDestroyInferContext, and another call that waits for the card     *)
(***************************************************************************)

\* A context whose card is lost is killed; others ask the card.
destroy(c) ==
    /\ u[c] = "up" /\ fin = "idle" /\ c \in s_contexts
    /\ IF card_fatal(c)
       THEN /\ kill' = [kill EXCEPT ![c] = [c |-> c, pc |-> "test"]]
            /\ Goto(c, "destroying") /\ UNCHANGED <<h2c, fails>>
       ELSE /\ \/ WriteOK(c, "destroy") /\ Goto(c, "destroying")
               \/ WriteFails(c) /\ UNCHANGED u
            /\ UNCHANGED kill
    /\ UNCHANGED <<objVars, setVars, op, resp, finVars, c2h, alive, ops, deaths, histVars>>

destroy_remove(c) ==
    /\ u[c] = "destroying" /\ kill[c] = NoKill /\ Goto(c, "gone")
    /\ s_contexts' = s_contexts \ {c}
    /\ UNCHANGED <<objVars, s_active, group, member, dtor, op, resp, kill, finVars, cardVars, boundVars, histVars>>

\* A call finds the context by its handle and keeps it.
op_find(c) ==
    /\ op[c] = "idle" /\ c \in s_contexts \cap Used /\ fin = "idle" /\ ops < MaxOps /\ ops' = ops + 1
    /\ op' = [op EXCEPT ![c] = "send"]
    /\ UNCHANGED <<objVars, setVars, u, resp, kill, finVars, cardVars, deaths, fails, histVars>>

op_send(c) ==
    /\ op[c] = "send"
    /\ \/ WriteOK(c, "op") /\ op' = [op EXCEPT ![c] = "wait"]
       \/ WriteFails(c) /\ op' = [op EXCEPT ![c] = "idle"]
    /\ UNCHANGED <<objVars, setVars, u, resp, kill, finVars, c2h, alive, ops, deaths, histVars>>

op_wait(c) ==
    /\ op[c] = "wait" /\ op' = [op EXCEPT ![c] = IF broken(c) THEN "idle" ELSE "asleep"]
    /\ UNCHANGED <<objVars, setVars, u, resp, kill, finVars, cardVars, boundVars, histVars>>

-----------------------------------------------------------------------------
(***************************************************************************)
(* The response thread                                                     *)
(***************************************************************************)

Cancelled(c) == \E p \in Killer : kill[p].c = c /\ kill[p].pc = "join"

Read(c, m) ==
    /\ resp[c] = "read" /\ c2h[c] # <<>> /\ Head(c2h[c]) = m
    /\ c2h' = [c2h EXCEPT ![c] = Tail(@)]

\* process_create_reply, and the answer to another call.
reply(c) ==
    /\ \/ /\ (Read(c, "created") \/ Read(c, "refused"))
          /\ u' = [u EXCEPT ![c] = IF @ \in {"wait", "asleep"} THEN Head(c2h[c]) ELSE @] /\ UNCHANGED op
       \/ /\ Read(c, "answer")
          /\ op' = [op EXCEPT ![c] = IF @ \in {"wait", "asleep"} THEN "idle" ELSE @] /\ UNCHANGED u
    /\ UNCHANGED <<objVars, setVars, resp, kill, finVars, h2c, alive, boundVars, histVars>>

\* A card-fatal event of the card: the context is broken, the thread goes on.
card_event(c) ==
    /\ Read(c, "card")
    /\ m_kill_on_exit' = [m_kill_on_exit EXCEPT ![c] = TRUE]
    /\ m_critical_error' = [m_critical_error EXCEPT ![c] = IF @ = "none" THEN "card" ELSE @]
    /\ late' = (late \/ fin \in {"wait", "asleep"})
    /\ Notify(c)
    /\ UNCHANGED <<ctxThis, chanThis, m_killed, setVars, resp, kill, finVars, h2c, alive, boundVars, leaked, crash>>

\* Mutant: nobody is told.
drv_event_silent(c) ==
    /\ Read(c, "drv")
    /\ m_critical_error' = [m_critical_error EXCEPT ![c] = IF @ = "none" THEN "drv" ELSE @]
    /\ ctxThis' = [ctxThis EXCEPT ![c] = FALSE]
    /\ resp' = [resp EXCEPT ![c] = "release"]
    /\ UNCHANGED <<chanThis, m_killed, m_kill_on_exit, setVars, u, op, kill, finVars, h2c, alive, boundVars, histVars>>

\* One of the driver's: the context is released and the thread leaves.
drv_event(c) ==
    /\ Read(c, "drv")
    /\ m_critical_error' = [m_critical_error EXCEPT ![c] = IF @ = "none" THEN "drv" ELSE @]
    /\ ctxThis' = [ctxThis EXCEPT ![c] = FALSE]
    /\ resp' = [resp EXCEPT ![c] = "release"]
    /\ Notify(c)
    /\ UNCHANGED <<chanThis, m_killed, m_kill_on_exit, setVars, kill, finVars, h2c, alive, boundVars, histVars>>

\* CONTEXT_DESTROYED: released too, without being broken.
destroyed(c) ==
    /\ Read(c, "destroyed")
    /\ ctxThis' = [ctxThis EXCEPT ![c] = FALSE]
    /\ resp' = [resp EXCEPT ![c] = "release"]
    /\ UNCHANGED <<m_critical_error, chanThis, m_killed, m_kill_on_exit, setVars, u, op, kill, finVars,
                   h2c, alive, boundVars, histVars>>

\* The handler with no response: who waits is woken, unless card_fatal already was.
NullResponse(c) ==
    /\ m_killed' = [m_killed EXCEPT ![c] = TRUE]
    /\ m_critical_error' = [m_critical_error EXCEPT ![c] = "killed"]
    /\ ctxThis' = [ctxThis EXCEPT ![c] = FALSE]
    /\ IF card_fatal(c) THEN UNCHANGED <<u, op>> ELSE Notify(c)

\* read fails: handleResponseHandlerExit, abnormal.
read_fails(c) ==
    /\ Read(c, "eof") /\ resp' = [resp EXCEPT ![c] = "release"]
    /\ NullResponse(c)
    /\ UNCHANGED <<chanThis, m_kill_on_exit, setVars, kill, finVars, h2c, alive, boundVars, histVars>>

\* The end of handleResponseHandlerExit and of the thread.
release(c) ==
    /\ resp[c] = "release" /\ resp' = [resp EXCEPT ![c] = "done"]
    /\ chanThis' = [chanThis EXCEPT ![c] = FALSE]
    /\ UNCHANGED <<m_critical_error, ctxThis, m_killed, m_kill_on_exit, setVars, u, op, kill, finVars,
                   cardVars, boundVars, histVars>>

\* read is a cancellation point.
cancelled(c) ==
    /\ resp[c] = "read" /\ Cancelled(c) /\ resp' = [resp EXCEPT ![c] = "dead"]
    /\ UNCHANGED <<objVars, setVars, u, op, kill, finVars, cardVars, boundVars, histVars>>

-----------------------------------------------------------------------------
(***************************************************************************)
(* nnpiChannel::kill, by p, and ~nnpiChannel                               *)
(***************************************************************************)

KillGoto(p, pc) == kill' = [kill EXCEPT ![p].pc = pc]
KillReturns(p) == kill' = [kill EXCEPT ![p] = NoKill]

\* The killer of a freed channel reads freed memory.
Freed(p) == dtor[kill[p].c] # "live"

kill_test(p) ==
    /\ kill[p].pc = "test" /\ ~Freed(p)
    /\ IF m_killed[kill[p].c] THEN KillReturns(p) ELSE KillGoto(p, "join")
    /\ UNCHANGED <<objVars, setVars, u, op, resp, finVars, cardVars, boundVars, histVars>>

\* pthread_join; a thread that has already left has done the rest.
kill_join(p) ==
    LET c == kill[p].c IN
    /\ kill[p].pc = "join" /\ ~Freed(p) /\ resp[c] \in {"done", "dead"}
    /\ IF chanThis[c] THEN KillGoto(p, "exit") ELSE KillReturns(p)
    /\ UNCHANGED <<objVars, setVars, u, op, resp, finVars, cardVars, boundVars, histVars>>

kill_exit(p) ==
    LET c == kill[p].c IN
    /\ kill[p].pc = "exit" /\ ~Freed(p) /\ KillGoto(p, "release")
    /\ NullResponse(c)
    /\ UNCHANGED <<chanThis, m_kill_on_exit, setVars, resp, finVars, cardVars, boundVars, histVars>>

kill_release(p) ==
    LET c == kill[p].c IN
    /\ kill[p].pc = "release" /\ ~Freed(p) /\ KillReturns(p)
    /\ chanThis' = [chanThis EXCEPT ![c] = FALSE]
    /\ UNCHANGED <<m_critical_error, ctxThis, m_killed, m_kill_on_exit, setVars, u, op, resp, finVars,
                   cardVars, boundVars, histVars>>

\* Undefined: the program may as well end here.
kill_freed(p) ==
    /\ kill[p].pc # "no" /\ Freed(p) /\ KillReturns(p) /\ crash' = TRUE
    /\ UNCHANGED <<objVars, setVars, u, op, resp, finVars, cardVars, boundVars, leaked, late>>

\* Who keeps the context: m_this, its handle, and the calls under way.
CtxRefs(c) ==
    \/ ctxThis[c] \/ c \in s_contexts \/ op[c] # "idle"
    \/ u[c] \notin {"none", "gone", "up"} \/ finCtx = c

\* The last reference to the channel is gone; the context's counts.
Unreferenced(c) == u[c] # "none" /\ group[c] # 0 /\ ~chanThis[c] /\ ~CtxRefs(c)

dtor_close(c) ==
    /\ dtor[c] = "live" /\ Unreferenced(c)
    /\ dtor' = [dtor EXCEPT ![c] = "close"]
    /\ UNCHANGED <<objVars, s_contexts, s_active, group, member, u, op, resp, kill, finVars, cardVars, boundVars, histVars>>

\* Mutant: nobody is told of the removal.
remove_erase_silent(c) ==
    /\ dtor[c] = "close" /\ dtor' = [dtor EXCEPT ![c] = "reset"]
    /\ member' = [member EXCEPT ![c] = FALSE]
    /\ UNCHANGED <<objVars, s_contexts, s_active, group, u, op, resp, kill, finVars, cardVars, boundVars, histVars>>

\* nnpiActiveContexts::remove: under the group's lock, then under the global one.
remove_erase(c) ==
    /\ dtor[c] = "close" /\ dtor' = [dtor EXCEPT ![c] = "reset"]
    /\ member' = [member EXCEPT ![c] = FALSE]
    /\ fin' = IF fin = "asleep" /\ finGroup = group[c] THEN "wait" ELSE fin
    /\ UNCHANGED <<objVars, s_contexts, s_active, group, u, op, resp, kill, finCtx, finGroup, cardVars, boundVars, histVars>>

Members(g) == {c \in Ctx : group[c] = g /\ member[c]}

remove_reset(c) ==
    /\ dtor[c] = "reset" /\ dtor' = [dtor EXCEPT ![c] = "gone"]
    /\ s_active' = IF Members(group[c]) = {} THEN 0 ELSE s_active
    /\ UNCHANGED <<objVars, s_contexts, group, member, u, op, resp, kill, finVars, cardVars, boundVars, histVars>>

-----------------------------------------------------------------------------
(***************************************************************************)
(* nnpdrvFin                                                               *)
(***************************************************************************)

FinGoto(pc) == fin' = pc
FinRest == <<objVars, op, u, resp, c2h, alive, ops, deaths, histVars>>

fin_start ==
    /\ fin = "idle" /\ FinGoto("loop")
    /\ \A c \in Ctx : u[c] \in {"none", "up", "gone"} /\ op[c] = "idle"
    /\ UNCHANGED <<FinRest, setVars, kill, finCtx, finGroup, h2c, fails>>

\* get_first and nnpdrvDestroyInferContext, tried again when it fails.
fin_destroy ==
    /\ fin = "loop"
    /\ \E c \in s_contexts :
          IF card_fatal(c)
          THEN /\ kill' = [kill EXCEPT !["fin"] = [c |-> c, pc |-> "test"]]
               /\ finCtx' = c /\ FinGoto("remove") /\ UNCHANGED <<h2c, fails>>
          ELSE /\ \/ WriteOK(c, "destroy") /\ finCtx' = c /\ FinGoto("remove")
                  \/ WriteFails(c) /\ UNCHANGED <<fin, finCtx>>
               /\ UNCHANGED kill
    /\ UNCHANGED <<FinRest, setVars, finGroup>>

fin_remove ==
    /\ fin = "remove" /\ kill["fin"] = NoKill /\ FinGoto("loop")
    /\ s_contexts' = s_contexts \ {finCtx} /\ finCtx' = "none"
    /\ UNCHANGED <<FinRest, s_active, group, member, dtor, kill, finGroup, h2c, fails>>

\* wait_all keeps the group it finds.
wait_all ==
    /\ fin = "loop" /\ s_contexts = {}
    /\ FinGoto(IF s_active = 0 THEN "done" ELSE "scan") /\ finGroup' = s_active
    /\ UNCHANGED <<FinRest, setVars, kill, finCtx, h2c, fails>>

\* kill_all: one channel per round, which is killed without the lock.
kill_all ==
    /\ fin = "scan" /\ kill["fin"] = NoKill
    /\ LET S == {c \in Members(finGroup) : ~m_killed[c] /\ m_kill_on_exit[c]} IN
       \/ S = {} /\ FinGoto("wait") /\ UNCHANGED kill
       \/ \E c \in S : kill' = [kill EXCEPT !["fin"] = [c |-> c, pc |-> "test"]] /\ UNCHANGED fin
    /\ UNCHANGED <<FinRest, setVars, finCtx, finGroup, h2c, fails>>

fin_wait ==
    /\ fin = "wait" /\ FinGoto(IF Members(finGroup) = {} THEN "done" ELSE "asleep")
    /\ UNCHANGED <<FinRest, setVars, kill, finCtx, finGroup, h2c, fails>>

-----------------------------------------------------------------------------
(***************************************************************************)
(* The card and the kernel driver                                          *)
(***************************************************************************)

Lost(c) == \E i \in DOMAIN c2h[c] : c2h[c][i] \in {"drv", "eof", "destroyed"}
Host == <<objVars, setVars, u, op, resp, kill, finVars, ops, histVars>>

card_answer(c) ==
    /\ alive[c] /\ h2c[c] # <<>> /\ h2c' = [h2c EXCEPT ![c] = Tail(@)]
    /\ LET m == Head(h2c[c]) IN
       /\ alive' = [alive EXCEPT ![c] = m # "destroy"]
       /\ \/ /\ c2h' = [c2h EXCEPT ![c] = Append(@, CASE m = "create" -> "created" [] m = "op" -> "answer"
                                                      [] OTHER -> "destroyed")]
             /\ UNCHANGED fails
          \/ m = "create" /\ Fails /\ c2h' = [c2h EXCEPT ![c] = Append(@, "refused")]
    /\ UNCHANGED <<Host, deaths>>

\* The card crashes, the driver reports its reset or the channel is lost.
card_dies(c) ==
    /\ deaths < MaxDeaths /\ deaths' = deaths + 1 /\ c \in Mortal /\ u[c] # "none" /\ ~Lost(c)
    /\ \E m \in {"card", "drv", "eof"} :
          /\ m = "card" => alive[c]
          /\ c2h' = [c2h EXCEPT ![c] = Append(@, m)]
    /\ alive' = [alive EXCEPT ![c] = FALSE]
    /\ UNCHANGED <<Host, h2c, fails>>

Create(c) == add(c) \/ create_start(c) \/ create_this(c) \/ create_rings(c) \/ create_send(c) \/ create_wait(c)
             \/ create_reply(c) \/ create_fail(c) \/ create_failed(c)
Call(c) == destroy_remove(c) \/ op_send(c) \/ op_wait(c)
Respond(c) == reply(c) \/ card_event(c) \/ drv_event(c) \/ destroyed(c) \/ read_fails(c) \/ release(c) \/ cancelled(c)
Kill(p) == kill_test(p) \/ kill_join(p) \/ kill_exit(p) \/ kill_release(p) \/ kill_freed(p)
Dtor(c) == dtor_close(c) \/ remove_erase(c) \/ remove_reset(c)
Fin == fin_destroy \/ fin_remove \/ wait_all \/ kill_all \/ fin_wait

Next ==
    \/ \E c \in Ctx : create_channel(c) \/ Create(c) \/ destroy(c) \/ op_find(c) \/ Call(c)
                      \/ Respond(c) \/ Dtor(c) \/ card_answer(c) \/ card_dies(c)
    \/ \E p \in Killer : Kill(p)
    \/ fin_start \/ Fin

Spec == Init /\ [][Next]_vars

\* Threads go on while they can, and a card that is alive answers.
FairSpec ==
    /\ Spec
    /\ \A c \in Ctx : /\ WF_vars(Create(c)) /\ WF_vars(Call(c)) /\ WF_vars(Respond(c))
                      /\ WF_vars(Dtor(c)) /\ WF_vars(card_answer(c))
    /\ \A p \in Killer : WF_vars(Kill(p))
    /\ WF_vars(Fin)

-----------------------------------------------------------------------------
(***************************************************************************)
(* Properties                                                              *)
(***************************************************************************)

TypeOK ==
    /\ m_critical_error \in [Ctx -> {"none", "card", "drv", "killed"}]
    /\ {ctxThis, chanThis, m_killed, m_kill_on_exit, member, alive} \subseteq [Ctx -> BOOLEAN]
    /\ s_contexts \subseteq Ctx /\ s_active \in 0 .. Cardinality(Ctx)
    /\ group \in [Ctx -> 0 .. Cardinality(Ctx)]
    /\ dtor \in [Ctx -> {"live", "close", "reset", "gone"}]
    /\ u \in [Ctx -> {"none", "add", "start", "this", "rings", "send", "wait", "asleep", "created", "refused",
                      "fail", "failing", "up", "destroying", "gone"}]
    /\ op \in [Ctx -> {"idle", "send", "wait", "asleep"}]
    /\ resp \in [Ctx -> {"none", "read", "release", "done", "dead"}]
    /\ kill \in [Killer -> {NoKill} \cup [c : Ctx, pc : {"test", "join", "exit", "release"}]]
    /\ fin \in {"idle", "loop", "remove", "scan", "wait", "asleep", "done"}
    /\ finGroup \in 0 .. Cardinality(Ctx) /\ (finCtx \in Ctx <=> fin = "remove")

\* What ~nnpiChannel relies on: "When we get here the response thread is either
\* canceled and joined, or is currently exiting".  It never touches a context or a
\* channel that is gone, whoever drops the last reference.
ThreadEndsFirst ==
    \A c \in Ctx : dtor[c] # "live" => resp[c] \in {"none", "done", "dead"}

\* A response thread that has ended leaves nobody waiting: the context was broken
\* before, or it is killed and will be, or its destruction was asked for.
EndsBroken ==
    \A c \in Ctx : resp[c] \in {"done", "dead"} =>
        \/ broken(c) \/ u[c] \in {"destroying", "gone"} \/ (\E p \in Killer : kill[p].c = c) \/ fin # "idle"

\* The references of a context and its channel to themselves end with the response
\* thread, so neither outlives its users; except a context whose thread ended
\* before create had set its m_this, which is never freed.
NotLeaked ==
    ~leaked => \A c \in Ctx : /\ resp[c] = "done" => ~ctxThis[c] /\ ~chanThis[c]
                              /\ chanThis[c] => dtor[c] = "live"

\* When nnpdrvFin returns no context is left: it has waited for every one.
FinWaitsForAll ==
    fin = "done" /\ ~crash => \A c \in Ctx : ~member[c]

\* create returns, and so does a call that waits for the card, unless the context
\* is destroyed meanwhile (then the thread that would wake it ends without
\* breaking the context).
CallsReturn ==
    \A c \in Mortal :
        /\ u[c] = "asleep" ~> u[c] # "asleep"
        /\ op[c] = "asleep" ~> op[c] # "asleep" \/ u[c] \in {"destroying", "gone"}

\* nnpdrvFin returns.  The exceptions: a context that leaked, a card that dies when
\* it already waits, and a channel that is freed while it is about to kill it.
FinEnds == fin # "idle" ~> fin = "done" \/ leaked \/ late \/ crash

\* Nothing is used after its end and nothing stays without an end: the response
\* thread outlives no object it uses, ends with the context broken or about to be
\* destroyed, and takes the references of context and channel with it.
EndsRight == TypeOK /\ ThreadEndsFirst /\ EndsBroken /\ NotLeaked
==============================================================================
