--------------------------- MODULE ContextLifeProofs ---------------------------
(***************************************************************************)
(* However many contexts are created, used, killed and destroyed at once,  *)
(* a response thread outlives no object it uses, and leaves nobody waiting *)
(* when it ends (EndsRight).                                               *)
(***************************************************************************)
EXTENDS ContextLife, FiniteSetTheorems, TLAPS

Ended == {"done", "dead"}

\* What the two directions of a channel carry.
ChannelOK ==
    /\ h2c \in [Ctx -> Seq({"create", "op", "destroy"})]
    /\ c2h \in [Ctx -> Seq({"created", "refused", "answer", "destroyed", "card", "drv", "eof"})]

In(m, s) == \E i \in DOMAIN s : s[i] = m

\* The application, or nnpdrvFin, is about to end the context.
Leaving(c) == u[c] \in {"destroying", "gone"} \/ fin # "idle"

\* A context that is not started has no thread, and its channel is not destroyed.
Fresh == \A c \in Ctx :
    /\ u[c] \in {"none", "add", "start"} => resp[c] = "none" /\ dtor[c] = "live"
    /\ u[c] \in {"none", "add"} => group[c] = 0

\* The channel owns itself as long as its thread runs, and not after that.
Owned == \A c \in Ctx :
    /\ resp[c] \in {"read", "release"} => chanThis[c]
    /\ resp[c] = "done" => ~chanThis[c]
    /\ dtor[c] # "live" => ~chanThis[c]

\* The context does not own itself when its thread has released it.
Released == ~leaked => \A c \in Ctx : resp[c] \in {"release", "done"} => ~ctxThis[c]

\* A thread is only joined when it has ended; one that was cancelled has broken
\* its context when kill releases the channel.
Joined == \A p \in Killer :
    /\ kill[p].pc \in {"exit", "release"} => resp[kill[p].c] \in Ended
    /\ kill[p].pc = "release" => broken(kill[p].c)

\* Who kills which channel, when.
KillsOwn ==
    /\ \A c \in Ctx : kill[c] # NoKill => kill[c].c = c /\ u[c] \in {"failing", "destroying"}
    /\ kill["fin"] # NoKill => fin # "idle"

\* The card confirms a destruction only if somebody asked for it.
Asked == \A c \in Ctx : In("destroy", h2c[c]) \/ In("destroyed", c2h[c]) => Leaving(c)

\* Why a thread has left: the context is broken or about to end, or, for a
\* cancelled one, its killer will break it.
Why == \A c \in Ctx :
    /\ m_killed[c] => broken(c)
    /\ resp[c] \in {"release", "done"} => broken(c) \/ Leaving(c)
    /\ resp[c] = "dead" => broken(c) \/ Leaving(c) \/ (chanThis[c] /\ kill[c].pc \in {"join", "exit"})

\* All that is known of threads and references.
Life == Fresh /\ Owned /\ Released /\ Joined /\ KillsOwn /\ Why /\ ThreadEndsFirst

\* The inductive invariant.
IInv == TypeOK /\ ChannelOK /\ Asked /\ Life

-----------------------------------------------------------------------------
(***************************************************************************)
(* The channel                                                             *)
(***************************************************************************)

\* What is in a queue after a message was appended.
LEMMA InAppend ==
    ASSUME NEW M, NEW s \in Seq(M), NEW x \in M, NEW m
    PROVE  Append(s, x) \in Seq(M) /\ (In(m, Append(s, x)) => In(m, s) \/ m = x)
BY DEF In

\* What is in a queue after its first message was taken.
LEMMA InTail ==
    ASSUME NEW M, NEW s \in Seq(M), s # <<>>, NEW m
    PROVE  /\ Tail(s) \in Seq(M) /\ Head(s) \in M /\ In(Head(s), s)
           /\ In(m, Tail(s)) => In(m, s)
BY DEF In

-----------------------------------------------------------------------------
(***************************************************************************)
(* Types                                                                   *)
(***************************************************************************)

\* There are finitely many contexts.
LEMMA CardNat == Cardinality(Ctx) \in Nat
BY LifeAssumption, FS_CardinalityType

\* A context that has no group yet leaves a number for its own.
LEMMA GroupRoom ==
    ASSUME NEW c \in Ctx, group[c] = 0
    PROVE  1 + Cardinality({d \in Ctx : group[d] # 0}) \in 1 .. Cardinality(Ctx)
<1> DEFINE S == {d \in Ctx : group[d] # 0}
<1>1. IsFiniteSet(Ctx) /\ IsFiniteSet(S) /\ Cardinality(S) <= Cardinality(Ctx)
  BY LifeAssumption, FS_Subset
<1>2. S # Ctx
  OBVIOUS
<1>3. Cardinality(S) # Cardinality(Ctx)
  BY <1>1, <1>2, FS_Subset
<1>4. Cardinality(S) \in Nat /\ Cardinality(Ctx) \in Nat
  BY <1>1, FS_CardinalityType
<1> QED
  BY <1>1, <1>3, <1>4

\* It holds when there is no context.
LEMMA InitInv == Init => IInv
<1> SUFFICES ASSUME Init PROVE IInv
  OBVIOUS
<1>1. TypeOK
  BY CardNat, LifeAssumption DEF Init, TypeOK
<1>2. ChannelOK
  BY DEF Init, ChannelOK
<1>3. Fresh /\ Owned /\ Released /\ ThreadEndsFirst
  BY DEF Init, Fresh, Owned, Released, ThreadEndsFirst
<1>4. Joined /\ KillsOwn
  BY DEF Init, Joined, KillsOwn, NoKill, Killer
<1>5. Asked /\ Why
  BY DEF Init, Asked, Why, In, Leaving
<1> QED
  BY <1>1, <1>2, <1>3, <1>4, <1>5 DEF IInv, Life

\* Types are kept.
LEMMA TypeNext == ASSUME IInv, Next PROVE TypeOK'
<1> USE DEF IInv, objVars, setVars, finVars, cardVars, boundVars, histVars, NoKill, Killer
<1>1. ASSUME NEW c \in Ctx, create_channel(c) PROVE TypeOK'
  BY <1>1, LifeAssumption DEF TypeOK, create_channel, Goto, Fails
<1>2. ASSUME NEW c \in Ctx, add(c) PROVE TypeOK'
  BY <1>2, GroupRoom, CardNat, LifeAssumption DEF TypeOK, Life, Fresh, add, Goto
<1>3. ASSUME NEW c \in Ctx, create_start(c) PROVE TypeOK'
  <2>1. \/ /\ u' = [u EXCEPT ![c] = "this"] /\ resp' = [resp EXCEPT ![c] = "read"]
           /\ chanThis' = [chanThis EXCEPT ![c] = TRUE]
        \/ u' = [u EXCEPT ![c] = "gone"] /\ UNCHANGED <<resp, chanThis>>
    BY <1>3 DEF create_start, Goto
  <2>2. UNCHANGED <<m_critical_error, ctxThis, m_killed, m_kill_on_exit, setVars, op, kill, finVars, alive>>
    BY <1>3 DEF create_start, cardVars
  <2>3. u' \in [Ctx -> {"none", "add", "start", "this", "rings", "send", "wait", "asleep", "created", "refused",
                        "fail", "failing", "up", "destroying", "gone"}]
    BY <2>1 DEF TypeOK
  <2>4. resp' \in [Ctx -> {"none", "read", "release", "done", "dead"}]
    BY <2>1 DEF TypeOK
  <2>5. chanThis \in [Ctx -> BOOLEAN]
    BY DEF TypeOK
  <2>6. chanThis' \in [Ctx -> BOOLEAN]
    BY <2>1, <2>5
  <2> QED
    BY <2>2, <2>3, <2>4, <2>6 DEF TypeOK, setVars, finVars
<1>4. ASSUME NEW c \in Ctx, create_this(c) PROVE TypeOK'
  BY <1>4, LifeAssumption DEF TypeOK, create_this, Goto
<1>5. ASSUME NEW c \in Ctx, create_rings(c) PROVE TypeOK'
  BY <1>5, LifeAssumption DEF TypeOK, create_rings, Goto, MayFail, Fails
<1>6. ASSUME NEW c \in Ctx, create_send(c) PROVE TypeOK'
  BY <1>6, LifeAssumption DEF TypeOK, create_send, Goto, WriteOK, WriteFails, MayFail, Fails
<1>7. ASSUME NEW c \in Ctx, create_wait(c) PROVE TypeOK'
  BY <1>7, LifeAssumption DEF TypeOK, create_wait, Goto
<1>8. ASSUME NEW c \in Ctx, create_reply(c) PROVE TypeOK'
  BY <1>8, LifeAssumption DEF TypeOK, create_reply, Goto
<1>9. ASSUME NEW c \in Ctx, create_fail(c) PROVE TypeOK'
  BY <1>9, LifeAssumption DEF TypeOK, create_fail, Goto
<1>10. ASSUME NEW c \in Ctx, create_failed(c) PROVE TypeOK'
  BY <1>10, LifeAssumption DEF TypeOK, create_failed, Goto
<1>11. ASSUME NEW c \in Ctx, destroy(c) PROVE TypeOK'
  BY <1>11, LifeAssumption DEF TypeOK, destroy, Goto, WriteOK, WriteFails, MayFail, Fails
<1>12. ASSUME NEW c \in Ctx, destroy_remove(c) PROVE TypeOK'
  BY <1>12, LifeAssumption DEF TypeOK, destroy_remove, Goto
<1>13. ASSUME NEW c \in Ctx, op_find(c) PROVE TypeOK'
  BY <1>13, LifeAssumption DEF TypeOK, op_find
<1>14. ASSUME NEW c \in Ctx, op_send(c) PROVE TypeOK'
  BY <1>14, LifeAssumption DEF TypeOK, op_send, WriteOK, WriteFails, MayFail, Fails
<1>15. ASSUME NEW c \in Ctx, op_wait(c) PROVE TypeOK'
  BY <1>15, LifeAssumption DEF TypeOK, op_wait
<1>16. ASSUME NEW c \in Ctx, reply(c) PROVE TypeOK'
  <2>1. \/ \E m \in {"created", "refused"} :
              u' = [u EXCEPT ![c] = IF @ \in {"wait", "asleep"} THEN m ELSE @] /\ UNCHANGED op
        \/ op' = [op EXCEPT ![c] = IF @ \in {"wait", "asleep"} THEN "idle" ELSE @] /\ UNCHANGED u
    BY <1>16 DEF reply, Read
  <2>2. UNCHANGED <<objVars, setVars, resp, kill, finVars, alive>>
    BY <1>16 DEF reply
  <2> QED
    BY <2>1, <2>2 DEF TypeOK, objVars, setVars, finVars
<1>17. ASSUME NEW c \in Ctx, card_event(c) PROVE TypeOK'
  BY <1>17, LifeAssumption DEF TypeOK, card_event, Read, Notify, Woken
<1>18. ASSUME NEW c \in Ctx, drv_event(c) PROVE TypeOK'
  BY <1>18, LifeAssumption DEF TypeOK, drv_event, Read, Notify, Woken
<1>19. ASSUME NEW c \in Ctx, destroyed(c) PROVE TypeOK'
  BY <1>19, LifeAssumption DEF TypeOK, destroyed, Read
<1>20. ASSUME NEW c \in Ctx, read_fails(c) PROVE TypeOK'
  <2>1. /\ u' = u \/ u' = [u EXCEPT ![c] = Woken(@)]
        /\ op' = op \/ op' = [op EXCEPT ![c] = Woken(@)]
    BY <1>20 DEF read_fails, NullResponse, Notify
  <2>2. u' \in [Ctx -> {"none", "add", "start", "this", "rings", "send", "wait", "asleep", "created", "refused",
                        "fail", "failing", "up", "destroying", "gone"}]
    BY <2>1 DEF TypeOK, Woken
  <2>3. op' \in [Ctx -> {"idle", "send", "wait", "asleep"}]
    BY <2>1 DEF TypeOK, Woken
  <2>4. /\ resp' = [resp EXCEPT ![c] = "release"] /\ m_killed' = [m_killed EXCEPT ![c] = TRUE]
        /\ m_critical_error' = [m_critical_error EXCEPT ![c] = "killed"]
        /\ ctxThis' = [ctxThis EXCEPT ![c] = FALSE]
        /\ UNCHANGED <<chanThis, m_kill_on_exit, setVars, kill, finVars, alive>>
    BY <1>20 DEF read_fails, NullResponse
  <2> QED
    BY <2>2, <2>3, <2>4 DEF TypeOK, setVars, finVars
<1>21. ASSUME NEW c \in Ctx, release(c) PROVE TypeOK'
  BY <1>21, LifeAssumption DEF TypeOK, release
<1>22. ASSUME NEW c \in Ctx, cancelled(c) PROVE TypeOK'
  BY <1>22, LifeAssumption DEF TypeOK, cancelled, Cancelled
<1>23. ASSUME NEW c \in Ctx, dtor_close(c) PROVE TypeOK'
  BY <1>23, LifeAssumption DEF TypeOK, dtor_close
<1>24. ASSUME NEW c \in Ctx, remove_erase(c) PROVE TypeOK'
  BY <1>24, LifeAssumption DEF TypeOK, remove_erase
<1>25. ASSUME NEW c \in Ctx, remove_reset(c) PROVE TypeOK'
  BY <1>25, CardNat, LifeAssumption DEF TypeOK, remove_reset
<1>26. ASSUME NEW c \in Ctx, card_answer(c) PROVE TypeOK'
  BY <1>26, LifeAssumption DEF TypeOK, card_answer, Host, Fails
<1>27. ASSUME NEW c \in Ctx, card_dies(c) PROVE TypeOK'
  BY <1>27, LifeAssumption DEF TypeOK, card_dies, Host
<1>28. ASSUME NEW p \in Killer, kill_test(p) PROVE TypeOK'
  BY <1>28, LifeAssumption DEF TypeOK, kill_test, KillGoto, KillReturns
<1>29. ASSUME NEW p \in Killer, kill_join(p) PROVE TypeOK'
  BY <1>29, LifeAssumption DEF TypeOK, kill_join, KillGoto, KillReturns
<1>30. ASSUME NEW p \in Killer, kill_exit(p) PROVE TypeOK'
  BY <1>30, LifeAssumption DEF TypeOK, kill_exit, KillGoto, NullResponse, Notify, Woken
<1>31. ASSUME NEW p \in Killer, kill_release(p) PROVE TypeOK'
  BY <1>31, LifeAssumption DEF TypeOK, kill_release, KillReturns
<1>32. ASSUME NEW p \in Killer, kill_freed(p) PROVE TypeOK'
  BY <1>32, LifeAssumption DEF TypeOK, kill_freed, KillReturns, Freed
<1>33. ASSUME fin_start PROVE TypeOK'
  BY <1>33, LifeAssumption DEF TypeOK, fin_start, FinGoto, FinRest
<1>34. ASSUME fin_destroy PROVE TypeOK'
  BY <1>34, LifeAssumption DEF TypeOK, fin_destroy, FinGoto, FinRest, WriteOK, WriteFails, MayFail,
     Fails
<1>35. ASSUME fin_remove PROVE TypeOK'
  BY <1>35, LifeAssumption DEF TypeOK, fin_remove, FinGoto, FinRest
<1>36. ASSUME wait_all PROVE TypeOK'
  BY <1>36, LifeAssumption DEF TypeOK, wait_all, FinGoto, FinRest
<1>37. ASSUME kill_all PROVE TypeOK'
  BY <1>37, LifeAssumption DEF TypeOK, kill_all, FinGoto, FinRest, Members
<1>38. ASSUME fin_wait PROVE TypeOK'
  BY <1>38, LifeAssumption DEF TypeOK, fin_wait, FinGoto, FinRest
<1> QED
  BY <1>1, <1>2, <1>3, <1>4, <1>5, <1>6, <1>7, <1>8, <1>9, <1>10, <1>11, <1>12, <1>13, <1>14, <1>15,
     <1>16, <1>17, <1>18, <1>19, <1>20, <1>21, <1>22, <1>23, <1>24, <1>25, <1>26, <1>27, <1>28,
     <1>29, <1>30, <1>31, <1>32, <1>33, <1>34, <1>35, <1>36, <1>37, <1>38 DEF Next, Create, Call,
     Respond, Dtor, Kill, Fin

-----------------------------------------------------------------------------
(***************************************************************************)
(* What is asked of the card                                               *)
(***************************************************************************)

\* Who is about to end a context stays so.
Stays == \A c \in Ctx : Leaving(c) => Leaving(c)'

\* The queues do not change,
LEMMA NothingSent ==
    ASSUME ChannelOK, Asked, Stays, UNCHANGED <<h2c, c2h>>
    PROVE  ChannelOK' /\ Asked'
BY DEF ChannelOK, Asked, Stays

\* a message is sent to the card,
LEMMA MessageSent ==
    ASSUME ChannelOK, Asked, Stays, UNCHANGED c2h,
           NEW c \in Ctx, NEW m \in {"create", "op", "destroy"}, m = "destroy" => Leaving(c)',
           h2c' = [h2c EXCEPT ![c] = Append(@, m)]
    PROVE  ChannelOK' /\ Asked'
<1>1. ChannelOK'
  BY InAppend DEF ChannelOK
<1>2. \A d \in Ctx : In("destroy", h2c'[d]) => In("destroy", h2c[d]) \/ (d = c /\ m = "destroy")
  <2> SUFFICES ASSUME NEW d \in Ctx, In("destroy", h2c'[d])
               PROVE  In("destroy", h2c[d]) \/ (d = c /\ m = "destroy")
    OBVIOUS
  <2>1. CASE d = c
    <3>1. h2c[c] \in Seq({"create", "op", "destroy"}) /\ h2c'[c] = Append(h2c[c], m)
      BY DEF ChannelOK
    <3> QED
      BY <2>1, <3>1, InAppend
  <2>2. CASE d # c
    BY <2>2 DEF ChannelOK
  <2> QED
    BY <2>1, <2>2
<1> QED
  BY <1>1, <1>2 DEF Asked, Stays

\* or one is read.
LEMMA MessageRead ==
    ASSUME ChannelOK, Asked, Stays, UNCHANGED h2c,
           NEW c \in Ctx, c2h[c] # <<>>, c2h' = [c2h EXCEPT ![c] = Tail(@)]
    PROVE  ChannelOK' /\ Asked'
<1>1. ChannelOK'
  BY InTail DEF ChannelOK
<1>2. \A d \in Ctx : In("destroyed", c2h'[d]) => In("destroyed", c2h[d])
  <2> SUFFICES ASSUME NEW d \in Ctx, In("destroyed", c2h'[d]) PROVE In("destroyed", c2h[d])
    OBVIOUS
  <2>1. CASE d = c
    BY <2>1, InTail DEF ChannelOK
  <2>2. CASE d # c
    BY <2>2 DEF ChannelOK
  <2> QED
    BY <2>1, <2>2
<1> QED
  BY <1>1, <1>2 DEF Asked, Stays

\* What the channel carries, and that destructions are asked for.
LEMMA ChannelNext == ASSUME IInv, Next PROVE ChannelOK' /\ Asked'
<1> USE DEF IInv, objVars, setVars, finVars, cardVars, boundVars, histVars, NoKill, Killer
<1>1. ASSUME NEW c \in Ctx, create_channel(c) PROVE ChannelOK' /\ Asked'
  <2>1. Stays
    BY <1>1, LifeAssumption DEF TypeOK, Stays, Leaving, create_channel, Goto, Fails
  <2>2. UNCHANGED <<h2c, c2h>>
    BY <1>1 DEF create_channel, Goto, Fails
  <2> QED
    BY <2>1, <2>2, NothingSent
<1>2. ASSUME NEW c \in Ctx, add(c) PROVE ChannelOK' /\ Asked'
  <2>1. Stays
    BY <1>2, LifeAssumption DEF TypeOK, Stays, Leaving, add, Goto
  <2>2. UNCHANGED <<h2c, c2h>>
    BY <1>2 DEF add, Goto
  <2> QED
    BY <2>1, <2>2, NothingSent
<1>3. ASSUME NEW c \in Ctx, create_start(c) PROVE ChannelOK' /\ Asked'
  <2>1. Stays
    BY <1>3, LifeAssumption DEF TypeOK, Stays, Leaving, create_start, Goto, Fails
  <2>2. UNCHANGED <<h2c, c2h>>
    BY <1>3 DEF create_start, Goto, Fails
  <2> QED
    BY <2>1, <2>2, NothingSent
<1>4. ASSUME NEW c \in Ctx, create_this(c) PROVE ChannelOK' /\ Asked'
  <2>1. Stays
    BY <1>4, LifeAssumption DEF TypeOK, Stays, Leaving, create_this, Goto
  <2>2. UNCHANGED <<h2c, c2h>>
    BY <1>4 DEF create_this, Goto
  <2> QED
    BY <2>1, <2>2, NothingSent
<1>5. ASSUME NEW c \in Ctx, create_rings(c) PROVE ChannelOK' /\ Asked'
  <2>1. Stays
    BY <1>5, LifeAssumption DEF TypeOK, Stays, Leaving, create_rings, Goto, MayFail, Fails
  <2>2. UNCHANGED <<h2c, c2h>>
    BY <1>5 DEF create_rings, Goto, MayFail, Fails
  <2> QED
    BY <2>1, <2>2, NothingSent
<1>6. ASSUME NEW c \in Ctx, create_send(c) PROVE ChannelOK' /\ Asked'
  <2>1. Stays
    BY <1>6, LifeAssumption DEF TypeOK, Stays, Leaving, create_send, Goto, WriteOK, WriteFails,
       MayFail, Fails
  <2>2. \/ UNCHANGED <<h2c, c2h>>
        \/ h2c' = [h2c EXCEPT ![c] = Append(@, "create")] /\ UNCHANGED c2h
    BY <1>6 DEF TypeOK, create_send, Goto, WriteOK, WriteFails, MayFail, Fails
  <2> QED
    BY <2>1, <2>2, NothingSent, MessageSent
<1>7. ASSUME NEW c \in Ctx, create_wait(c) PROVE ChannelOK' /\ Asked'
  <2>1. Stays
    BY <1>7, LifeAssumption DEF TypeOK, Stays, Leaving, create_wait, Goto
  <2>2. UNCHANGED <<h2c, c2h>>
    BY <1>7 DEF create_wait, Goto
  <2> QED
    BY <2>1, <2>2, NothingSent
<1>8. ASSUME NEW c \in Ctx, create_reply(c) PROVE ChannelOK' /\ Asked'
  <2>1. Stays
    BY <1>8, LifeAssumption DEF TypeOK, Stays, Leaving, create_reply, Goto
  <2>2. UNCHANGED <<h2c, c2h>>
    BY <1>8 DEF create_reply, Goto
  <2> QED
    BY <2>1, <2>2, NothingSent
<1>9. ASSUME NEW c \in Ctx, create_fail(c) PROVE ChannelOK' /\ Asked'
  <2>1. Stays
    BY <1>9, LifeAssumption DEF TypeOK, Stays, Leaving, create_fail, Goto
  <2>2. UNCHANGED <<h2c, c2h>>
    BY <1>9 DEF create_fail, Goto
  <2> QED
    BY <2>1, <2>2, NothingSent
<1>10. ASSUME NEW c \in Ctx, create_failed(c) PROVE ChannelOK' /\ Asked'
  <2>1. Stays
    BY <1>10, LifeAssumption DEF TypeOK, Stays, Leaving, create_failed, Goto
  <2>2. UNCHANGED <<h2c, c2h>>
    BY <1>10 DEF create_failed, Goto
  <2> QED
    BY <2>1, <2>2, NothingSent
<1>11. ASSUME NEW c \in Ctx, destroy(c) PROVE ChannelOK' /\ Asked'
  <2>1. Stays
    BY <1>11, LifeAssumption DEF TypeOK, Stays, Leaving, destroy, Goto, WriteOK, WriteFails,
       MayFail, Fails
  <2>2. \/ UNCHANGED <<h2c, c2h>>
        \/ h2c' = [h2c EXCEPT ![c] = Append(@, "destroy")] /\ UNCHANGED c2h /\ Leaving(c)'
    BY <1>11 DEF TypeOK, destroy, Goto, WriteOK, WriteFails, MayFail, Fails, Leaving
  <2> QED
    BY <2>1, <2>2, NothingSent, MessageSent
<1>12. ASSUME NEW c \in Ctx, destroy_remove(c) PROVE ChannelOK' /\ Asked'
  <2>1. Stays
    BY <1>12, LifeAssumption DEF TypeOK, Stays, Leaving, destroy_remove, Goto
  <2>2. UNCHANGED <<h2c, c2h>>
    BY <1>12 DEF destroy_remove, Goto
  <2> QED
    BY <2>1, <2>2, NothingSent
<1>13. ASSUME NEW c \in Ctx, op_find(c) PROVE ChannelOK' /\ Asked'
  <2>1. Stays
    BY <1>13, LifeAssumption DEF TypeOK, Stays, Leaving, op_find
  <2>2. UNCHANGED <<h2c, c2h>>
    BY <1>13 DEF op_find
  <2> QED
    BY <2>1, <2>2, NothingSent
<1>14. ASSUME NEW c \in Ctx, op_send(c) PROVE ChannelOK' /\ Asked'
  <2>1. Stays
    BY <1>14, LifeAssumption DEF TypeOK, Stays, Leaving, op_send, WriteOK, WriteFails, MayFail,
       Fails
  <2>2. \/ UNCHANGED <<h2c, c2h>>
        \/ h2c' = [h2c EXCEPT ![c] = Append(@, "op")] /\ UNCHANGED c2h
    BY <1>14 DEF TypeOK, op_send, WriteOK, WriteFails, MayFail, Fails
  <2> QED
    BY <2>1, <2>2, NothingSent, MessageSent
<1>15. ASSUME NEW c \in Ctx, op_wait(c) PROVE ChannelOK' /\ Asked'
  <2>1. Stays
    BY <1>15, LifeAssumption DEF TypeOK, Stays, Leaving, op_wait
  <2>2. UNCHANGED <<h2c, c2h>>
    BY <1>15 DEF op_wait
  <2> QED
    BY <2>1, <2>2, NothingSent
<1>16. ASSUME NEW c \in Ctx, reply(c) PROVE ChannelOK' /\ Asked'
  <2>1. Stays
    BY <1>16, LifeAssumption DEF TypeOK, Stays, Leaving, reply, Read
  <2>2. c2h[c] # <<>> /\ c2h' = [c2h EXCEPT ![c] = Tail(@)] /\ UNCHANGED h2c
    BY <1>16 DEF reply, Read
  <2> QED
    BY <2>1, <2>2, MessageRead
<1>17. ASSUME NEW c \in Ctx, card_event(c) PROVE ChannelOK' /\ Asked'
  <2>1. Stays
    BY <1>17, LifeAssumption DEF TypeOK, Stays, Leaving, card_event, Read, Notify, Woken
  <2>2. c2h[c] # <<>> /\ c2h' = [c2h EXCEPT ![c] = Tail(@)] /\ UNCHANGED h2c
    BY <1>17 DEF card_event, Read, Notify, Woken
  <2> QED
    BY <2>1, <2>2, MessageRead
<1>18. ASSUME NEW c \in Ctx, drv_event(c) PROVE ChannelOK' /\ Asked'
  <2>1. Stays
    BY <1>18, LifeAssumption DEF TypeOK, Stays, Leaving, drv_event, Read, Notify, Woken
  <2>2. c2h[c] # <<>> /\ c2h' = [c2h EXCEPT ![c] = Tail(@)] /\ UNCHANGED h2c
    BY <1>18 DEF drv_event, Read, Notify, Woken
  <2> QED
    BY <2>1, <2>2, MessageRead
<1>19. ASSUME NEW c \in Ctx, destroyed(c) PROVE ChannelOK' /\ Asked'
  <2>1. Stays
    BY <1>19, LifeAssumption DEF TypeOK, Stays, Leaving, destroyed, Read
  <2>2. c2h[c] # <<>> /\ c2h' = [c2h EXCEPT ![c] = Tail(@)] /\ UNCHANGED h2c
    BY <1>19 DEF destroyed, Read
  <2> QED
    BY <2>1, <2>2, MessageRead
<1>20. ASSUME NEW c \in Ctx, read_fails(c) PROVE ChannelOK' /\ Asked'
  <2>1. Stays
    BY <1>20, LifeAssumption DEF TypeOK, Stays, Leaving, read_fails, Read, NullResponse, Notify,
       Woken
  <2>2. c2h[c] # <<>> /\ c2h' = [c2h EXCEPT ![c] = Tail(@)] /\ UNCHANGED h2c
    BY <1>20 DEF read_fails, Read, NullResponse, Notify, Woken
  <2> QED
    BY <2>1, <2>2, MessageRead
<1>21. ASSUME NEW c \in Ctx, release(c) PROVE ChannelOK' /\ Asked'
  <2>1. Stays
    BY <1>21, LifeAssumption DEF TypeOK, Stays, Leaving, release
  <2>2. UNCHANGED <<h2c, c2h>>
    BY <1>21 DEF release
  <2> QED
    BY <2>1, <2>2, NothingSent
<1>22. ASSUME NEW c \in Ctx, cancelled(c) PROVE ChannelOK' /\ Asked'
  <2>1. Stays
    BY <1>22, LifeAssumption DEF TypeOK, Stays, Leaving, cancelled, Cancelled
  <2>2. UNCHANGED <<h2c, c2h>>
    BY <1>22 DEF cancelled, Cancelled
  <2> QED
    BY <2>1, <2>2, NothingSent
<1>23. ASSUME NEW c \in Ctx, dtor_close(c) PROVE ChannelOK' /\ Asked'
  <2>1. Stays
    BY <1>23, LifeAssumption DEF TypeOK, Stays, Leaving, dtor_close
  <2>2. UNCHANGED <<h2c, c2h>>
    BY <1>23 DEF dtor_close
  <2> QED
    BY <2>1, <2>2, NothingSent
<1>24. ASSUME NEW c \in Ctx, remove_erase(c) PROVE ChannelOK' /\ Asked'
  <2>1. Stays
    BY <1>24, LifeAssumption DEF TypeOK, Stays, Leaving, remove_erase
  <2>2. UNCHANGED <<h2c, c2h>>
    BY <1>24 DEF remove_erase
  <2> QED
    BY <2>1, <2>2, NothingSent
<1>25. ASSUME NEW c \in Ctx, remove_reset(c) PROVE ChannelOK' /\ Asked'
  <2>1. Stays
    BY <1>25, LifeAssumption DEF TypeOK, Stays, Leaving, remove_reset
  <2>2. UNCHANGED <<h2c, c2h>>
    BY <1>25 DEF remove_reset
  <2> QED
    BY <2>1, <2>2, NothingSent
<1>26. ASSUME NEW c \in Ctx, card_answer(c) PROVE ChannelOK' /\ Asked'
  <2> PICK x \in {"created", "answer", "destroyed", "refused"} :
           /\ c2h' = [c2h EXCEPT ![c] = Append(@, x)]
           /\ x = "destroyed" => Head(h2c[c]) = "destroy"
    <3>1. Head(h2c[c]) \in {"create", "op", "destroy"}
      BY <1>26, InTail DEF card_answer, ChannelOK
    <3> QED
      BY <1>26, <3>1 DEF card_answer
  <2>1. h2c[c] # <<>> /\ h2c' = [h2c EXCEPT ![c] = Tail(@)] /\ UNCHANGED <<u, fin>>
    BY <1>26 DEF card_answer, Host, finVars
  <2>2. ChannelOK'
    BY <2>1, InAppend, InTail DEF ChannelOK
  <2>3. \A d \in Ctx : In("destroy", h2c'[d]) => In("destroy", h2c[d])
    <3> SUFFICES ASSUME NEW d \in Ctx, In("destroy", h2c'[d]) PROVE In("destroy", h2c[d])
      OBVIOUS
    <3>1. CASE d = c
      BY <2>1, <3>1, InTail DEF ChannelOK
    <3>2. CASE d # c
      BY <2>1, <3>2 DEF ChannelOK
    <3> QED
      BY <3>1, <3>2
  <2>4. \A d \in Ctx : In("destroyed", c2h'[d]) => In("destroyed", c2h[d]) \/ In("destroy", h2c[d])
    <3> SUFFICES ASSUME NEW d \in Ctx, In("destroyed", c2h'[d])
                 PROVE  In("destroyed", c2h[d]) \/ In("destroy", h2c[d])
      OBVIOUS
    <3>1. In(Head(h2c[c]), h2c[c])
      BY <2>1, InTail DEF ChannelOK
    <3>2. CASE d = c
      BY <3>1, <3>2, InAppend DEF ChannelOK
    <3>3. CASE d # c
      BY <3>3 DEF ChannelOK
    <3> QED
      BY <3>2, <3>3
  <2> QED
    BY <2>1, <2>2, <2>3, <2>4 DEF Asked, Leaving
<1>27. ASSUME NEW c \in Ctx, card_dies(c) PROVE ChannelOK' /\ Asked'
  <2> PICK x \in {"card", "drv", "eof"} : c2h' = [c2h EXCEPT ![c] = Append(@, x)]
    BY <1>27 DEF card_dies
  <2>1. UNCHANGED <<h2c, u, fin>>
    BY <1>27 DEF card_dies, Host, finVars
  <2>2. ChannelOK'
    BY <2>1, InAppend DEF ChannelOK
  <2>3. \A d \in Ctx : In("destroyed", c2h'[d]) => In("destroyed", c2h[d])
    <3> SUFFICES ASSUME NEW d \in Ctx, In("destroyed", c2h'[d]) PROVE In("destroyed", c2h[d])
      OBVIOUS
    <3>1. CASE d = c
      <4>1. /\ c2h[c] \in Seq({"created", "refused", "answer", "destroyed", "card", "drv", "eof"})
            /\ c2h'[c] = Append(c2h[c], x)
        BY DEF ChannelOK
      <4> QED
        BY <3>1, <4>1, InAppend
    <3>2. CASE d # c
      BY <3>2 DEF ChannelOK
    <3> QED
      BY <3>1, <3>2
  <2> QED
    BY <2>1, <2>2, <2>3 DEF Asked, Leaving
<1>28. ASSUME NEW p \in Killer, kill_test(p) PROVE ChannelOK' /\ Asked'
  <2>1. Stays
    BY <1>28, LifeAssumption DEF TypeOK, Stays, Leaving, kill_test, KillGoto, KillReturns
  <2>2. UNCHANGED <<h2c, c2h>>
    BY <1>28 DEF kill_test, KillGoto, KillReturns
  <2> QED
    BY <2>1, <2>2, NothingSent
<1>29. ASSUME NEW p \in Killer, kill_join(p) PROVE ChannelOK' /\ Asked'
  <2>1. Stays
    BY <1>29, LifeAssumption DEF TypeOK, Stays, Leaving, kill_join, KillGoto, KillReturns
  <2>2. UNCHANGED <<h2c, c2h>>
    BY <1>29 DEF kill_join, KillGoto, KillReturns
  <2> QED
    BY <2>1, <2>2, NothingSent
<1>30. ASSUME NEW p \in Killer, kill_exit(p) PROVE ChannelOK' /\ Asked'
  <2>1. Stays
    BY <1>30, LifeAssumption DEF TypeOK, Stays, Leaving, kill_exit, KillGoto, NullResponse, Notify,
       Woken
  <2>2. UNCHANGED <<h2c, c2h>>
    BY <1>30 DEF kill_exit, KillGoto, NullResponse, Notify, Woken
  <2> QED
    BY <2>1, <2>2, NothingSent
<1>31. ASSUME NEW p \in Killer, kill_release(p) PROVE ChannelOK' /\ Asked'
  <2>1. Stays
    BY <1>31, LifeAssumption DEF TypeOK, Stays, Leaving, kill_release, KillReturns
  <2>2. UNCHANGED <<h2c, c2h>>
    BY <1>31 DEF kill_release, KillReturns
  <2> QED
    BY <2>1, <2>2, NothingSent
<1>32. ASSUME NEW p \in Killer, kill_freed(p) PROVE ChannelOK' /\ Asked'
  <2>1. Stays
    BY <1>32, LifeAssumption DEF TypeOK, Stays, Leaving, kill_freed, KillReturns, Freed
  <2>2. UNCHANGED <<h2c, c2h>>
    BY <1>32 DEF kill_freed, KillReturns, Freed
  <2> QED
    BY <2>1, <2>2, NothingSent
<1>33. ASSUME fin_start PROVE ChannelOK' /\ Asked'
  <2>1. Stays
    BY <1>33, LifeAssumption DEF TypeOK, Stays, Leaving, fin_start, FinGoto, FinRest
  <2>2. UNCHANGED <<h2c, c2h>>
    BY <1>33 DEF fin_start, FinGoto, FinRest
  <2> QED
    BY <2>1, <2>2, NothingSent
<1>34. ASSUME fin_destroy PROVE ChannelOK' /\ Asked'
  <2>1. Stays
    BY <1>34, LifeAssumption DEF TypeOK, Stays, Leaving, fin_destroy, FinGoto, FinRest, WriteOK,
       WriteFails, MayFail, Fails
  <2>2. \/ UNCHANGED <<h2c, c2h>>
        \/ \E c \in Ctx : h2c' = [h2c EXCEPT ![c] = Append(@, "destroy")] /\ UNCHANGED c2h /\ Leaving(c)'
    BY <1>34 DEF TypeOK, fin_destroy, FinGoto, FinRest, WriteOK, WriteFails, MayFail, Fails, Leaving
  <2> QED
    BY <2>1, <2>2, NothingSent, MessageSent
<1>35. ASSUME fin_remove PROVE ChannelOK' /\ Asked'
  <2>1. Stays
    BY <1>35, LifeAssumption DEF TypeOK, Stays, Leaving, fin_remove, FinGoto, FinRest
  <2>2. UNCHANGED <<h2c, c2h>>
    BY <1>35 DEF fin_remove, FinGoto, FinRest
  <2> QED
    BY <2>1, <2>2, NothingSent
<1>36. ASSUME wait_all PROVE ChannelOK' /\ Asked'
  <2>1. Stays
    BY <1>36, LifeAssumption DEF TypeOK, Stays, Leaving, wait_all, FinGoto, FinRest
  <2>2. UNCHANGED <<h2c, c2h>>
    BY <1>36 DEF wait_all, FinGoto, FinRest
  <2> QED
    BY <2>1, <2>2, NothingSent
<1>37. ASSUME kill_all PROVE ChannelOK' /\ Asked'
  <2>1. Stays
    BY <1>37, LifeAssumption DEF TypeOK, Stays, Leaving, kill_all, FinGoto, FinRest, Members
  <2>2. UNCHANGED <<h2c, c2h>>
    BY <1>37 DEF kill_all, FinGoto, FinRest, Members
  <2> QED
    BY <2>1, <2>2, NothingSent
<1>38. ASSUME fin_wait PROVE ChannelOK' /\ Asked'
  <2>1. Stays
    BY <1>38, LifeAssumption DEF TypeOK, Stays, Leaving, fin_wait, FinGoto, FinRest
  <2>2. UNCHANGED <<h2c, c2h>>
    BY <1>38 DEF fin_wait, FinGoto, FinRest
  <2> QED
    BY <2>1, <2>2, NothingSent
<1> QED
  BY <1>1, <1>2, <1>3, <1>4, <1>5, <1>6, <1>7, <1>8, <1>9, <1>10, <1>11, <1>12, <1>13, <1>14, <1>15,
     <1>16, <1>17, <1>18, <1>19, <1>20, <1>21, <1>22, <1>23, <1>24, <1>25, <1>26, <1>27, <1>28,
     <1>29, <1>30, <1>31, <1>32, <1>33, <1>34, <1>35, <1>36, <1>37, <1>38 DEF Next, Create, Call,
     Respond, Dtor, Kill, Fin

-----------------------------------------------------------------------------
(***************************************************************************)
(* Who owns what, and why threads end                                      *)
(***************************************************************************)

\* Each action keeps what is known of threads, references and killers.
LEMMA LifeNext == ASSUME IInv, Next PROVE Life'
<1> USE DEF IInv, objVars, setVars, finVars, cardVars, boundVars, histVars, NoKill, Killer
<1> USE DEF Life, Fresh, Owned, Released, Joined, KillsOwn, Why, ThreadEndsFirst,
           broken, card_fatal, Leaving, Ended
<1>1. ASSUME NEW c \in Ctx, create_channel(c) PROVE Life'
  <2>1. Fresh'
    BY <1>1, LifeAssumption DEF TypeOK, create_channel, Goto, Fails
  <2>2. Owned'
    BY <1>1, LifeAssumption DEF TypeOK, create_channel, Goto, Fails
  <2>3. Released'
    BY <1>1, LifeAssumption DEF TypeOK, create_channel, Goto, Fails
  <2>4. Joined'
    BY <1>1, LifeAssumption DEF TypeOK, create_channel, Goto, Fails
  <2>5. KillsOwn'
    BY <1>1, LifeAssumption DEF TypeOK, create_channel, Goto, Fails
  <2>6. Why'
    BY <1>1, LifeAssumption DEF TypeOK, create_channel, Goto, Fails
  <2>7. ThreadEndsFirst'
    BY <1>1, LifeAssumption DEF TypeOK, create_channel, Goto, Fails
  <2> QED
    BY <2>1, <2>2, <2>3, <2>4, <2>5, <2>6, <2>7
<1>2. ASSUME NEW c \in Ctx, add(c) PROVE Life'
  BY <1>2, LifeAssumption DEF TypeOK, add, Goto
<1>3. ASSUME NEW c \in Ctx, create_start(c) PROVE Life'
  BY <1>3, LifeAssumption DEF TypeOK, create_start, Goto, Fails
<1>4. ASSUME NEW c \in Ctx, create_this(c) PROVE Life'
  <2>1. Released'
    <3>1. /\ \A d \in Ctx : ctxThis'[d] => ctxThis[d] \/ d = c
          /\ leaked' = (leaked \/ resp[c] \in {"release", "done"}) /\ UNCHANGED resp
      BY <1>4 DEF TypeOK, create_this
    <3> QED
      BY <3>1 DEF Released
  <2>2. Fresh'
    BY <1>4, LifeAssumption DEF TypeOK, create_this, Goto
  <2>3. Owned'
    BY <1>4, LifeAssumption DEF TypeOK, create_this, Goto
  <2>4. Joined'
    BY <1>4, LifeAssumption DEF TypeOK, create_this, Goto
  <2>5. KillsOwn'
    BY <1>4, LifeAssumption DEF TypeOK, create_this, Goto
  <2>6. Why'
    BY <1>4, LifeAssumption DEF TypeOK, create_this, Goto
  <2>7. ThreadEndsFirst'
    BY <1>4, LifeAssumption DEF TypeOK, create_this, Goto
  <2> QED
    BY <2>1, <2>2, <2>3, <2>4, <2>5, <2>6, <2>7
<1>5. ASSUME NEW c \in Ctx, create_rings(c) PROVE Life'
  BY <1>5, LifeAssumption DEF TypeOK, create_rings, Goto, MayFail, Fails
<1>6. ASSUME NEW c \in Ctx, create_send(c) PROVE Life'
  <2>1. KillsOwn' /\ Why'
    <3>1. /\ \E pc \in {"wait", "fail"} : u[c] = "send" /\ u' = [u EXCEPT ![c] = pc]
          /\ UNCHANGED <<kill, fin, resp, m_killed, m_critical_error, chanThis>>
      BY <1>6 DEF create_send, Goto, objVars, finVars
    <3> QED
      BY <3>1 DEF TypeOK, KillsOwn, Why, broken, Leaving
  <2>2. Fresh'
    BY <1>6, LifeAssumption DEF TypeOK, create_send, Goto, WriteOK, WriteFails, MayFail, Fails
  <2>3. Owned'
    BY <1>6, LifeAssumption DEF TypeOK, create_send, Goto, WriteOK, WriteFails, MayFail, Fails
  <2>4. Released'
    BY <1>6, LifeAssumption DEF TypeOK, create_send, Goto, WriteOK, WriteFails, MayFail, Fails
  <2>5. Joined'
    BY <1>6, LifeAssumption DEF TypeOK, create_send, Goto, WriteOK, WriteFails, MayFail, Fails
  <2>6. ThreadEndsFirst'
    BY <1>6, LifeAssumption DEF TypeOK, create_send, Goto, WriteOK, WriteFails, MayFail, Fails
  <2> QED
    BY <2>1, <2>2, <2>3, <2>4, <2>5, <2>6
<1>7. ASSUME NEW c \in Ctx, create_wait(c) PROVE Life'
  BY <1>7, LifeAssumption DEF TypeOK, create_wait, Goto
<1>8. ASSUME NEW c \in Ctx, create_reply(c) PROVE Life'
  BY <1>8, LifeAssumption DEF TypeOK, create_reply, Goto
<1>9. ASSUME NEW c \in Ctx, create_fail(c) PROVE Life'
  BY <1>9, LifeAssumption DEF TypeOK, create_fail, Goto
<1>10. ASSUME NEW c \in Ctx, create_failed(c) PROVE Life'
  BY <1>10, LifeAssumption DEF TypeOK, create_failed, Goto
<1>11. ASSUME NEW c \in Ctx, destroy(c) PROVE Life'
  <2>1. Joined' /\ KillsOwn'
    <3>1. /\ u[c] = "up"
          /\ UNCHANGED u \/ u' = [u EXCEPT ![c] = "destroying"]
          /\ \/ UNCHANGED kill
             \/ /\ kill' = [kill EXCEPT ![c] = [c |-> c, pc |-> "test"]]
                /\ u' = [u EXCEPT ![c] = "destroying"]
          /\ UNCHANGED <<fin, resp, m_critical_error>>
      BY <1>11 DEF destroy, Goto, objVars, finVars
    <3>2. Joined'
      BY <3>1, LifeAssumption DEF TypeOK, Joined, broken, Killer
    <3>3. KillsOwn'
      BY <3>1, LifeAssumption DEF TypeOK, KillsOwn, NoKill, Killer
    <3> QED
      BY <3>2, <3>3
  <2>2. Fresh'
    BY <1>11, LifeAssumption DEF TypeOK, destroy, Goto, WriteOK, WriteFails, MayFail, Fails
  <2>3. Owned'
    BY <1>11, LifeAssumption DEF TypeOK, destroy, Goto, WriteOK, WriteFails, MayFail, Fails
  <2>4. Released'
    BY <1>11, LifeAssumption DEF TypeOK, destroy, Goto, WriteOK, WriteFails, MayFail, Fails
  <2>5. Why'
    BY <1>11, LifeAssumption DEF TypeOK, destroy, Goto, WriteOK, WriteFails, MayFail, Fails
  <2>6. ThreadEndsFirst'
    BY <1>11, LifeAssumption DEF TypeOK, destroy, Goto, WriteOK, WriteFails, MayFail, Fails
  <2> QED
    BY <2>1, <2>2, <2>3, <2>4, <2>5, <2>6
<1>12. ASSUME NEW c \in Ctx, destroy_remove(c) PROVE Life'
  BY <1>12, LifeAssumption DEF TypeOK, destroy_remove, Goto
<1>13. ASSUME NEW c \in Ctx, op_find(c) PROVE Life'
  BY <1>13, LifeAssumption DEF TypeOK, op_find
<1>14. ASSUME NEW c \in Ctx, op_send(c) PROVE Life'
  BY <1>14, LifeAssumption DEF TypeOK, op_send, WriteOK, WriteFails, MayFail, Fails
<1>15. ASSUME NEW c \in Ctx, op_wait(c) PROVE Life'
  BY <1>15, LifeAssumption DEF TypeOK, op_wait
<1>16. ASSUME NEW c \in Ctx, reply(c) PROVE Life'
  <2>1. Why'
    <3>1. /\ \A d \in Ctx : u[d] \in {"destroying", "gone"} => u'[d] = u[d]
          /\ UNCHANGED <<kill, fin, resp, m_killed, m_critical_error, chanThis>>
      BY <1>16 DEF TypeOK, reply, objVars, finVars
    <3> QED
      BY <3>1 DEF Why, broken, Leaving
  <2>2. Fresh'
    BY <1>16, LifeAssumption DEF TypeOK, reply, Read
  <2>3. Owned'
    BY <1>16, LifeAssumption DEF TypeOK, reply, Read
  <2>4. Released'
    BY <1>16, LifeAssumption DEF TypeOK, reply, Read
  <2>5. Joined'
    BY <1>16, LifeAssumption DEF TypeOK, reply, Read
  <2>6. KillsOwn'
    BY <1>16, LifeAssumption DEF TypeOK, reply, Read
  <2>7. ThreadEndsFirst'
    BY <1>16, LifeAssumption DEF TypeOK, reply, Read
  <2> QED
    BY <2>1, <2>2, <2>3, <2>4, <2>5, <2>6, <2>7
<1>17. ASSUME NEW c \in Ctx, card_event(c) PROVE Life'
  BY <1>17, LifeAssumption DEF TypeOK, card_event, Read, Notify, Woken
<1>18. ASSUME NEW c \in Ctx, drv_event(c) PROVE Life'
  BY <1>18, LifeAssumption DEF TypeOK, drv_event, Read, Notify, Woken
<1>19. ASSUME NEW c \in Ctx, destroyed(c) PROVE Life'
  <2>1. /\ c2h[c] # <<>> /\ Head(c2h[c]) = "destroyed"
        /\ c2h[c] \in Seq({"created", "refused", "answer", "destroyed", "card", "drv", "eof"})
    BY <1>19 DEF destroyed, Read, ChannelOK
  <2>2. In("destroyed", c2h[c])
    BY <2>1, InTail
  <2>3. Leaving(c)
    BY <2>2 DEF Asked
  <2> QED
    BY <1>19, <2>3, LifeAssumption DEF TypeOK, destroyed, Read
<1>20. ASSUME NEW c \in Ctx, read_fails(c) PROVE Life'
  <2>1. KillsOwn'
    <3>1. /\ \A d \in Ctx : u[d] \in {"failing", "destroying"} => u'[d] = u[d]
          /\ UNCHANGED <<kill, fin>>
      BY <1>20 DEF TypeOK, read_fails, NullResponse, Notify, Woken, objVars, finVars
    <3> QED
      BY <3>1 DEF KillsOwn
  <2>2. Fresh'
    BY <1>20, LifeAssumption DEF TypeOK, read_fails, Read, NullResponse, Notify, Woken
  <2>3. Owned'
    BY <1>20, LifeAssumption DEF TypeOK, read_fails, Read, NullResponse, Notify, Woken
  <2>4. Released'
    BY <1>20, LifeAssumption DEF TypeOK, read_fails, Read, NullResponse, Notify, Woken
  <2>5. Joined'
    BY <1>20, LifeAssumption DEF TypeOK, read_fails, Read, NullResponse, Notify, Woken
  <2>6. Why'
    BY <1>20, LifeAssumption DEF TypeOK, read_fails, Read, NullResponse, Notify, Woken
  <2>7. ThreadEndsFirst'
    BY <1>20, LifeAssumption DEF TypeOK, read_fails, Read, NullResponse, Notify, Woken
  <2> QED
    BY <2>1, <2>2, <2>3, <2>4, <2>5, <2>6, <2>7
<1>21. ASSUME NEW c \in Ctx, release(c) PROVE Life'
  BY <1>21, LifeAssumption DEF TypeOK, release
<1>22. ASSUME NEW c \in Ctx, cancelled(c) PROVE Life'
  BY <1>22, LifeAssumption DEF TypeOK, cancelled, Cancelled
<1>23. ASSUME NEW c \in Ctx, dtor_close(c) PROVE Life'
  BY <1>23, LifeAssumption DEF TypeOK, dtor_close, Unreferenced, CtxRefs
<1>24. ASSUME NEW c \in Ctx, remove_erase(c) PROVE Life'
  BY <1>24, LifeAssumption DEF TypeOK, remove_erase
<1>25. ASSUME NEW c \in Ctx, remove_reset(c) PROVE Life'
  BY <1>25, LifeAssumption DEF TypeOK, remove_reset
<1>26. ASSUME NEW c \in Ctx, card_answer(c) PROVE Life'
  BY <1>26, LifeAssumption DEF TypeOK, card_answer, Host, Fails
<1>27. ASSUME NEW c \in Ctx, card_dies(c) PROVE Life'
  BY <1>27, LifeAssumption DEF TypeOK, card_dies, Host
<1>28. ASSUME NEW p \in Killer, kill_test(p) PROVE Life'
  BY <1>28, LifeAssumption DEF TypeOK, kill_test, KillGoto, KillReturns, Freed
<1>29. ASSUME NEW p \in Killer, kill_join(p) PROVE Life'
  <2>1. Fresh'
    BY <1>29, LifeAssumption DEF TypeOK, kill_join, KillGoto, KillReturns, Freed
  <2>2. Owned'
    BY <1>29, LifeAssumption DEF TypeOK, kill_join, KillGoto, KillReturns, Freed
  <2>3. Released'
    BY <1>29, LifeAssumption DEF TypeOK, kill_join, KillGoto, KillReturns, Freed
  <2>4. Joined'
    BY <1>29, LifeAssumption DEF TypeOK, kill_join, KillGoto, KillReturns, Freed
  <2>5. KillsOwn'
    BY <1>29, LifeAssumption DEF TypeOK, kill_join, KillGoto, KillReturns, Freed
  <2>6. Why'
    BY <1>29, LifeAssumption DEF TypeOK, kill_join, KillGoto, KillReturns, Freed
  <2>7. ThreadEndsFirst'
    BY <1>29, LifeAssumption DEF TypeOK, kill_join, KillGoto, KillReturns, Freed
  <2> QED
    BY <2>1, <2>2, <2>3, <2>4, <2>5, <2>6, <2>7
<1>30. ASSUME NEW p \in Killer, kill_exit(p) PROVE Life'
  BY <1>30, LifeAssumption DEF TypeOK, kill_exit, KillGoto, NullResponse, Notify, Woken, Freed
<1>31. ASSUME NEW p \in Killer, kill_release(p) PROVE Life'
  BY <1>31, LifeAssumption DEF TypeOK, kill_release, KillReturns, Freed
<1>32. ASSUME NEW p \in Killer, kill_freed(p) PROVE Life'
  BY <1>32, LifeAssumption DEF TypeOK, kill_freed, KillReturns, Freed
<1>33. ASSUME fin_start PROVE Life'
  BY <1>33, LifeAssumption DEF TypeOK, fin_start, FinGoto, FinRest
<1>34. ASSUME fin_destroy PROVE Life'
  BY <1>34, LifeAssumption DEF TypeOK, fin_destroy, FinGoto, FinRest, WriteOK, WriteFails, MayFail,
     Fails
<1>35. ASSUME fin_remove PROVE Life'
  BY <1>35, LifeAssumption DEF TypeOK, fin_remove, FinGoto, FinRest
<1>36. ASSUME wait_all PROVE Life'
  BY <1>36, LifeAssumption DEF TypeOK, wait_all, FinGoto, FinRest
<1>37. ASSUME kill_all PROVE Life'
  BY <1>37, LifeAssumption DEF TypeOK, kill_all, FinGoto, FinRest, Members
<1>38. ASSUME fin_wait PROVE Life'
  BY <1>38, LifeAssumption DEF TypeOK, fin_wait, FinGoto, FinRest
<1> QED
  BY <1>1, <1>2, <1>3, <1>4, <1>5, <1>6, <1>7, <1>8, <1>9, <1>10, <1>11, <1>12, <1>13, <1>14, <1>15,
     <1>16, <1>17, <1>18, <1>19, <1>20, <1>21, <1>22, <1>23, <1>24, <1>25, <1>26, <1>27, <1>28,
     <1>29, <1>30, <1>31, <1>32, <1>33, <1>34, <1>35, <1>36, <1>37, <1>38 DEF Next, Create, Call,
     Respond, Dtor, Kill, Fin

\* A step that changes nothing.
LEMMA Stutter == ASSUME IInv, UNCHANGED vars PROVE IInv'
<1> USE DEF vars, objVars, setVars, finVars, cardVars, histVars
<1>1. TypeOK' /\ ChannelOK'
  BY DEF IInv, TypeOK, ChannelOK
<1>2. Asked'
  BY DEF IInv, Asked, Leaving
<1>3. Fresh' /\ Owned' /\ Released' /\ ThreadEndsFirst'
  BY DEF IInv, Life, Fresh, Owned, Released, ThreadEndsFirst
<1>4. Joined' /\ KillsOwn' /\ Why'
  BY DEF IInv, Life, Joined, KillsOwn, Why, broken, Leaving
<1> QED
  BY <1>1, <1>2, <1>3, <1>4 DEF IInv, Life

\* IInv is an invariant of the contexts, whatever the calls and the cards do.
THEOREM Inductive == Spec => []IInv
<1>1. IInv /\ [Next]_vars => IInv'
  BY TypeNext, ChannelNext, LifeNext, Stutter DEF IInv
<1> QED
  BY InitInv, <1>1, PTL DEF Spec

\* nnpiChannel.cpp:173: "When we get here the response thread is either canceled
\* and joined, or is currently exiting": so it is in every ~nnpiChannel.
THEOREM ThreadsEndFirst == Spec => []ThreadEndsFirst
<1>1. IInv => ThreadEndsFirst
  BY DEF IInv, Life
<1> QED
  BY <1>1, Inductive, PTL

\* The response thread ends before what it uses, leaves nobody waiting for it, and
\* takes the references that context and channel hold to themselves with it.
THEOREM EndsAreRight == Spec => []EndsRight
<1>1. IInv => EndsBroken
  <2> SUFFICES ASSUME IInv, NEW c \in Ctx, resp[c] \in Ended
               PROVE  \/ broken(c) \/ u[c] \in {"destroying", "gone"}
                      \/ (\E p \in Killer : kill[p].c = c) \/ fin # "idle"
    BY DEF EndsBroken, Ended
  <2>1. CASE kill[c].pc \in {"join", "exit"}
    <3>1. kill[c] # NoKill
      BY <2>1 DEF NoKill
    <3> QED
      BY <3>1 DEF IInv, Life, KillsOwn, Killer
  <2>2. CASE kill[c].pc \notin {"join", "exit"}
    BY <2>2 DEF IInv, Life, Why, Leaving, Ended
  <2> QED
    BY <2>1, <2>2
<1>2. IInv => NotLeaked
  BY DEF IInv, Life, Owned, Released, NotLeaked
<1>3. IInv => TypeOK /\ ThreadEndsFirst
  BY DEF IInv, Life
<1>4. IInv => EndsRight
  BY <1>1, <1>2, <1>3 DEF EndsRight
<1> QED
  BY <1>4, Inductive, PTL
==============================================================================
