------------------------------ MODULE InfContext ------------------------------
(***************************************************************************)
(* nnpiInfContext (src/nnpi_drv/nnpiInfContext.{h,cpp}): how the threads   *)
(* of an application create and destroy objects of the card over the       *)
(* channel of a context, and how the context breaks and is recovered.      *)
(*                                                                         *)
(* A create allocates a protocol id, sends a request and waits until the   *)
(* response thread has put the card's answer into m_create_reply, or the   *)
(* context is broken.  All waits are on the one condition variable of      *)
(* m_waitq: a thread tests its condition ("wait") and sleeps ("asleep")    *)
(* until the next notify_all.                                              *)
(*                                                                         *)
(* nnpiIDA is used by what module IDA proves of it: alloc hands out an id  *)
(* that is not held, the least one, and free may be called only for a      *)
(* held one.  The card is external: it answers requests in order.          *)
(***************************************************************************)
EXTENDS Integers, Sequences, FiniteSets

CONSTANTS
    Thread,       \* threads of the application
    Does,         \* [Thread -> Kind]: the objects a thread creates
    MaxId,        \* the largest protocol id of a kind
    MaxCreates,   \* bound: [Thread -> creates of the thread]
    MaxBreaks,    \* bound: times that the card reports the context broken
    MaxRecovers,  \* bound: calls of recover
    CardDies      \* may the card be lost?

Kind == {"DEVRES", "COPY", "DEVNET", "INFREQ", "CMD"}
Id == 0 .. MaxId
NoOne == "none"

ASSUME ContextAssumption ==
    /\ IsFiniteSet(Thread) /\ NoOne \notin Thread /\ Does \in [Thread -> Kind]
    /\ MaxCreates \in [Thread -> Nat]
    /\ {MaxId, MaxBreaks, MaxRecovers} \subseteq Nat
    /\ CardDies \in BOOLEAN

\* createDevRes and createCopy give the id back when they fail; nnpiDevNet::
\* create, nnpiInfReq::create and nnpiCommandList do not.
FreesOnFailure == {"DEVRES", "COPY"}

\* Objects that nnpiContextObjDB knows.
InDB == Kind \ {"DEVRES"}

\* create returns NNP_CONTEXT_BROKEN at once, before it allocates an id.
TestsFirst == {"DEVRES", "INFREQ", "CMD"}

VARIABLES
    m_critical_error, m_create_reply, m_cmdlist_finalized_in_progress,
    m_mutex,    \* the thread that holds the context's mutex
    objdb,      \* the objects in nnpiContextObjDB, as <<kind, id>>
    held,       \* [Kind -> ids that nnpiIDA has handed out]
    exited,     \* the response thread has left
    pc, my, answer, creates,  \* of a thread: position, id, answer, number of creates
    live,       \* objects that the application has
    rec, saved, listDone, recovers,  \* recover: position, saved error, m_errorList
    h2c, c2h,   \* the channel
    cardObj, dead, breaks  \* the card

ctxVars == <<m_critical_error, m_create_reply, m_cmdlist_finalized_in_progress, m_mutex>>
dbVars == <<objdb, held, exited>>
threadVars == <<pc, my, answer, creates, live>>
recVars == <<rec, saved, listDone, recovers>>
cardVars == <<cardObj, dead, breaks>>
vars == <<ctxVars, dbVars, threadVars, recVars, h2c, c2h, cardVars>>

broken == m_critical_error # "none"

\* A fatal event of the driver, or the killed channel; not a fatal event of the
\* card's own software ("fatal").
card_fatal == m_critical_error = "card"

None == [res |-> "none", by |-> <<>>]

Init ==
    /\ m_critical_error = "none"
    /\ m_create_reply = [x \in {} |-> None]
    /\ m_cmdlist_finalized_in_progress = 0
    /\ m_mutex = NoOne
    /\ objdb = {} /\ held = [k \in Kind |-> {}] /\ exited = FALSE
    /\ pc = [t \in Thread |-> "idle"]
    /\ my = [t \in Thread |-> 0]
    /\ answer = [t \in Thread |-> None]
    /\ creates = [t \in Thread |-> 0]
    /\ live = {}
    /\ rec = "idle" /\ saved = "none" /\ listDone = FALSE /\ recovers = 0
    /\ h2c = <<>> /\ c2h = <<>>
    /\ cardObj = {} /\ dead = FALSE /\ breaks = 0

Key(t) == <<Does[t], my[t]>>
Goto(t, to) == pc' = [pc EXCEPT ![t] = to]
Leave(t) ==
    /\ Goto(t, "idle")
    /\ my' = [my EXCEPT ![t] = 0]
    /\ answer' = [answer EXCEPT ![t] = None]
Msg(op, key, by) == [op |-> op, key |-> key, by |-> by]

\* m_waitq.update_and_notify: every thread that sleeps tests again.
Notify ==
    /\ pc' = [t \in Thread |-> IF pc[t] = "asleep" THEN "wait" ELSE pc[t]]
    /\ rec' = IF rec = "asleep" THEN "wait" ELSE rec

-----------------------------------------------------------------------------
(***************************************************************************)
(* Create                                                                  *)
(***************************************************************************)

\* The id is allocated; a command list is an object of the host from now on.
create(t) ==
    LET k == Does[t] IN
    /\ pc[t] = "idle" /\ creates[t] < MaxCreates[t]
    /\ k \in TestsFirst => ~broken
    /\ \E id \in Id \ held[k] :
          /\ \A i \in Id \ held[k] : id <= i
          /\ my' = [my EXCEPT ![t] = id]
          /\ held' = [held EXCEPT ![k] = @ \cup {id}]
          /\ objdb' = IF k = "CMD" THEN objdb \cup {<<k, id>>} ELSE objdb
    /\ creates' = [creates EXCEPT ![t] = @ + 1]
    /\ Goto(t, "alloc")
    /\ UNCHANGED <<ctxVars, exited, answer, live, recVars, h2c, c2h, cardVars>>

\* finalize: cmdlist_finalized_add(1).
finalize(t) ==
    /\ pc[t] = "alloc" /\ Does[t] = "CMD"
    /\ m_cmdlist_finalized_in_progress' = m_cmdlist_finalized_in_progress + 1
    /\ pc' = [u \in Thread |-> CASE u = t -> "counted"
                                 [] pc[u] = "asleep" -> "wait"
                                 [] OTHER -> pc[u]]
    /\ rec' = IF rec = "asleep" THEN "wait" ELSE rec
    /\ UNCHANGED <<m_critical_error, m_create_reply, m_mutex, dbVars, my, answer, creates, live,
                   saved, listDone, recovers, h2c, c2h, cardVars>>

\* The request is written; all but the command lists hold the context's mutex
\* from here until they have the answer.
send(t) ==
    /\ \/ pc[t] = "alloc" /\ Does[t] # "CMD" /\ m_mutex = NoOne /\ m_mutex' = t
       \/ pc[t] = "counted" /\ UNCHANGED m_mutex
    /\ ~dead
    /\ Does[t] \in {"DEVNET", "CMD"} => ~broken
    /\ h2c' = Append(h2c, Msg("create", Key(t), <<t, creates[t]>>))
    /\ Goto(t, "wait")
    /\ UNCHANGED <<m_critical_error, m_create_reply, m_cmdlist_finalized_in_progress, dbVars,
                   my, answer, creates, live, recVars, c2h, cardVars>>

\* The write fails, or a network finds the context broken under the mutex.
send_fail(t) ==
    /\ pc[t] = "alloc" /\ Does[t] # "CMD" /\ m_mutex = NoOne
    /\ dead \/ (Does[t] = "DEVNET" /\ broken)
    /\ Goto(t, "failed")
    /\ UNCHANGED <<ctxVars, dbVars, my, answer, creates, live, recVars, h2c, c2h, cardVars>>

\* Mutant: the count is not taken back.
finalize_fail_counted(t) ==
    /\ pc[t] = "counted"
    /\ dead \/ broken
    /\ UNCHANGED m_cmdlist_finalized_in_progress
    /\ pc' = [u \in Thread |-> CASE u = t -> "failed"
                                 [] pc[u] = "asleep" -> "wait"
                                 [] OTHER -> pc[u]]
    /\ rec' = IF rec = "asleep" THEN "wait" ELSE rec
    /\ UNCHANGED <<m_critical_error, m_create_reply, m_mutex, dbVars, my, answer, creates, live,
                   saved, listDone, recovers, h2c, c2h, cardVars>>

\* finalize takes its count back when send_to_card fails.
finalize_fail(t) ==
    /\ pc[t] = "counted"
    /\ dead \/ broken
    /\ m_cmdlist_finalized_in_progress' = m_cmdlist_finalized_in_progress - 1
    /\ pc' = [u \in Thread |-> CASE u = t -> "failed"
                                 [] pc[u] = "asleep" -> "wait"
                                 [] OTHER -> pc[u]]
    /\ rec' = IF rec = "asleep" THEN "wait" ELSE rec
    /\ UNCHANGED <<m_critical_error, m_create_reply, m_mutex, dbVars, my, answer, creates, live,
                   saved, listDone, recovers, h2c, c2h, cardVars>>

\* Mutant: the answer is not erased.
wait_create_command_keeps(t) ==
    /\ pc[t] = "wait"
    /\ broken \/ Key(t) \in DOMAIN m_create_reply
    /\ IF broken
       THEN /\ answer' = [answer EXCEPT ![t] = None]
            /\ UNCHANGED m_create_reply
       ELSE /\ answer' = [answer EXCEPT ![t] = m_create_reply[Key(t)]]
            /\ UNCHANGED m_create_reply
    /\ Goto(t, IF answer'[t].res = "success" THEN "created" ELSE "failed")
    /\ m_mutex' = IF m_mutex = t THEN NoOne ELSE m_mutex
    /\ UNCHANGED <<m_critical_error, m_cmdlist_finalized_in_progress, dbVars, my, creates, live,
                   recVars, h2c, c2h, cardVars>>

\* wait_create_command: there is an answer, or the context is broken, which
\* comes first and leaves an answer where it is.
wait_create_command(t) ==
    /\ pc[t] = "wait"
    /\ broken \/ Key(t) \in DOMAIN m_create_reply
    /\ IF broken
       THEN /\ answer' = [answer EXCEPT ![t] = None]
            /\ UNCHANGED m_create_reply
       ELSE /\ answer' = [answer EXCEPT ![t] = m_create_reply[Key(t)]]
            /\ m_create_reply' = [x \in DOMAIN m_create_reply \ {Key(t)} |-> m_create_reply[x]]
    /\ Goto(t, IF answer'[t].res = "success" THEN "created" ELSE "failed")
    /\ m_mutex' = IF m_mutex = t THEN NoOne ELSE m_mutex
    /\ UNCHANGED <<m_critical_error, m_cmdlist_finalized_in_progress, dbVars, my, creates, live,
                   recVars, h2c, c2h, cardVars>>

wait_sleep(t) ==
    /\ pc[t] = "wait"
    /\ ~broken /\ Key(t) \notin DOMAIN m_create_reply
    /\ Goto(t, "asleep")
    /\ UNCHANGED <<ctxVars, dbVars, my, answer, creates, live, recVars, h2c, c2h, cardVars>>

\* The object is made, entered into the database and given to the application.
create_success(t) ==
    /\ pc[t] = "created"
    /\ objdb' = IF Does[t] \in InDB THEN objdb \cup {Key(t)} ELSE objdb
    /\ live' = live \cup {Key(t)}
    /\ Goto(t, "have")
    /\ UNCHANGED <<ctxVars, held, exited, my, answer, creates, recVars, h2c, c2h, cardVars>>

\* Mutant: the id is not given back.
create_failure_leaks(t) ==
    /\ pc[t] = "failed"
    /\ UNCHANGED held
    /\ objdb' = objdb \ {Key(t)}
    /\ Leave(t)
    /\ UNCHANGED <<ctxVars, exited, creates, live, recVars, h2c, c2h, cardVars>>

\* The create has failed.  The application gives a command list up, which is
\* destroyed before it was finalized: it leaves the database, its id stays held.
create_failure(t) ==
    /\ pc[t] = "failed"
    /\ held' = IF Does[t] \in FreesOnFailure THEN [held EXCEPT ![Does[t]] = @ \ {my[t]}] ELSE held
    /\ objdb' = objdb \ {Key(t)}
    /\ Leave(t)
    /\ UNCHANGED <<ctxVars, exited, creates, live, recVars, h2c, c2h, cardVars>>

\* destroy: the id is in use until the card has confirmed.  When the card is
\* known to be lost nothing is sent.  When the write fails the application
\* keeps its object, except for an inference request.
destroy(t) ==
    /\ pc[t] = "have"
    /\ card_fatal \/ ~dead \/ Does[t] = "INFREQ"
    /\ h2c' = IF card_fatal \/ dead THEN h2c ELSE Append(h2c, Msg("destroy", Key(t), <<>>))
    /\ live' = live \ {Key(t)}
    /\ Leave(t)
    /\ UNCHANGED <<ctxVars, dbVars, creates, recVars, c2h, cardVars>>

CreateStep(t) ==
    \/ finalize(t) \/ send(t) \/ send_fail(t) \/ finalize_fail(t)
    \/ wait_create_command(t) \/ wait_sleep(t) \/ create_success(t) \/ create_failure(t)

-----------------------------------------------------------------------------
(***************************************************************************)
(* recover                                                                 *)
(***************************************************************************)

\* The error is taken away before the card is asked, and nobody is notified.
\* Of a context that is not broken, was aborted or lost its card nothing changes.
recover(x) ==
    /\ rec = "idle" /\ recovers < MaxRecovers
    /\ m_critical_error = x /\ x \notin {"none", "abort", "card"}
    /\ saved' = x
    /\ m_critical_error' = "none"
    /\ listDone' = FALSE
    /\ recovers' = recovers + 1
    /\ rec' = "send"
    /\ UNCHANGED <<m_create_reply, m_cmdlist_finalized_in_progress, m_mutex, dbVars, threadVars,
                   h2c, c2h, cardVars>>

\* sendQueryErrorList, under the context's mutex.
recover_send ==
    /\ rec = "send" /\ m_mutex = NoOne
    /\ IF dead
       THEN rec' = "fail" /\ UNCHANGED h2c
       ELSE rec' = "wait" /\ h2c' = Append(h2c, Msg("clear", <<>>, <<>>))
    /\ UNCHANGED <<ctxVars, dbVars, threadVars, saved, listDone, recovers, c2h, cardVars>>

\* waitErrorListQueryCompletion.
recover_wait ==
    /\ rec = "wait"
    /\ rec' = IF broken THEN "fail" ELSE IF listDone THEN "done" ELSE "asleep"
    /\ UNCHANGED <<ctxVars, dbVars, threadVars, saved, listDone, recovers, h2c, c2h, cardVars>>

\* On failure the error is put back, again without a notification.
recover_end ==
    /\ rec \in {"fail", "done"}
    /\ m_critical_error' = IF rec = "fail" /\ ~broken THEN saved ELSE m_critical_error
    /\ rec' = "idle"
    /\ UNCHANGED <<m_create_reply, m_cmdlist_finalized_in_progress, m_mutex, dbVars, threadVars,
                   saved, listDone, recovers, h2c, c2h, cardVars>>

RecoverStep == recover_send \/ recover_wait \/ recover_end

-----------------------------------------------------------------------------
(***************************************************************************)
(* The response thread handles one message at a time.                      *)
(***************************************************************************)
Receive(op) ==
    /\ ~exited /\ c2h # <<>> /\ Head(c2h).op = op
    /\ c2h' = Tail(c2h)

process_create_reply(op) ==
    LET ev == Head(c2h) IN
    /\ op \in {"success", "failure"}
    /\ Receive(op)
    /\ m_create_reply' =
           [x \in DOMAIN m_create_reply \cup {ev.key} |->
               IF x = ev.key THEN [res |-> op, by |-> ev.by] ELSE m_create_reply[x]]
    /\ m_cmdlist_finalized_in_progress' =
           IF ev.key[1] = "CMD" /\ m_cmdlist_finalized_in_progress > 0
           THEN m_cmdlist_finalized_in_progress - 1 ELSE m_cmdlist_finalized_in_progress
    /\ Notify
    /\ UNCHANGED <<m_critical_error, m_mutex, dbVars, my, answer, creates, live,
                   saved, listDone, recovers, h2c, cardVars>>

\* DEVRES_DESTROYED, COPY_DESTROYED, ...: the database forgets the object and
\* the id is free.
destroyed ==
    LET key == Head(c2h).key IN
    /\ Receive("destroyed")
    /\ objdb' = objdb \ {key}
    /\ held' = [held EXCEPT ![key[1]] = @ \ {key[2]}]
    /\ UNCHANGED <<ctxVars, exited, threadVars, recVars, h2c, cardVars>>

\* Mutant: nobody is notified.
critical_error_silent(op) ==
    /\ op \in {"context", "fatal", "abort"}
    /\ Receive(op)
    /\ m_critical_error' = IF ~broken \/ op = "abort" THEN op ELSE m_critical_error
    /\ UNCHANGED <<pc, rec>>
    /\ UNCHANGED <<m_create_reply, m_cmdlist_finalized_in_progress, m_mutex, dbVars, my, answer,
                   creates, live, saved, listDone, recovers, h2c, cardVars>>

\* A context-fatal or card-fatal event is kept if it is the first error,
\* NNP_IPC_ABORT_REQUEST overrides.
critical_error(op) ==
    /\ op \in {"context", "fatal", "abort"}
    /\ Receive(op)
    /\ m_critical_error' = IF ~broken \/ op = "abort" THEN op ELSE m_critical_error
    /\ Notify
    /\ UNCHANGED <<m_create_reply, m_cmdlist_finalized_in_progress, m_mutex, dbVars, my, answer,
                   creates, live, saved, listDone, recovers, h2c, cardVars>>

\* Mutant: nobody is notified.
errors_cleared_silent ==
    /\ Receive("cleared")
    /\ listDone' = TRUE
    /\ UNCHANGED <<pc, rec>>
    /\ UNCHANGED <<ctxVars, dbVars, my, answer, creates, live, saved, recovers, h2c, cardVars>>

\* clearRequestSucceeded
errors_cleared ==
    /\ Receive("cleared")
    /\ listDone' = TRUE
    /\ Notify
    /\ UNCHANGED <<ctxVars, dbVars, my, answer, creates, live, saved, recovers, h2c, cardVars>>

\* The thread leaves: for a card-fatal event of the driver, which sets the
\* critical error if there is none ("lost"), or because the channel was killed,
\* which always sets it.
response_exit(op) ==
    /\ op \in {"lost", "killed"}
    /\ Receive(op)
    /\ m_critical_error' = IF op = "killed" \/ ~broken THEN "card" ELSE m_critical_error
    /\ objdb' = {}
    /\ exited' = TRUE
    /\ Notify
    /\ UNCHANGED <<m_create_reply, m_cmdlist_finalized_in_progress, m_mutex, held, my, answer,
                   creates, live, saved, listDone, recovers, h2c, cardVars>>

RespStep ==
    \/ \E op \in {"success", "failure"} : process_create_reply(op)
    \/ destroyed
    \/ \E op \in {"context", "fatal", "abort"} : critical_error(op)
    \/ errors_cleared
    \/ \E op \in {"lost", "killed"} : response_exit(op)

-----------------------------------------------------------------------------
(***************************************************************************)
(* The card (external)                                                     *)
(***************************************************************************)

\* The answer to the next request.  A card refuses to create what it has.
card_answer ==
    LET m == Head(h2c) IN
    /\ ~dead /\ h2c # <<>>
    /\ h2c' = Tail(h2c)
    /\ \/ /\ m.op = "create" /\ m.key \notin cardObj
          /\ c2h' = Append(c2h, Msg("success", m.key, m.by))
          /\ cardObj' = cardObj \cup {m.key}
       \/ /\ m.op = "create"
          /\ c2h' = Append(c2h, Msg("failure", m.key, m.by))
          /\ UNCHANGED cardObj
       \/ /\ m.op = "destroy"
          /\ c2h' = Append(c2h, Msg("destroyed", m.key, <<>>))
          /\ cardObj' = cardObj \ {m.key}
       \/ /\ m.op = "clear"
          /\ c2h' = Append(c2h, Msg("cleared", <<>>, <<>>))
          /\ UNCHANGED cardObj
    /\ UNCHANGED <<ctxVars, dbVars, threadVars, recVars, dead, breaks>>

\* The card reports the context broken, or that it aborts it.
card_breaks(op) ==
    /\ ~dead /\ breaks < MaxBreaks
    /\ op \in {"context", "abort"}
    /\ breaks' = breaks + 1
    /\ c2h' = Append(c2h, Msg(op, <<>>, <<>>))
    /\ UNCHANGED <<ctxVars, dbVars, threadVars, recVars, h2c, cardObj, dead>>

\* The card says that it is lost, the driver does, or the channel is killed.
\* From then on the driver refuses to write.
card_dies(op) ==
    /\ ~dead /\ CardDies
    /\ op \in {"fatal", "lost", "killed"}
    /\ dead' = TRUE
    /\ c2h' = Append(c2h, Msg(op, <<>>, <<>>))
    /\ UNCHANGED <<ctxVars, dbVars, threadVars, recVars, h2c, cardObj, breaks>>

Next ==
    \/ \E t \in Thread : create(t) \/ CreateStep(t) \/ destroy(t)
    \/ \E x \in {"context", "fatal"} : recover(x)
    \/ RecoverStep
    \/ RespStep
    \/ card_answer
    \/ \E op \in {"context", "abort"} : card_breaks(op)
    \/ \E op \in {"fatal", "lost", "killed"} : card_dies(op)

Spec == Init /\ [][Next]_vars

(***************************************************************************)
(* Threads that can run do run, and a card that is alive answers.  Nobody  *)
(* is obliged to create, destroy or recover.                               *)
(***************************************************************************)
Fairness ==
    /\ \A t \in Thread : WF_vars(CreateStep(t))
    /\ WF_vars(RecoverStep)
    /\ WF_vars(RespStep)
    /\ WF_vars(card_answer)

FairSpec == Spec /\ Fairness

-----------------------------------------------------------------------------
(***************************************************************************)
(* Properties                                                              *)
(***************************************************************************)
Object == Kind \X Id
Creating == {"alloc", "counted", "wait", "asleep", "created", "failed"}
Waiting == {"wait", "asleep"}
Request == Thread \X Nat

\* Types of the context's members, the threads and the channel.
TypeOK ==
    /\ m_critical_error \in {"none", "context", "fatal", "abort", "card"}
    /\ DOMAIN m_create_reply \subseteq Object
    /\ \A x \in DOMAIN m_create_reply :
          m_create_reply[x] \in [res : {"success", "failure"}, by : Request]
    /\ m_cmdlist_finalized_in_progress \in Nat
    /\ m_mutex \in Thread \cup {NoOne}
    /\ objdb \subseteq Object /\ held \in [Kind -> SUBSET Id] /\ exited \in BOOLEAN
    /\ pc \in [Thread -> Creating \cup {"idle", "have"}]
    /\ my \in [Thread -> Id] /\ creates \in [Thread -> Nat]
    /\ live \subseteq Object
    /\ rec \in {"idle", "send", "wait", "asleep", "fail", "done"}
    /\ saved \in {"none", "context", "fatal"} /\ listDone \in BOOLEAN
    /\ dead \in BOOLEAN

\* The parties that an object's protocol id belongs to: threads that create it,
\* the application, a destroy request or its confirmation.
InFlight(q, op, key) == {i \in DOMAIN q : q[i].op = op /\ q[i].key = key}
Owners(key) ==
      Cardinality({t \in Thread : pc[t] \in Creating /\ Key(t) = key})
    + Cardinality(live \cap {key})
    + Cardinality(InFlight(h2c, "destroy", key))
    + Cardinality(InFlight(c2h, "destroyed", key))

\* A protocol id has one owner at a time, which holds it: no two objects share
\* an id, and the response thread, which calls nnpiIDA::free for whatever id
\* the card confirms, frees held ids only, each once.
OneOwner ==
    \A key \in Object : Owners(key) <= 1 /\ (Owners(key) = 1 => key[2] \in held[key[1]])

\* Until the card is lost no id of a device resource or copy is lost, however
\* creates fail and the context breaks and is recovered.
NoIdLost ==
    ~dead => \A k \in FreesOnFailure : \A id \in held[k] : Owners(<<k, id>>) = 1

\* Every object that the application has, or whose destroy is in flight, is in
\* nnpiContextObjDB while the response thread runs: the events about it find it
\* (otherwise the handler logs "not existing" and skips its work).
EventsFindObjects ==
    ~exited => \A key \in Object :
        /\ key[1] \in InDB
        /\ key \in live \/ InFlight(h2c, "destroy", key) # {} \/ InFlight(c2h, "destroyed", key) # {}
        => key \in objdb

\* m_cmdlist_finalized_in_progress, which holds back every schedule of a command
\* list (wait_can_schedule), counts the finalizes that the card has not
\* answered, also of those that gave up because the context broke.
FinalizeCountExact ==
    ~exited =>
      m_cmdlist_finalized_in_progress =
          Cardinality({t \in Thread : pc[t] = "counted"})
        + Cardinality({i \in DOMAIN h2c : h2c[i].op = "create" /\ h2c[i].key[1] = "CMD"})
        + Cardinality({i \in DOMAIN c2h : c2h[i].op \in {"success", "failure"}
                                            /\ c2h[i].key[1] = "CMD"})

Mine(t) == answer[t].by \in {<<>>, <<t, creates[t]>>}

\* wait_create_command returns the answer to the caller's own request, not to
\* an earlier one with the same id.
AnswerIsMine == \A t \in Thread : pc[t] \in {"created", "failed", "have"} => Mine(t)

\* The same, of a context that was never recovered.
AnswerIsMineUnlessRecovered == recovers = 0 => AnswerIsMine

\* A thread that waits for the card's answer does not wait forever, unless the
\* context is recovered under it.
CreateEndsUnlessRecovered ==
    \A t \in Thread : pc[t] \in Waiting ~> (pc[t] \notin Waiting \/ recovers > 0)

\* The same, as long as the card is not lost: the creators that keep the mutex
\* from it have their answers in the end.
RecoverEndsWhileAlive == rec # "idle" ~> (rec = "idle" \/ dead)

\* Protocol ids and the database of objects: an id has one owner and none is
\* lost, and the events about an object find it.
IdsRight == TypeOK /\ OneOwner /\ NoIdLost /\ EventsFindObjects
=============================================================================
