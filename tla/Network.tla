------------------------------- MODULE Network -------------------------------
(***************************************************************************)
(* A network and its inference requests: nnpiDevNet, nnpiInfReq and the    *)
(* calls of the API on their handles (src/nnpi_drv/nnpiDevNet.cpp,         *)
(* nnpiInfReq.cpp, nnpiHandleMap.h, nnpiInference.cpp).                    *)
(*                                                                         *)
(* One thread builds the network from files (nnpdrvCreateDeviceNetwork);   *)
(* then threads add resources to it, set properties, create and destroy    *)
(* requests and destroy it, each call as the steps that other threads can  *)
(* come between: find in the handle map, the tests, the mutex of the       *)
(* context, each page of the command, the wait and what follows it.        *)
(* The ids of the requests are those of the network's own nnpiIDA: this    *)
(* module extends IDA.  How a waiter sleeps and is woken is in InfContext. *)
(*                                                                         *)
(* The card is external: it does what it is asked in order, refuses what   *)
(* it cannot do, and keeps a network until its last request is gone.       *)
(***************************************************************************)
EXTENDS IDA, Sequences

CONSTANTS
    Thread,
    Builder,          \* the thread that builds the network
    Does,             \* [Thread -> the calls it makes]
    Page,             \* ids and bytes of configuration in a page
    Sizes,            \* the <<resources, configuration>> that callers pass
    MaxCalls,         \* bound: [Thread -> calls of the thread]
    MaxFails          \* bound: calls, writes and requests that fail, and fatal events

Call == {"add", "property", "create", "destroy", "destroy_net"}
NoOne == "none"

ASSUME NetworkAssumption ==
    /\ Builder \in Thread /\ NoOne \notin Thread /\ Does \in [Thread -> SUBSET Call]
    /\ Page \in Nat \ {0} /\ MaxCalls \in [Thread -> Nat] /\ MaxFails \in Nat
    /\ \A s \in Sizes : s \in Nat \X Nat /\ s[1] + s[2] > 0

VARIABLES
    thr,                \* of a thread: position pc, call op, its argument arg, the answer got
    calls,
    s_networks,         \* does the handle map have the network?
    s_infreqs,          \* the requests in the handle map, as <<id, number>>
    netDB, reqDB,       \* the network, and the ids of requests, in nnpiContextObjDB
    m_devres_vec,       \* its length
    m_mutex, m_create_reply, m_critical_error,  \* of the context
    exited,             \* the response thread has left
    sent,               \* what send_create_or_add has sent: <<resources, configuration>>
    h2c, c2h,           \* the channel
    cardNet, cardRes, cardReq, chain,  \* the card: the network, its resources, requests, the command it reads
    fails, made,        \* failures; requests made so far
    leaked,             \* history: ids of requests whose creation, or destruction, failed
    hist                \* history: what happened that a property is about

idaVars == <<m_free_ranges, m_num_alloc, held>>
mapVars == <<s_networks, s_infreqs, netDB, reqDB>>
cardVars == <<cardNet, cardRes, cardReq, chain>>
netVars == <<thr, calls, idaVars, mapVars, m_devres_vec, m_mutex, m_create_reply, m_critical_error,
             exited, sent, h2c, c2h, cardVars, fails, made, leaked, hist>>

broken == m_critical_error # "none"
card_fatal == m_critical_error = "card"

\* What a call is answered: by the card of an operation, or by the driver.
Success(of) == [of |-> of, ok |-> TRUE]
Failure(of) == [of |-> of, ok |-> FALSE]

Idle == [pc |-> "idle", op |-> "none", arg |-> <<0, 0>>, got |-> Failure("none")]

NetInit ==
    /\ Init
    /\ thr = [t \in Thread |-> IF t = Builder THEN [Idle EXCEPT !.pc = "file0", !.op = "build"] ELSE Idle]
    /\ calls = [t \in Thread |-> 0]
    /\ s_networks = FALSE /\ s_infreqs = {} /\ netDB = FALSE /\ reqDB = {}
    /\ m_devres_vec = 0 /\ m_mutex = NoOne /\ m_create_reply = [k \in {} |-> "none"] /\ m_critical_error = "none"
    /\ exited = FALSE /\ sent = <<0, 0>>
    /\ h2c = <<>> /\ c2h = <<>>
    /\ cardNet = "none" /\ cardRes = 0 /\ cardReq = {} /\ chain = <<>>
    /\ fails = 0 /\ made = 0 /\ leaked = {} /\ hist = {}

Goto(t, to) == thr' = [thr EXCEPT ![t] = IF to = "idle" THEN Idle ELSE [@ EXCEPT !.pc = to]]
GotoWith(t, to, r) == thr' = [thr EXCEPT ![t].pc = to, ![t].got = r]
Leave(t) == Goto(t, "idle")
Fails == fails < MaxFails /\ fails' = fails + 1
Note(what, if) == hist' = IF if THEN hist \cup {what} ELSE hist

-----------------------------------------------------------------------------
(***************************************************************************)
(* nnpdrvCreateDeviceNetwork                                               *)
(***************************************************************************)

\* nnpdrvCreateDeviceResourceFromFile: a resource is made and loaded.  Without the first
\* file there is no network; the second one is there for some names only, and is done
\* without when it cannot be loaded.
from_file(t) ==
    LET first == thr[t].pc = "file0"
        n == thr[t].arg[1]
        With(to, k) == thr' = [thr EXCEPT ![t].pc = to, ![t].arg = <<k, 1>>]
    IN /\ thr[t].pc \in {"file0", "file1"}
       /\ \/ ~broken /\ With("lock", n + 1) /\ UNCHANGED fails
          \/ ~broken /\ first /\ With("file1", n + 1) /\ UNCHANGED fails
          \/ /\ IF broken THEN UNCHANGED fails ELSE Fails
             /\ IF first THEN Leave(t) ELSE With("lock", n)
       /\ UNCHANGED <<calls, idaVars, mapVars, m_devres_vec, m_mutex, m_create_reply, m_critical_error, exited, sent,
                      h2c, c2h, cardVars, made, leaked, hist>>

\* nnpdrvCreateDeviceNetworkWithResources got its answer: the network is put into the
\* database and the handle map.  Either way the handles of the resources are destroyed.
build_done(t) ==
    /\ thr[t].pc = "answered" /\ thr[t].op = "build" /\ Leave(t)
    /\ IF thr[t].got = Success("build")
       THEN netDB' = TRUE /\ s_networks' = TRUE /\ m_devres_vec' = thr[t].arg[1]
       ELSE UNCHANGED <<netDB, s_networks, m_devres_vec>>
    /\ UNCHANGED <<calls, idaVars, s_infreqs, reqDB, m_mutex, m_create_reply, m_critical_error, sent,
                   h2c, c2h, exited, cardVars, fails, made, leaked, hist>>

-----------------------------------------------------------------------------
(***************************************************************************)
(* The start of each call: find in a handle map                            *)
(***************************************************************************)

start(t, c, to, a) ==
    /\ thr[t].pc = "idle" /\ c \in Does[t] /\ calls[t] < MaxCalls[t]
    /\ calls' = [calls EXCEPT ![t] = @ + 1]
    /\ thr' = [thr EXCEPT ![t].pc = to, ![t].op = c, ![t].arg = a]
    /\ UNCHANGED <<idaVars, mapVars, m_devres_vec, m_mutex, m_create_reply, m_critical_error, exited, sent,
                   h2c, c2h, cardVars, fails, made, leaked>>

find_network(t, c) ==
    /\ c # "destroy" /\ s_networks /\ UNCHANGED hist
    /\ \E s \in IF c = "add" THEN Sizes ELSE {<<0, 0>>} : start(t, c, c, s)

find_infreq(t, r) ==
    /\ r \in s_infreqs /\ start(t, "destroy", "destroy", r)
    /\ Note("twice", \E u \in Thread : thr[u].pc \in {"destroy", "remove"} /\ thr[u].op = "destroy" /\ thr[u].arg = r)

-----------------------------------------------------------------------------
(***************************************************************************)
(* nnpiDevNet::create and add_resources                                    *)
(***************************************************************************)

\* A network that has requests gets no more resources.
add_test(t) ==
    /\ thr[t].pc = "add" /\ Goto(t, IF m_num_alloc > 0 THEN "idle" ELSE "lock")
    /\ UNCHANGED <<calls, idaVars, mapVars, m_devres_vec, m_mutex, m_create_reply, m_critical_error, sent,
                   h2c, c2h, exited, cardVars, fails, made, leaked, hist>>

\* Does u wait, or send, under the key of the network?
UsesNetKey(u) == thr[u].op \in {"build", "add", "property"} /\ thr[u].pc \in {"send", "wait"}

\* Mutant: the mutex is not waited for.
lock_shared(t) ==
    /\ thr[t].pc = "lock"
    /\ IF broken /\ thr[t].op # "create" THEN m_mutex' = NoOne /\ GotoWith(t, "answered", Failure("broken"))
       ELSE m_mutex' = t /\ Goto(t, "send")
    /\ Note("overlap", thr[t].op = "add" /\ \E u \in Thread : UsesNetKey(u) /\ thr[u].op = "property")
    /\ UNCHANGED <<sent, calls, idaVars, mapVars, m_devres_vec, m_create_reply, m_critical_error,
                   h2c, c2h, exited, cardVars, fails, made, leaked>>

\* The mutex of the context, and then the test for a broken one.
lock(t) ==
    /\ thr[t].pc = "lock" /\ m_mutex = NoOne
    /\ IF broken /\ thr[t].op # "create" THEN m_mutex' = NoOne /\ GotoWith(t, "answered", Failure("broken"))
       ELSE m_mutex' = t /\ Goto(t, "send")
    /\ Note("overlap", thr[t].op = "add" /\ \E u \in Thread : UsesNetKey(u) /\ thr[u].op = "property")
    /\ UNCHANGED <<sent, calls, idaVars, mapVars, m_devres_vec, m_create_reply, m_critical_error,
                   h2c, c2h, exited, cardVars, fails, made, leaked>>

\* What the next page holds: ids while there are any, and configuration in the rest.
n_res(t) == IF thr[t].arg[1] - sent[1] > Page THEN Page ELSE thr[t].arg[1] - sent[1]

n_conf(t) ==
    LET left == Page - n_res(t) IN
    IF thr[t].arg[2] - sent[2] > left THEN left ELSE thr[t].arg[2] - sent[2]

Items(kind, from, n) == [k \in 1 .. n |-> <<kind, from + k>>]
PageOf(t, r, c) == [op |-> thr[t].op, by |-> t, first |-> sent = <<0, 0>>, num_res |-> thr[t].arg[1], size |-> thr[t].arg[1] + thr[t].arg[2],
                    items |-> Items("res", sent[1], r) \o Items("conf", sent[2], c)]

Sent(t) == <<sent[1] + n_res(t), sent[2] + n_conf(t)>>

\* A page of send_create_or_add, until everything is sent; one that cannot be sent is
\* the last.
send_page(t) ==
    /\ thr[t].pc = "send" /\ thr[t].op \in {"build", "add"}
    /\ \/ /\ h2c' = Append(h2c, PageOf(t, n_res(t), n_conf(t))) /\ UNCHANGED <<m_mutex, fails>>
          /\ IF Sent(t) # thr[t].arg THEN sent' = Sent(t) /\ UNCHANGED thr ELSE sent' = <<0, 0>> /\ Goto(t, "wait")
       \/ /\ IF broken THEN UNCHANGED fails ELSE Fails
          /\ GotoWith(t, "answered", Failure("io_error")) /\ m_mutex' = NoOne /\ sent' = <<0, 0>> /\ UNCHANGED h2c
    /\ UNCHANGED <<calls, idaVars, mapVars, m_devres_vec, m_create_reply, m_critical_error,
                   c2h, exited, cardVars, made, leaked, hist>>

\* wait_create_command under the object's key, and the end of the mutex.
Key(t) == IF thr[t].op = "create" THEN thr[t].arg[1] ELSE -1
wait(t) ==
    /\ thr[t].pc = "wait" /\ (Key(t) \in DOMAIN m_create_reply \/ broken)
    /\ IF broken THEN GotoWith(t, "answered", Failure("broken")) /\ UNCHANGED m_create_reply
       ELSE GotoWith(t, "answered", m_create_reply[Key(t)].what) /\ m_create_reply' = Erase(m_create_reply, Key(t))
    /\ m_mutex' = IF m_mutex = t THEN NoOne ELSE m_mutex
    /\ Note("foreign", ~broken /\ m_create_reply[Key(t)].by # t)
    /\ UNCHANGED <<calls, idaVars, mapVars, m_devres_vec, m_critical_error, sent,
                   h2c, c2h, exited, cardVars, fails, made, leaked>>

\* Mutant: the vector grows although the card refused.
add_insert_any(t) ==
    /\ thr[t].pc = "answered" /\ thr[t].op = "add" /\ Goto(t, "insert")
    /\ UNCHANGED <<calls, idaVars, mapVars, m_devres_vec, m_mutex, m_create_reply, m_critical_error, sent,
                   h2c, c2h, exited, cardVars, fails, made, leaked, hist>>

\* m_devres_vec is extended without a lock.
add_insert(t) ==
    /\ thr[t].pc = "answered" /\ thr[t].op = "add"
    /\ Goto(t, IF thr[t].got = Success("add") THEN "insert" ELSE "idle")
    /\ Note("vec_race", \E u \in Thread \ {t} : thr[u].pc = "insert")
    /\ UNCHANGED <<calls, idaVars, mapVars, m_devres_vec, m_mutex, m_create_reply, m_critical_error, sent,
                   h2c, c2h, exited, cardVars, fails, made, leaked>>

add_done(t) ==
    /\ thr[t].pc = "insert" /\ Leave(t) /\ m_devres_vec' = m_devres_vec + thr[t].arg[1]
    /\ UNCHANGED <<calls, idaVars, mapVars, m_mutex, m_create_reply, m_critical_error, sent,
                   h2c, c2h, exited, cardVars, fails, made, leaked, hist>>

-----------------------------------------------------------------------------
(***************************************************************************)
(* setProperty                                                             *)
(***************************************************************************)

\* Sent without the mutex, and whether the context is broken or not.
property_send(t) ==
    /\ thr[t].pc = "property"
    /\ \/ h2c' = Append(h2c, [op |-> "property", by |-> t]) /\ Goto(t, "wait") /\ UNCHANGED fails
       \/ (IF broken THEN UNCHANGED fails ELSE Fails) /\ Leave(t) /\ UNCHANGED h2c
    /\ Note("overlap", \E u \in Thread \ {t} : UsesNetKey(u))
    /\ UNCHANGED <<calls, idaVars, mapVars, m_devres_vec, m_mutex, m_create_reply, m_critical_error, sent,
                   c2h, exited, cardVars, made, leaked>>

\* Any answer that is not of a property is an error to the caller.
property_done(t) ==
    /\ thr[t].pc = "answered" /\ thr[t].op = "property" /\ Leave(t)
    /\ UNCHANGED <<calls, idaVars, mapVars, m_devres_vec, m_mutex, m_create_reply, m_critical_error, sent,
                   h2c, c2h, exited, cardVars, fails, made, leaked, hist>>

-----------------------------------------------------------------------------
(***************************************************************************)
(* Inference requests                                                      *)
(***************************************************************************)

\* nnpiInfReq::create: the network must have resources and the context be whole; the id
\* is taken before the mutex.
create_alloc(t) ==
    /\ thr[t].pc = "create"
    /\ IF m_devres_vec = 0 \/ broken \/ DOMAIN m_free_ranges = {}
       THEN Leave(t) /\ UNCHANGED <<idaVars, made, hist>>
       ELSE /\ \E id \in Id : alloc(id) /\ thr' = [thr EXCEPT ![t].pc = "lock", ![t].arg = <<id, made + 1>>]
            /\ made' = made + 1
            /\ Note("raced", \E u \in Thread : thr[u].op = "add" /\ thr[u].pc \in {"lock", "send", "wait"})
    /\ UNCHANGED <<calls, mapVars, m_devres_vec, m_mutex, m_create_reply, m_critical_error, sent,
                   h2c, c2h, exited, cardVars, fails, leaked>>

create_send(t) ==
    /\ thr[t].pc = "send" /\ thr[t].op = "create"
    /\ \/ h2c' = Append(h2c, [op |-> "create", by |-> t, req |-> thr[t].arg]) /\ Goto(t, "wait") /\ UNCHANGED <<m_mutex, fails>>
       \/ /\ (IF broken THEN UNCHANGED fails ELSE Fails) /\ GotoWith(t, "answered", Failure("io_error"))
          /\ m_mutex' = NoOne /\ UNCHANGED h2c
    /\ UNCHANGED <<calls, idaVars, mapVars, m_devres_vec, m_create_reply, m_critical_error, sent,
                   c2h, exited, cardVars, made, leaked, hist>>

\* The request is put into the database and the handle map; the id of one that failed
\* is not given back.
create_done(t) ==
    /\ thr[t].pc = "answered" /\ thr[t].op = "create" /\ Leave(t)
    /\ IF thr[t].got = Success("create")
       THEN reqDB' = reqDB \cup {thr[t].arg[1]} /\ s_infreqs' = s_infreqs \cup {thr[t].arg} /\ UNCHANGED leaked
       ELSE UNCHANGED <<reqDB, s_infreqs>> /\ leaked' = leaked \cup {thr[t].arg[1]}
    /\ UNCHANGED <<calls, idaVars, s_networks, netDB, m_devres_vec, m_mutex, m_create_reply, m_critical_error,
                   sent, h2c, c2h, exited, cardVars, fails, made, hist>>

\* nnpiInfReq::destroy; the API does not look at what it returns.
destroy_send(t) ==
    /\ thr[t].pc = "destroy" /\ Goto(t, "remove")
    /\ \/ card_fatal /\ UNCHANGED <<h2c, fails, leaked>>
       \/ ~card_fatal /\ h2c' = Append(h2c, [op |-> "destroy", req |-> thr[t].arg]) /\ UNCHANGED <<fails, leaked>>
       \/ /\ ~card_fatal /\ UNCHANGED h2c /\ (IF broken THEN UNCHANGED fails ELSE Fails)
          /\ leaked' = leaked \cup {thr[t].arg[1]}
    /\ UNCHANGED <<calls, idaVars, mapVars, m_devres_vec, m_mutex, m_create_reply, m_critical_error, sent,
                   c2h, exited, cardVars, made, hist>>

\* Mutant: the handle stays.
destroy_remove_keeps(t) ==
    /\ thr[t].pc = "remove" /\ thr[t].op = "destroy" /\ Leave(t)
    /\ UNCHANGED <<calls, idaVars, mapVars, m_devres_vec, m_mutex, m_create_reply, m_critical_error, sent,
                   h2c, c2h, exited, cardVars, fails, made, leaked, hist>>

destroy_remove(t) ==
    /\ thr[t].pc = "remove" /\ thr[t].op = "destroy" /\ Leave(t) /\ s_infreqs' = s_infreqs \ {thr[t].arg}
    /\ UNCHANGED <<calls, idaVars, s_networks, netDB, reqDB, m_devres_vec, m_mutex, m_create_reply,
                   m_critical_error, sent, h2c, c2h, exited, cardVars, fails, made, leaked, hist>>

-----------------------------------------------------------------------------
(***************************************************************************)
(* nnpdrvDestroyDeviceNetwork                                              *)
(***************************************************************************)

\* A destroy that cannot be sent leaves the handle where it is.
destroy_net_send(t) ==
    /\ thr[t].pc = "destroy_net"
    /\ \/ card_fatal /\ Goto(t, "remove") /\ UNCHANGED <<h2c, fails>>
       \/ ~card_fatal /\ Goto(t, "remove") /\ h2c' = Append(h2c, [op |-> "destroy_net"]) /\ UNCHANGED fails
       \/ ~card_fatal /\ Leave(t) /\ UNCHANGED h2c /\ (IF broken THEN UNCHANGED fails ELSE Fails)
    /\ UNCHANGED <<calls, idaVars, mapVars, m_devres_vec, m_mutex, m_create_reply, m_critical_error, sent,
                   c2h, exited, cardVars, made, leaked, hist>>

destroy_net_remove(t) ==
    /\ thr[t].pc = "remove" /\ thr[t].op = "destroy_net" /\ Leave(t) /\ s_networks' = FALSE
    /\ UNCHANGED <<calls, idaVars, s_infreqs, netDB, reqDB, m_devres_vec, m_mutex, m_create_reply,
                   m_critical_error, sent, h2c, c2h, exited, cardVars, fails, made, leaked, hist>>

-----------------------------------------------------------------------------
(***************************************************************************)
(* The response thread                                                     *)
(***************************************************************************)

Local == <<thr, calls, m_devres_vec, m_mutex, sent, h2c, cardVars, fails, made, leaked, hist>>
Event(S) == c2h # <<>> /\ ~exited /\ Head(c2h).op \in S /\ c2h' = Tail(c2h) /\ UNCHANGED <<Local, exited>>

\* Mutant: the answers of a property are not in the list.
process_create_reply_some ==
    /\ Event({"reply"})
    /\ LET ev == Head(c2h) IN
       m_create_reply' = IF ev.what.of = "property" THEN m_create_reply
                         ELSE Put(m_create_reply, ev.key, [what |-> ev.what, by |-> ev.by])
    /\ UNCHANGED <<idaVars, mapVars, m_critical_error>>

\* An answer replaces one with the same key that nobody has read yet.
process_create_reply ==
    /\ Event({"reply"})
    /\ LET ev == Head(c2h) IN m_create_reply' = Put(m_create_reply, ev.key, [what |-> ev.what, by |-> ev.by])
    /\ UNCHANGED <<idaVars, mapVars, m_critical_error>>

\* INFREQ_DESTROYED: the id goes back to the network, if the database still has it.
infreq_destroyed ==
    /\ Event({"infreq_destroyed"})
    /\ IF netDB THEN reqDB' = reqDB \ {Head(c2h).id} /\ free(Head(c2h).id) ELSE UNCHANGED <<reqDB, idaVars>>
    /\ UNCHANGED <<s_networks, s_infreqs, netDB, m_create_reply, m_critical_error>>

devnet_destroyed ==
    /\ Event({"devnet_destroyed"}) /\ netDB' = FALSE
    /\ UNCHANGED <<idaVars, s_networks, s_infreqs, reqDB, m_create_reply, m_critical_error>>

\* A context-fatal event, or the loss of the card: the first one is remembered, and the
\* second also clears the database and ends the response thread.
critical_event ==
    /\ c2h # <<>> /\ ~exited /\ Head(c2h).op \in {"context", "card"} /\ c2h' = Tail(c2h)
    /\ m_critical_error' = IF broken THEN m_critical_error ELSE Head(c2h).op
    /\ exited' = (Head(c2h).op = "card")
    /\ IF exited' THEN netDB' = FALSE /\ reqDB' = {} ELSE UNCHANGED <<netDB, reqDB>>
    /\ UNCHANGED <<Local, idaVars, s_networks, s_infreqs, m_create_reply>>

-----------------------------------------------------------------------------
(***************************************************************************)
(* The card                                                                *)
(***************************************************************************)

ReqIds == {r[1] : r \in cardReq}
Dead == exited \/ \E k \in DOMAIN c2h : c2h[k].op = "card"
Host == <<thr, calls, idaVars, mapVars, m_devres_vec, m_mutex, m_create_reply, m_critical_error, exited,
          sent, made, leaked>>
Take(S) == h2c # <<>> /\ ~Dead /\ Head(h2c).op \in S /\ h2c' = Tail(h2c) /\ UNCHANGED Host
Answer(key, what) == c2h' = Append(c2h, [op |-> "reply", key |-> key, what |-> what, by |-> Head(h2c).by])

\* A page of a command; with the last one the network is made, or gets the resources.
card_page ==
    /\ Take({"build", "add"}) /\ UNCHANGED cardReq
    /\ LET m == Head(h2c)
           c == (IF m.first THEN <<>> ELSE chain) \o m.items
       IN IF Len(c) < m.size THEN chain' = c /\ UNCHANGED <<c2h, cardNet, cardRes, fails, hist>>
          ELSE /\ chain' = <<>>
               /\ hist' = hist \cup (IF c = Items("res", 0, m.num_res) \o Items("conf", 0, m.size - m.num_res) THEN {} ELSE {"garbled"})
                               \cup (IF m.op = "add" /\ cardReq # {} THEN {"late"} ELSE {})
               /\ \/ /\ m.op = "build" \/ cardNet = "up"
                     /\ cardNet' = "up" /\ cardRes' = cardRes + m.num_res /\ Answer(-1, Success(m.op)) /\ UNCHANGED fails
                  \/ /\ IF m.op = "add" /\ cardNet # "up" THEN UNCHANGED fails ELSE Fails
                     /\ Answer(-1, Failure(m.op)) /\ UNCHANGED <<cardNet, cardRes>>

\* Properties and new requests are refused when the network is gone or there is no room.
card_asked ==
    /\ Take({"property", "create"}) /\ UNCHANGED <<cardNet, cardRes, chain, hist>>
    /\ LET m == Head(h2c)
           key == IF m.op = "create" THEN m.req[1] ELSE -1
       IN \/ /\ cardNet = "up" /\ Answer(key, Success(m.op)) /\ UNCHANGED fails
             /\ cardReq' = IF m.op = "create" THEN cardReq \cup {m.req} ELSE cardReq
          \/ /\ IF cardNet # "up" THEN UNCHANGED fails ELSE Fails
             /\ Answer(key, Failure(m.op)) /\ UNCHANGED cardReq

\* The request with the id is destroyed, if there is one.
card_destroys ==
    /\ Take({"destroy"}) /\ UNCHANGED <<cardNet, cardRes, chain, fails>>
    /\ LET m == Head(h2c)
           R == {r \in cardReq : r[1] = m.req[1]}
       IN /\ cardReq' = cardReq \ R
          /\ Note("wrong", R \cap {m.req} # R)
          /\ c2h' = IF R = {} THEN c2h ELSE Append(c2h, [op |-> "infreq_destroyed", id |-> m.req[1]])

\* The network goes when it is destroyed and its requests are.
card_net_destroy ==
    /\ Take({"destroy_net"}) /\ cardNet' = IF cardNet = "up" THEN "dying" ELSE cardNet
    /\ UNCHANGED <<c2h, cardRes, cardReq, chain, fails, hist>>
card_net_gone ==
    /\ cardNet = "dying" /\ cardReq = {} /\ ~Dead /\ cardNet' = "gone" /\ c2h' = Append(c2h, [op |-> "devnet_destroyed"])
    /\ UNCHANGED <<Host, h2c, cardRes, cardReq, chain, fails, hist>>

card_event ==
    /\ Fails /\ ~Dead /\ \E e \in {"context", "card"} : c2h' = Append(c2h, [op |-> e])
    /\ UNCHANGED <<Host, h2c, cardVars, hist>>

-----------------------------------------------------------------------------
Do(t) ==
    \/ from_file(t) \/ build_done(t)
    \/ add_test(t) \/ lock(t) \/ send_page(t) \/ wait(t) \/ add_insert(t) \/ add_done(t)
    \/ property_send(t) \/ property_done(t)
    \/ create_alloc(t) \/ create_send(t) \/ create_done(t) \/ destroy_send(t) \/ destroy_remove(t)
    \/ destroy_net_send(t) \/ destroy_net_remove(t)

Begin(t) == (\E c \in Call : find_network(t, c)) \/ \E r \in s_infreqs : find_infreq(t, r)

Respond == process_create_reply \/ infreq_destroyed \/ devnet_destroyed \/ critical_event
CardWork == card_page \/ card_asked \/ card_destroys \/ card_net_destroy \/ card_net_gone

NetNext == (\E t \in Thread : Do(t) \/ Begin(t)) \/ Respond \/ CardWork \/ card_event

\* A thread inside a call goes on, the response thread runs, and a live card works.
NetSpec ==
    NetInit /\ [][NetNext]_netVars
      /\ (\A t \in Thread : WF_netVars(Do(t))) /\ WF_netVars(Respond) /\ WF_netVars(CardWork)

-----------------------------------------------------------------------------
(***************************************************************************)
(* Properties                                                              *)
(***************************************************************************)

NetTypeOK ==
    /\ \A t \in Thread : thr[t].pc \in {"idle", "file0", "file1", "lock", "send", "wait", "answered", "insert", "remove"} \cup Call
    /\ m_mutex \in Thread \cup {NoOne} /\ m_critical_error \in {"none", "context", "card"}
    /\ sent[1] \in Nat /\ sent[2] \in Nat /\ reqDB \subseteq Id /\ m_devres_vec \in Nat
    /\ \A t \in Thread : thr[t].pc = "send" => sent[1] <= thr[t].arg[1] /\ sent[2] <= thr[t].arg[2]

\* The card puts together exactly what the caller passed: its resources in order and then
\* its configuration, however they are split into pages and whatever other commands come
\* between the pages.
CommandWhole == "garbled" \notin hist

\* A network gets no resources on the card while it has requests: unless the request was
\* begun after add_resources had tested for some.
NoAddUnderRequest == "late" \in hist => "raced" \in hist

\* A destroy never hits another request than the one its handle was for, although ids are
\* used again: unless two threads destroy one handle at the same time.
DestroysOwn == "wrong" \in hist => "twice" \in hist

\* Who waits gets the answer to his own command: unless a property is set while another
\* command on the network is under way, as setProperty does not take the mutex.
AnswerIsOwn == "foreign" \in hist => "overlap" \in hist

\* The id of a request is not free while the card knows the request, or is still to be told
\* or to tell of it.
IdInUse ==
    \A id \in Id :
        \/ id \in ReqIds
        \/ \E k \in DOMAIN h2c : h2c[k].op = "create" /\ h2c[k].req[1] = id
        \/ \E k \in DOMAIN c2h : c2h[k].op = "infreq_destroyed" /\ c2h[k].id = id
        => id \in held

Quiet == h2c = <<>> /\ c2h = <<>> /\ (\A t \in Thread : thr[t].pc = "idle") /\ ~broken

\* When nothing is under way m_devres_vec is what the card has; except for answers that
\* were mixed up and a race of two threads on the vector.
ResourcesAgree ==
    Quiet /\ cardNet = "up" /\ {"overlap", "vec_race"} \cap hist = {} => s_networks /\ m_devres_vec = cardRes

\* When nothing is under way exactly the ids of the card's requests are held, so that a
\* network without requests takes resources again; except for ids of requests whose
\* creation or destruction failed, which are lost.
IdsAgree == Quiet /\ cardNet = "up" => ReqIds \subseteq held /\ held \subseteq ReqIds \cup leaked

\* Every call returns; except when answers were mixed up.
CallReturns == \A t \in Thread : thr[t].pc # "idle" ~> thr[t].pc = "idle" \/ "overlap" \in hist

\* The ids of requests: held as long as the card may name them, given back when
\* it does not, and never taken for those of another request.
RequestsRight == NetTypeOK /\ IdInUse /\ IdsAgree /\ DestroysOwn

\* The resources of the network: sent whole, never under a request, and the same
\* on both sides when all is quiet.
ResourcesRight == CommandWhole /\ NoAddUnderRequest /\ ResourcesAgree
=============================================================================
