---------------------------- MODULE InfContextProofs ----------------------------
(***************************************************************************)
(* Proofs about InfContext, for any threads, kinds of objects, ids and     *)
(* bounds: the owners of protocol ids, the database of objects, the count  *)
(* of finalizes and whose answer a create gets.                            *)
(***************************************************************************)
EXTENDS InfContext, FiniteSetTheorems, TLAPS

Answers == {"success", "failure"}

\* What the two directions of the channel carry.
Sent ==
         [op : {"create"}, key : Object, by : Request]
    \cup [op : {"destroy"}, key : Object, by : {<<>>}]
    \cup [op : {"clear"}, key : {<<>>}, by : {<<>>}]
Reported ==
         [op : Answers, key : Object, by : Request]
    \cup [op : {"destroyed"}, key : Object, by : {<<>>}]
    \cup [op : {"cleared", "context", "abort", "fatal", "lost", "killed"}, key : {<<>>}, by : {<<>>}]

ChannelOK == h2c \in Seq(Sent) /\ c2h \in Seq(Reported)

\* An answer is there from when the wait returns until the thread is idle again;
\* only command lists are counted.
ThreadOK ==
    /\ answer \in [Thread -> {None} \cup [res : Answers, by : Request]]
    /\ \A t \in Thread :
          /\ pc[t] \in {"idle", "alloc", "counted", "wait", "asleep"} => answer[t] = None
          /\ pc[t] = "counted" => Does[t] = "CMD"

\* There is a message about key, and there is but one.
Has(q, ops, key) == \E i \in DOMAIN q : q[i].op \in ops /\ q[i].key = key
One(q, ops, key) ==
    \A i, j \in DOMAIN q :
        /\ q[i].op \in ops /\ q[i].key = key
        /\ q[j].op \in ops /\ q[j].key = key
        => i = j

Uses(t, key) == pc[t] \in Creating /\ Key(t) = key
Leaves(key) == Has(h2c, {"destroy"}, key)
Left(key) == Has(c2h, {"destroyed"}, key)
Owned(key) == (\E t \in Thread : Uses(t, key)) \/ key \in live \/ Leaves(key) \/ Left(key)

\* The owners of a protocol id exclude each other, and it is held.
Exclusive(key) ==
    /\ \A s, t \in Thread : Uses(s, key) /\ Uses(t, key) => s = t
    /\ One(h2c, {"destroy"}, key) /\ One(c2h, {"destroyed"}, key)
    /\ (\E t \in Thread : Uses(t, key)) => key \notin live /\ ~Leaves(key) /\ ~Left(key)
    /\ key \in live => ~Leaves(key) /\ ~Left(key)
    /\ Leaves(key) => ~Left(key)
    /\ Owned(key) => key[2] \in held[key[1]]

\* The application has what its threads have, each of them something else.
Haves ==
    /\ \A t \in Thread : pc[t] = "have" => Key(t) \in live
    /\ \A s, t \in Thread : pc[s] = "have" /\ pc[t] = "have" /\ Key(s) = Key(t) => s = t

\* An id that nobody owns is one that a failed create has kept.
Kept == ~dead => \A key \in Object :
            key[1] \in FreesOnFailure /\ key[2] \in held[key[1]] => Owned(key)

\* The driver's fatal error and the killed channel come from a card that is lost.
Lost ==
    /\ card_fatal => dead
    /\ \A i \in DOMAIN c2h : c2h[i].op \in {"lost", "killed"} => dead

\* EventsFindObjects, in these terms.
Found ==
    ~exited => \A key \in Object :
        key[1] \in InDB /\ (key \in live \/ Leaves(key) \/ Left(key)) => key \in objdb

Ownership == (\A key \in Object : Exclusive(key)) /\ Haves /\ Kept /\ Lost /\ Found

\* There is one request, or answer to it, for a key,
Asked(key) ==
    /\ One(h2c, {"create"}, key) /\ One(c2h, Answers, key)
    /\ Has(h2c, {"create"}, key) => ~Has(c2h, Answers, key) /\ key \notin DOMAIN m_create_reply
    /\ Has(c2h, Answers, key) => key \notin DOMAIN m_create_reply

\* and the thread waits for it that has sent it.
Bears(q, ops, key, by) == \E i \in DOMAIN q : q[i].op \in ops /\ q[i].key = key /\ q[i].by = by
Pending(key, by) ==
    \/ Bears(h2c, {"create"}, key, by)
    \/ Bears(c2h, Answers, key, by)
    \/ key \in DOMAIN m_create_reply /\ m_create_reply[key].by = by
Awaited(key, by) == pc[by[1]] \in Waiting /\ Key(by[1]) = key /\ by[2] = creates[by[1]]

\* As long as nothing broke, answers can neither be left over nor be mistaken.
Calm == recovers = 0 /\ ~broken
Requests ==
    Calm => \A key \in Object :
        Asked(key) /\ \A by \in Request : Pending(key, by) => Awaited(key, by)

\* Who recovers has been counted.
Recovered == (rec # "idle" => recovers > 0) /\ recovers \in Nat

Answered == Requests /\ Recovered /\ AnswerIsMineUnlessRecovered

\* The finalizes whose answer has not come yet, also when nobody reads it any more.
Counting == {t \in Thread : pc[t] = "counted"}
Lists(q, ops) == {i \in DOMAIN q : q[i].op \in ops /\ q[i].key[1] = "CMD"}
Counted ==
    m_cmdlist_finalized_in_progress =
        Cardinality(Counting) + Cardinality(Lists(h2c, {"create"})) + Cardinality(Lists(c2h, Answers))

\* The inductive invariant.
IInv == TypeOK /\ ChannelOK /\ ThreadOK /\ Ownership /\ Answered /\ Counted

-----------------------------------------------------------------------------
(***************************************************************************)
(* The channel                                                             *)
(***************************************************************************)

\* A message is appended to a queue.
LEMMA AppendTo ==
    ASSUME NEW M, NEW q \in Seq(M), NEW m \in M
    PROVE  /\ Append(q, m) \in Seq(M)
           /\ \A i \in DOMAIN Append(q, m) :
                 \/ Append(q, m)[i] = m
                 \/ i \in DOMAIN q /\ Append(q, m)[i] = q[i]
OBVIOUS

\* The first message is taken from a queue.
LEMMA TailOf ==
    ASSUME NEW M, NEW q \in Seq(M), q # <<>>
    PROVE  /\ Tail(q) \in Seq(M) /\ Head(q) \in M
           /\ 1 \in DOMAIN q /\ Head(q) = q[1]
           /\ \A i \in DOMAIN Tail(q) : i + 1 \in DOMAIN q /\ Tail(q)[i] = q[i + 1]
           /\ \A i \in DOMAIN q : i # 1 => i - 1 \in DOMAIN Tail(q) /\ Tail(q)[i - 1] = q[i]
OBVIOUS

\* What a queue has after it.
LEMMA AppendHas ==
    ASSUME NEW M, NEW q \in Seq(M), NEW m \in M, NEW ops, NEW key
    PROVE  /\ Has(Append(q, m), ops, key) <=> Has(q, ops, key) \/ (m.op \in ops /\ m.key = key)
           /\ One(q, ops, key) /\ ~(Has(q, ops, key) /\ m.op \in ops /\ m.key = key)
                 => One(Append(q, m), ops, key)
<1> DEFINE r == Append(q, m)
<1>1. /\ \A i \in DOMAIN q : i \in DOMAIN r /\ r[i] = q[i]
      /\ Len(q) + 1 \in DOMAIN r /\ r[Len(q) + 1] = m
      /\ \A i \in DOMAIN r : i \in DOMAIN q \/ i = Len(q) + 1
  OBVIOUS
<1> HIDE DEF r
<1>2. Has(r, ops, key) <=> Has(q, ops, key) \/ (m.op \in ops /\ m.key = key)
  BY <1>1 DEF Has
<1>3. ASSUME One(q, ops, key), ~(Has(q, ops, key) /\ m.op \in ops /\ m.key = key)
      PROVE  One(r, ops, key)
  BY <1>1, <1>3 DEF One, Has
<1> QED
  BY <1>2, <1>3 DEF r

\* and what it has lost with its first message.
LEMMA TailHas ==
    ASSUME NEW M, NEW q \in Seq(M), q # <<>>, NEW ops, NEW key
    PROVE  /\ Has(q, ops, key) <=> Has(Tail(q), ops, key) \/ (Head(q).op \in ops /\ Head(q).key = key)
           /\ One(q, ops, key) =>
                 /\ One(Tail(q), ops, key)
                 /\ ~(Has(Tail(q), ops, key) /\ Head(q).op \in ops /\ Head(q).key = key)
<1> DEFINE r == Tail(q)
<1>1. /\ 1 \in DOMAIN q /\ Head(q) = q[1]
      /\ \A i \in DOMAIN r : i \in Nat \ {0} /\ i + 1 \in DOMAIN q /\ r[i] = q[i + 1]
      /\ \A i \in DOMAIN q : i \in Nat /\ (i # 1 => i - 1 \in DOMAIN r /\ r[i - 1] = q[i])
  BY TailOf
<1> HIDE DEF r
<1>2. Has(q, ops, key) => Has(r, ops, key) \/ (Head(q).op \in ops /\ Head(q).key = key)
  BY <1>1 DEF Has
<1>3. Has(r, ops, key) \/ (Head(q).op \in ops /\ Head(q).key = key) => Has(q, ops, key)
  BY <1>1 DEF Has
<1>4. One(q, ops, key) => One(r, ops, key)
  <2> SUFFICES ASSUME One(q, ops, key), NEW i \in DOMAIN r, NEW j \in DOMAIN r,
                      r[i].op \in ops, r[i].key = key, r[j].op \in ops, r[j].key = key
               PROVE  i = j
    BY DEF One
  <2>1. i + 1 = j + 1
    BY <1>1 DEF One
  <2> QED
    BY <2>1, <1>1
<1>5. One(q, ops, key) => ~(Has(r, ops, key) /\ Head(q).op \in ops /\ Head(q).key = key)
  <2> SUFFICES ASSUME One(q, ops, key), NEW i \in DOMAIN r, r[i].op \in ops, r[i].key = key,
                      Head(q).op \in ops, Head(q).key = key
               PROVE  FALSE
    BY DEF Has
  <2>1. i + 1 = 1
    BY <1>1 DEF One
  <2> QED
    BY <2>1, <1>1
<1> QED
  BY <1>2, <1>3, <1>4, <1>5 DEF r

-----------------------------------------------------------------------------
(***************************************************************************)
(* Types                                                                   *)
(***************************************************************************)

\* The messages about command lists are finitely many.
LEMMA FiniteLists ==
    ASSUME NEW M, NEW q \in Seq(M), NEW ops
    PROVE  IsFiniteSet(Lists(q, ops)) /\ Cardinality(Lists(q, ops)) \in Nat
<1>1. Lists(q, ops) \in SUBSET (1 .. Len(q))
  BY DEF Lists
<1>2. IsFiniteSet(1 .. Len(q))
  BY FS_Interval
<1>3. IsFiniteSet(Lists(q, ops))
  BY <1>1, <1>2, FS_Subset
<1> QED
  BY <1>3, FS_CardinalityType

\* How many messages are about command lists, after one was sent
LEMMA AppendLists ==
    ASSUME NEW M, NEW q \in Seq(M), NEW m \in M, NEW ops
    PROVE  /\ Cardinality(Lists(q, ops)) \in Nat
           /\ Cardinality(Lists(Append(q, m), ops)) =
                 Cardinality(Lists(q, ops)) + IF m.op \in ops /\ m.key[1] = "CMD" THEN 1 ELSE 0
<1> DEFINE r == Append(q, m)
<1>1. /\ \A i \in DOMAIN q : i \in DOMAIN r /\ r[i] = q[i] /\ i # Len(q) + 1
      /\ Len(q) + 1 \in DOMAIN r /\ r[Len(q) + 1] = m
      /\ \A i \in DOMAIN r : i \in DOMAIN q \/ i = Len(q) + 1
  OBVIOUS
<1>2. IsFiniteSet(Lists(q, ops)) /\ Cardinality(Lists(q, ops)) \in Nat
  BY FiniteLists
<1> HIDE DEF r
<1>3. Len(q) + 1 \notin Lists(q, ops)
  BY <1>1 DEF Lists
<1>4. CASE m.op \in ops /\ m.key[1] = "CMD"
  <2>1. Lists(r, ops) = Lists(q, ops) \cup {Len(q) + 1}
    BY <1>1, <1>4 DEF Lists
  <2> QED
    BY <2>1, <1>2, <1>3, <1>4, FS_AddElement DEF r
<1>5. CASE ~(m.op \in ops /\ m.key[1] = "CMD")
  <2>1. Lists(r, ops) = Lists(q, ops)
    BY <1>1, <1>5 DEF Lists
  <2> QED
    BY <2>1, <1>2, <1>5 DEF r
<1> QED
  BY <1>4, <1>5

\* or read: the others are the same, one place further to the front.
LEMMA TailLists ==
    ASSUME NEW M, NEW q \in Seq(M), q # <<>>, NEW ops
    PROVE  /\ Cardinality(Lists(Tail(q), ops)) \in Nat
           /\ Cardinality(Lists(q, ops)) =
                 Cardinality(Lists(Tail(q), ops))
                 + IF Head(q).op \in ops /\ Head(q).key[1] = "CMD" THEN 1 ELSE 0
<1> DEFINE r == Tail(q)
           L == Lists(q, ops)
           R == Lists(r, ops)
<1>1. /\ 1 \in DOMAIN q /\ Head(q) = q[1]
      /\ \A i \in DOMAIN r : i \in Nat \ {0} /\ i + 1 \in DOMAIN q /\ r[i] = q[i + 1]
      /\ \A i \in DOMAIN q : i \in Nat /\ (i # 1 => i - 1 \in DOMAIN r /\ r[i - 1] = q[i])
  BY TailOf
<1>2. IsFiniteSet(R) /\ IsFiniteSet(L) /\ Cardinality(R) \in Nat
  <2>1. r \in Seq(M)
    BY TailOf
  <2> QED
    BY <2>1, FiniteLists
<1> HIDE DEF r
<1>3. Cardinality(L \ {1}) = Cardinality(R)
  <2> DEFINE f == [i \in R |-> i + 1]
  <2>1. \A i \in R : i \in Nat \ {0} /\ i + 1 \in L \ {1}
    BY <1>1 DEF Lists
  <2>2. \A j \in L \ {1} : j - 1 \in R /\ (j - 1) + 1 = j
    BY <1>1 DEF Lists
  <2> HIDE DEF L, R
  <2>3. f \in Bijection(R, L \ {1})
    BY <2>1, <2>2 DEF Bijection, Injection, Surjection, IsInjective
  <2> QED
    BY <2>3, <1>2, FS_Bijection DEF ExistsBijection
<1>4. 1 \in L <=> Head(q).op \in ops /\ Head(q).key[1] = "CMD"
  BY <1>1 DEF Lists
<1> HIDE DEF L, R
<1>5. Cardinality(L) \in Nat /\ Cardinality(L \ {1}) = IF 1 \in L THEN Cardinality(L) - 1 ELSE Cardinality(L)
  BY <1>2, FS_RemoveElement, FS_CardinalityType
<1> QED
  BY <1>2, <1>3, <1>4, <1>5 DEF L, R, r

\* A thread that is counted is so in m_cmdlist_finalized_in_progress.
LEMMA CountedPositive ==
    ASSUME IInv, NEW t \in Thread, pc[t] = "counted"
    PROVE  m_cmdlist_finalized_in_progress \in Nat \ {0}
<1>1. IsFiniteSet(Counting) /\ t \in Counting
  BY ContextAssumption, FS_Subset DEF Counting
<1>2. Cardinality(Counting) \in Nat \ {0}
  BY <1>1, FS_CardinalityType, FS_EmptySet
<1>3. Cardinality(Lists(h2c, {"create"})) \in Nat /\ Cardinality(Lists(c2h, Answers)) \in Nat
  BY FiniteLists DEF IInv, ChannelOK
<1> QED
  BY <1>2, <1>3 DEF IInv, Counted

-----------------------------------------------------------------------------
(***************************************************************************)
(* Types                                                                   *)
(***************************************************************************)

\* Every step keeps the types.
LEMMA TypeNext == ASSUME IInv, Next PROVE TypeOK'
<1> USE ContextAssumption DEF IInv, TypeOK, Creating
<1> USE DEF ctxVars, dbVars, threadVars, recVars, cardVars
<1>1. ASSUME NEW t \in Thread, create(t) PROVE TypeOK'
  BY <1>1 DEF create, Goto, Key, Object, Id
<1>2. ASSUME NEW t \in Thread, finalize(t) PROVE TypeOK'
  BY <1>2 DEF finalize
<1>3. ASSUME NEW t \in Thread, send(t) PROVE TypeOK'
  BY <1>3 DEF send, Goto, Id
<1>4. ASSUME NEW t \in Thread, send_fail(t) PROVE TypeOK'
  BY <1>4 DEF send_fail, Goto
<1>5. ASSUME NEW t \in Thread, finalize_fail(t) PROVE TypeOK'
  BY <1>5, CountedPositive DEF finalize_fail
<1>6. ASSUME NEW t \in Thread, wait_create_command(t) PROVE TypeOK'
  BY <1>6 DEF wait_create_command, Goto
<1>7. ASSUME NEW t \in Thread, wait_sleep(t) PROVE TypeOK'
  BY <1>7 DEF wait_sleep, Goto
<1>8. ASSUME NEW t \in Thread, create_success(t) PROVE TypeOK'
  BY <1>8 DEF create_success, Goto, Key, Object, Id
<1>9. ASSUME NEW t \in Thread, create_failure(t) PROVE TypeOK'
  BY <1>9 DEF create_failure, Leave, Goto, Id
<1>10. ASSUME NEW t \in Thread, destroy(t) PROVE TypeOK'
  BY <1>10 DEF destroy, Leave, Goto, Id
<1>11. ASSUME NEW x \in {"context", "fatal"}, recover(x) PROVE TypeOK'
  BY <1>11 DEF recover
<1>12. ASSUME recover_send PROVE TypeOK'
  BY <1>12 DEF recover_send
<1>13. ASSUME recover_wait PROVE TypeOK'
  BY <1>13 DEF recover_wait
<1>14. ASSUME recover_end PROVE TypeOK'
  BY <1>14 DEF recover_end
<1>15. ASSUME NEW op, process_create_reply(op) PROVE TypeOK'
  <2>1. Head(c2h) \in Reported /\ Head(c2h).op = op /\ op \in {"success", "failure"}
    BY <1>15, TailOf DEF process_create_reply, Receive, ChannelOK
  <2>2. Head(c2h).key \in Object /\ Head(c2h).by \in Request
    BY <2>1 DEF Reported, Answers
  <2> QED
    BY <1>15, <2>1, <2>2 DEF process_create_reply, Receive, Notify
<1>16. ASSUME destroyed PROVE TypeOK'
  BY <1>16, TailOf DEF destroyed, Receive, ChannelOK, Reported, Object
<1>17. ASSUME NEW op, critical_error(op) PROVE TypeOK'
  BY <1>17 DEF critical_error, Receive, Notify
<1>18. ASSUME errors_cleared PROVE TypeOK'
  BY <1>18 DEF errors_cleared, Receive, Notify
<1>19. ASSUME NEW op, response_exit(op) PROVE TypeOK'
  BY <1>19 DEF response_exit, Receive, Notify
<1>20. ASSUME card_answer PROVE TypeOK'
  BY <1>20 DEF card_answer
<1>21. ASSUME NEW op, card_breaks(op) PROVE TypeOK'
  BY <1>21 DEF card_breaks
<1>22. ASSUME NEW op, card_dies(op) PROVE TypeOK'
  BY <1>22 DEF card_dies
<1> QED
  BY <1>1, <1>2, <1>3, <1>4, <1>5, <1>6, <1>7, <1>8, <1>9, <1>10, <1>11, <1>12, <1>13, <1>14, <1>15, <1>16, <1>17, <1>18, <1>19, <1>20, <1>21, <1>22 DEF Next, CreateStep, RecoverStep, RespStep

-----------------------------------------------------------------------------
\* The messages have their forms.
LEMMA ChannelNext == ASSUME IInv, Next PROVE ChannelOK'
<1> USE DEF IInv, ChannelOK, ctxVars, dbVars, threadVars, recVars, cardVars
<1>1. ASSUME NEW t \in Thread, create(t) PROVE ChannelOK'
  BY <1>1 DEF create
<1>2. ASSUME NEW t \in Thread, finalize(t) PROVE ChannelOK'
  BY <1>2 DEF finalize
<1>3. ASSUME NEW t \in Thread, send(t) PROVE ChannelOK'
  <2>1. Msg("create", Key(t), <<t, creates[t]>>) \in Sent
    BY ContextAssumption DEF TypeOK, Sent, Msg, Key, Object, Request
  <2> QED
    BY <1>3, <2>1, AppendTo DEF send
<1>4. ASSUME NEW t \in Thread, send_fail(t) PROVE ChannelOK'
  BY <1>4 DEF send_fail
<1>5. ASSUME NEW t \in Thread, finalize_fail(t) PROVE ChannelOK'
  BY <1>5 DEF finalize_fail
<1>6. ASSUME NEW t \in Thread, wait_create_command(t) PROVE ChannelOK'
  BY <1>6 DEF wait_create_command
<1>7. ASSUME NEW t \in Thread, wait_sleep(t) PROVE ChannelOK'
  BY <1>7 DEF wait_sleep
<1>8. ASSUME NEW t \in Thread, create_success(t) PROVE ChannelOK'
  BY <1>8 DEF create_success
<1>9. ASSUME NEW t \in Thread, create_failure(t) PROVE ChannelOK'
  BY <1>9 DEF create_failure
<1>10. ASSUME NEW t \in Thread, destroy(t) PROVE ChannelOK'
  <2>1. Msg("destroy", Key(t), <<>>) \in Sent
    BY ContextAssumption DEF TypeOK, Sent, Msg, Key, Object
  <2> QED
    BY <1>10, <2>1, AppendTo DEF destroy
<1>11. ASSUME NEW x \in {"context", "fatal"}, recover(x) PROVE ChannelOK'
  BY <1>11 DEF recover
<1>12. ASSUME recover_send PROVE ChannelOK'
  <2>1. Msg("clear", <<>>, <<>>) \in Sent
    BY DEF Sent, Msg
  <2> QED
    BY <1>12, <2>1, AppendTo DEF recover_send
<1>13. ASSUME recover_wait PROVE ChannelOK'
  BY <1>13 DEF recover_wait
<1>14. ASSUME recover_end PROVE ChannelOK'
  BY <1>14 DEF recover_end
<1>15. ASSUME NEW op, process_create_reply(op) PROVE ChannelOK'
  BY <1>15, TailOf DEF process_create_reply, Receive
<1>16. ASSUME destroyed PROVE ChannelOK'
  BY <1>16, TailOf DEF destroyed, Receive
<1>17. ASSUME NEW op, critical_error(op) PROVE ChannelOK'
  BY <1>17, TailOf DEF critical_error, Receive
<1>18. ASSUME errors_cleared PROVE ChannelOK'
  BY <1>18, TailOf DEF errors_cleared, Receive
<1>19. ASSUME NEW op, response_exit(op) PROVE ChannelOK'
  BY <1>19, TailOf DEF response_exit, Receive
<1>20. ASSUME card_answer PROVE ChannelOK'
  <2> DEFINE m == Head(h2c)
  <2>1. m \in Sent /\ h2c' = Tail(h2c) /\ Tail(h2c) \in Seq(Sent)
    BY <1>20, TailOf DEF card_answer
  <2>2. PICK r : c2h' = Append(c2h, r) /\
               \/ m.op = "create" /\ r \in {Msg("success", m.key, m.by), Msg("failure", m.key, m.by)}
               \/ m.op = "destroy" /\ r = Msg("destroyed", m.key, <<>>)
               \/ m.op = "clear" /\ r = Msg("cleared", <<>>, <<>>)
    BY <1>20 DEF card_answer
  <2>3. r \in Reported
    BY <2>1, <2>2 DEF Sent, Reported, Answers, Msg
  <2> QED
    BY <2>1, <2>2, <2>3, AppendTo
<1>21. ASSUME NEW op, card_breaks(op) PROVE ChannelOK'
  <2>1. Msg(op, <<>>, <<>>) \in Reported
    BY <1>21 DEF card_breaks, Reported, Msg
  <2> QED
    BY <1>21, <2>1, AppendTo DEF card_breaks
<1>22. ASSUME NEW op, card_dies(op) PROVE ChannelOK'
  <2>1. Msg(op, <<>>, <<>>) \in Reported
    BY <1>22 DEF card_dies, Reported, Msg
  <2> QED
    BY <1>22, <2>1, AppendTo DEF card_dies
<1> QED
  BY <1>1, <1>2, <1>3, <1>4, <1>5, <1>6, <1>7, <1>8, <1>9, <1>10, <1>11, <1>12, <1>13, <1>14, <1>15, <1>16, <1>17, <1>18, <1>19, <1>20, <1>21, <1>22 DEF Next, CreateStep, RecoverStep, RespStep

\* Answers are there when they can be.
LEMMA ThreadNext == ASSUME IInv, Next PROVE ThreadOK'
<1> USE DEF IInv, ThreadOK, TypeOK, Creating, ctxVars, dbVars, threadVars, recVars, cardVars
<1>1. ASSUME NEW t \in Thread, create(t) PROVE ThreadOK'
  BY <1>1 DEF create, Goto
<1>2. ASSUME NEW t \in Thread, finalize(t) PROVE ThreadOK'
  BY <1>2 DEF finalize
<1>3. ASSUME NEW t \in Thread, send(t) PROVE ThreadOK'
  BY <1>3 DEF send, Goto
<1>4. ASSUME NEW t \in Thread, send_fail(t) PROVE ThreadOK'
  BY <1>4 DEF send_fail, Goto
<1>5. ASSUME NEW t \in Thread, finalize_fail(t) PROVE ThreadOK'
  BY <1>5 DEF finalize_fail
<1>6. ASSUME NEW t \in Thread, wait_create_command(t) PROVE ThreadOK'
  <2>1. answer'[t] \in {None} \cup [res : Answers, by : Request]
    BY <1>6 DEF wait_create_command, Answers
  <2>2. pc'[t] \in {"created", "failed"}
    BY <1>6 DEF wait_create_command, Goto
  <2> QED
    BY <1>6, <2>1, <2>2 DEF wait_create_command, Goto
<1>7. ASSUME NEW t \in Thread, wait_sleep(t) PROVE ThreadOK'
  BY <1>7 DEF wait_sleep, Goto
<1>8. ASSUME NEW t \in Thread, create_success(t) PROVE ThreadOK'
  BY <1>8 DEF create_success, Goto
<1>9. ASSUME NEW t \in Thread, create_failure(t) PROVE ThreadOK'
  BY <1>9 DEF create_failure, Leave, Goto
<1>10. ASSUME NEW t \in Thread, destroy(t) PROVE ThreadOK'
  BY <1>10 DEF destroy, Leave, Goto
<1>11. ASSUME NEW x \in {"context", "fatal"}, recover(x) PROVE ThreadOK'
  BY <1>11 DEF recover
<1>12. ASSUME recover_send PROVE ThreadOK'
  BY <1>12 DEF recover_send
<1>13. ASSUME recover_wait PROVE ThreadOK'
  BY <1>13 DEF recover_wait
<1>14. ASSUME recover_end PROVE ThreadOK'
  BY <1>14 DEF recover_end
<1>15. ASSUME NEW op, process_create_reply(op) PROVE ThreadOK'
  BY <1>15 DEF process_create_reply, Notify
<1>16. ASSUME destroyed PROVE ThreadOK'
  BY <1>16 DEF destroyed
<1>17. ASSUME NEW op, critical_error(op) PROVE ThreadOK'
  BY <1>17 DEF critical_error, Notify
<1>18. ASSUME errors_cleared PROVE ThreadOK'
  BY <1>18 DEF errors_cleared, Notify
<1>19. ASSUME NEW op, response_exit(op) PROVE ThreadOK'
  BY <1>19 DEF response_exit, Notify
<1>20. ASSUME card_answer PROVE ThreadOK'
  BY <1>20 DEF card_answer
<1>21. ASSUME NEW op, card_breaks(op) PROVE ThreadOK'
  BY <1>21 DEF card_breaks
<1>22. ASSUME NEW op, card_dies(op) PROVE ThreadOK'
  BY <1>22 DEF card_dies
<1> QED
  BY <1>1, <1>2, <1>3, <1>4, <1>5, <1>6, <1>7, <1>8, <1>9, <1>10, <1>11, <1>12, <1>13, <1>14, <1>15, <1>16, <1>17, <1>18, <1>19, <1>20, <1>21, <1>22 DEF Next, CreateStep, RecoverStep, RespStep

-----------------------------------------------------------------------------
(***************************************************************************)
(* Owners of protocol ids                                                  *)
(***************************************************************************)

\* A step that neither makes nor ends an owner: threads that create or have
\* something still do,
SameUsers ==
    /\ UNCHANGED <<live, held, my>>
    /\ \A t \in Thread :
          /\ pc'[t] \in Creating <=> pc[t] \in Creating
          /\ pc'[t] = "have" <=> pc[t] = "have"

\* and the channel carries the same destructions.
SameDestroys == \A key \in Object :
    /\ One(h2c, {"destroy"}, key) => One(h2c, {"destroy"}, key)'
    /\ One(c2h, {"destroyed"}, key) => One(c2h, {"destroyed"}, key)'
    /\ Leaves(key)' <=> Leaves(key)
    /\ Left(key)' <=> Left(key)

\* Nothing is sent,
LEMMA NothingSent == ASSUME UNCHANGED <<h2c, c2h>> PROVE SameDestroys
BY DEF SameDestroys, Leaves, Left, One, Has

\* a request that is not for a destruction is sent,
LEMMA OtherSent ==
    ASSUME ChannelOK, NEW m \in Sent, m.op # "destroy", h2c' = Append(h2c, m), UNCHANGED c2h
    PROVE  SameDestroys
<1> SUFFICES ASSUME NEW key \in Object
             PROVE  /\ One(h2c, {"destroy"}, key) => One(h2c, {"destroy"}, key)'
                    /\ Leaves(key)' <=> Leaves(key)
                    /\ One(c2h, {"destroyed"}, key) => One(c2h, {"destroyed"}, key)'
                    /\ Left(key)' <=> Left(key)
  BY DEF SameDestroys
<1>1. /\ Has(Append(h2c, m), {"destroy"}, key) <=> Has(h2c, {"destroy"}, key)
      /\ One(h2c, {"destroy"}, key) => One(Append(h2c, m), {"destroy"}, key)
  BY AppendHas DEF ChannelOK
<1>2. /\ Leaves(key)' <=> Has(h2c', {"destroy"}, key)
      /\ One(h2c, {"destroy"}, key)' <=> One(h2c', {"destroy"}, key)
  BY DEF Leaves, Has, One
<1>3. /\ Left(key)' <=> Left(key)
      /\ One(c2h, {"destroyed"}, key)' <=> One(c2h, {"destroyed"}, key)
  BY DEF Left, Has, One
<1> QED
  BY <1>1, <1>2, <1>3 DEF Leaves

\* an event that does not confirm a destruction is reported,
LEMMA OtherReported ==
    ASSUME ChannelOK, NEW m \in Reported, m.op # "destroyed", c2h' = Append(c2h, m), UNCHANGED h2c
    PROVE  SameDestroys
<1> SUFFICES ASSUME NEW key \in Object
             PROVE  /\ One(h2c, {"destroy"}, key) => One(h2c, {"destroy"}, key)'
                    /\ Leaves(key)' <=> Leaves(key)
                    /\ One(c2h, {"destroyed"}, key) => One(c2h, {"destroyed"}, key)'
                    /\ Left(key)' <=> Left(key)
  BY DEF SameDestroys
<1>1. /\ Has(Append(c2h, m), {"destroyed"}, key) <=> Has(c2h, {"destroyed"}, key)
      /\ One(c2h, {"destroyed"}, key) => One(Append(c2h, m), {"destroyed"}, key)
  BY AppendHas DEF ChannelOK
<1>2. /\ Left(key)' <=> Has(c2h', {"destroyed"}, key)
      /\ One(c2h, {"destroyed"}, key)' <=> One(c2h', {"destroyed"}, key)
  BY DEF Left, Has, One
<1>3. /\ Leaves(key)' <=> Leaves(key)
      /\ One(h2c, {"destroy"}, key)' <=> One(h2c, {"destroy"}, key)
  BY DEF Leaves, Has, One
<1> QED
  BY <1>1, <1>2, <1>3 DEF Left

\* or is read.
LEMMA OtherRead ==
    ASSUME ChannelOK, c2h # <<>>, Head(c2h).op # "destroyed", c2h' = Tail(c2h), UNCHANGED h2c
    PROVE  SameDestroys
<1> SUFFICES ASSUME NEW key \in Object
             PROVE  /\ One(h2c, {"destroy"}, key) => One(h2c, {"destroy"}, key)'
                    /\ Leaves(key)' <=> Leaves(key)
                    /\ One(c2h, {"destroyed"}, key) => One(c2h, {"destroyed"}, key)'
                    /\ Left(key)' <=> Left(key)
  BY DEF SameDestroys
<1>1. /\ Has(Tail(c2h), {"destroyed"}, key) <=> Has(c2h, {"destroyed"}, key)
      /\ One(c2h, {"destroyed"}, key) => One(Tail(c2h), {"destroyed"}, key)
  BY TailHas DEF ChannelOK
<1>2. /\ Left(key)' <=> Has(c2h', {"destroyed"}, key)
      /\ One(c2h, {"destroyed"}, key)' <=> One(c2h', {"destroyed"}, key)
  BY DEF Left, Has, One
<1>3. /\ Leaves(key)' <=> Leaves(key)
      /\ One(h2c, {"destroy"}, key)' <=> One(h2c, {"destroy"}, key)
  BY DEF Leaves, Has, One
<1> QED
  BY <1>1, <1>2, <1>3 DEF Left

\* A card that is lost stays so, and is lost before anybody is told.
LEMMA LostNext == ASSUME IInv, Next PROVE Lost' /\ (dead => dead')
<1> USE DEF IInv, Ownership, Lost, ChannelOK, card_fatal, broken, ctxVars, dbVars, threadVars, recVars, cardVars
<1>1. ASSUME NEW t \in Thread, create(t) PROVE Lost' /\ (dead => dead')
  BY <1>1 DEF create
<1>2. ASSUME NEW t \in Thread, finalize(t) PROVE Lost' /\ (dead => dead')
  BY <1>2 DEF finalize
<1>3. ASSUME NEW t \in Thread, send(t) PROVE Lost' /\ (dead => dead')
  BY <1>3 DEF send
<1>4. ASSUME NEW t \in Thread, send_fail(t) PROVE Lost' /\ (dead => dead')
  BY <1>4 DEF send_fail
<1>5. ASSUME NEW t \in Thread, finalize_fail(t) PROVE Lost' /\ (dead => dead')
  BY <1>5 DEF finalize_fail
<1>6. ASSUME NEW t \in Thread, wait_create_command(t) PROVE Lost' /\ (dead => dead')
  BY <1>6 DEF wait_create_command
<1>7. ASSUME NEW t \in Thread, wait_sleep(t) PROVE Lost' /\ (dead => dead')
  BY <1>7 DEF wait_sleep
<1>8. ASSUME NEW t \in Thread, create_success(t) PROVE Lost' /\ (dead => dead')
  BY <1>8 DEF create_success
<1>9. ASSUME NEW t \in Thread, create_failure(t) PROVE Lost' /\ (dead => dead')
  BY <1>9 DEF create_failure
<1>10. ASSUME NEW t \in Thread, destroy(t) PROVE Lost' /\ (dead => dead')
  BY <1>10 DEF destroy
<1>11. ASSUME NEW x \in {"context", "fatal"}, recover(x) PROVE Lost' /\ (dead => dead')
  BY <1>11 DEF recover
<1>12. ASSUME recover_send PROVE Lost' /\ (dead => dead')
  BY <1>12 DEF recover_send
<1>13. ASSUME recover_wait PROVE Lost' /\ (dead => dead')
  BY <1>13 DEF recover_wait
<1>14. ASSUME recover_end PROVE Lost' /\ (dead => dead')
  BY <1>14 DEF recover_end, TypeOK
<1>15. ASSUME NEW op, process_create_reply(op) PROVE Lost' /\ (dead => dead')
  BY <1>15, TailOf DEF process_create_reply, Receive
<1>16. ASSUME destroyed PROVE Lost' /\ (dead => dead')
  BY <1>16, TailOf DEF destroyed, Receive
<1>17. ASSUME NEW op, critical_error(op) PROVE Lost' /\ (dead => dead')
  BY <1>17, TailOf DEF critical_error, Receive
<1>18. ASSUME errors_cleared PROVE Lost' /\ (dead => dead')
  BY <1>18, TailOf DEF errors_cleared, Receive
<1>19. ASSUME NEW op, response_exit(op) PROVE Lost' /\ (dead => dead')
  BY <1>19, TailOf DEF response_exit, Receive
<1>20. ASSUME card_answer PROVE Lost' /\ (dead => dead')
  <2>1. PICK r : c2h' = Append(c2h, r) /\ r.op \in Answers \cup {"destroyed", "cleared"}
    BY <1>20 DEF card_answer, Msg, Answers
  <2>2. \A i \in DOMAIN c2h' : c2h'[i] = r \/ (i \in DOMAIN c2h /\ c2h'[i] = c2h[i])
    BY <2>1
  <2> QED
    BY <1>20, <2>1, <2>2 DEF card_answer, Answers
<1>21. ASSUME NEW op, card_breaks(op) PROVE Lost' /\ (dead => dead')
  <2>1. \A i \in DOMAIN c2h' : c2h'[i] = Msg(op, <<>>, <<>>) \/ (i \in DOMAIN c2h /\ c2h'[i] = c2h[i])
    BY <1>21 DEF card_breaks
  <2> QED
    BY <1>21, <2>1 DEF card_breaks, Msg
<1>22. ASSUME NEW op, card_dies(op) PROVE Lost' /\ (dead => dead')
  <2>1. \A i \in DOMAIN c2h' : c2h'[i] = Msg(op, <<>>, <<>>) \/ (i \in DOMAIN c2h /\ c2h'[i] = c2h[i])
    BY <1>22 DEF card_dies
  <2> QED
    BY <1>22, <2>1 DEF card_dies, Msg
<1> QED
  BY <1>1, <1>2, <1>3, <1>4, <1>5, <1>6, <1>7, <1>8, <1>9, <1>10, <1>11, <1>12, <1>13, <1>14, <1>15, <1>16, <1>17, <1>18, <1>19, <1>20, <1>21, <1>22 DEF Next, CreateStep, RecoverStep, RespStep

\* The steps of a thread that do not change who owns what, and those of the
\* response thread and the card.
LEMMA OwnersSame ==
    ASSUME IInv, SameUsers, SameDestroys, Lost',
           dead => dead', exited' \/ UNCHANGED <<exited, objdb>>
    PROVE  Ownership'
<1> USE DEF IInv, Ownership
<1>1. \A s \in Thread, key \in Object : Uses(s, key)' <=> Uses(s, key)
  BY DEF SameUsers, Uses, Key
<1>2. \A key \in Object : Owned(key)' <=> Owned(key)
  BY <1>1 DEF Owned, SameUsers, SameDestroys
<1>3. ASSUME NEW key \in Object PROVE Exclusive(key)'
  BY <1>1, <1>2 DEF Exclusive, SameUsers, SameDestroys
<1>4. Haves'
  BY DEF Haves, SameUsers, Key
<1>5. Kept'
  BY <1>2 DEF Kept, SameUsers
<1>6. Found'
  BY DEF Found, SameUsers, SameDestroys
<1> QED
  BY <1>3, <1>4, <1>5, <1>6


\* A created object gets an id that nobody holds, and so nobody owns.
LEMMA CreateOwners == ASSUME IInv, Lost', NEW t \in Thread, create(t) PROVE Ownership'
<1> USE DEF IInv, Ownership, TypeOK
<1>1. PICK id \in Id \ held[Does[t]] :
          /\ my' = [my EXCEPT ![t] = id]
          /\ held' = [held EXCEPT ![Does[t]] = @ \cup {id}]
          /\ objdb \subseteq objdb'
          /\ pc[t] = "idle" /\ pc' = [pc EXCEPT ![t] = "alloc"]
          /\ UNCHANGED <<live, h2c, c2h, dead, exited>>
  BY DEF create, Goto, cardVars
<1> DEFINE new == <<Does[t], id>>
<1>2. new \in Object /\ new[1] = Does[t] /\ new[2] = id /\ Does[t] \in Kind
  BY ContextAssumption DEF Object
<1>3. ~Owned(new)
  BY <1>1, <1>2 DEF Exclusive
<1>4. \A s \in Thread, key \in Object : Uses(s, key)' <=> IF s = t THEN key = new ELSE Uses(s, key)
  BY <1>1, <1>2 DEF Uses, Key, Creating
<1>5. \A key \in Object : /\ Leaves(key)' <=> Leaves(key)
                          /\ Left(key)' <=> Left(key)
                          /\ One(h2c, {"destroy"}, key)' <=> One(h2c, {"destroy"}, key)
                          /\ One(c2h, {"destroyed"}, key)' <=> One(c2h, {"destroyed"}, key)
  BY <1>1 DEF Leaves, Left, Has, One
<1>6. \A key \in Object : key = new <=> key[1] = Does[t] /\ key[2] = id
  BY <1>2 DEF Object
<1>7. \A key \in Object : key[2] \in held'[key[1]] <=> key[2] \in held[key[1]] \/ key = new
  BY <1>1, <1>2, <1>6 DEF Object
<1> HIDE DEF new
<1>8. ASSUME NEW key \in Object PROVE Exclusive(key)'
  <2>1. CASE key = new
    <3>1. ~(\E s \in Thread : Uses(s, key)) /\ key \notin live /\ ~Leaves(key) /\ ~Left(key)
      BY <1>3, <2>1 DEF Owned
    <3>2. \A s \in Thread : Uses(s, key)' <=> s = t
      BY <1>4, <2>1, <3>1
    <3> QED
      BY <1>1, <1>5, <1>7, <2>1, <3>1, <3>2 DEF Exclusive
  <2>2. CASE key # new
    <3>1. \A s \in Thread : ~Uses(t, key)' /\ (Uses(s, key)' => Uses(s, key))
      BY <1>4, <2>2
    <3>2. Owned(key)' => Owned(key)
      BY <1>1, <1>5, <3>1 DEF Owned
    <3> QED
      BY <1>1, <1>5, <1>7, <2>2, <3>1, <3>2 DEF Exclusive
  <2> QED
    BY <2>1, <2>2
<1>9. Haves'
  BY <1>1 DEF Haves, Key
<1>10. Kept'
  <2> SUFFICES ASSUME ~dead', NEW key \in Object, key[1] \in FreesOnFailure, key[2] \in held'[key[1]]
               PROVE  Owned(key)'
    BY DEF Kept
  <2>1. CASE key = new
    BY <1>4, <2>1 DEF Owned
  <2>2. CASE key # new
    <3>1. Owned(key)
      BY <1>1, <1>7, <2>2 DEF Kept
    <3>2. \A s \in Thread : Uses(s, key) => Uses(s, key)'
      BY <1>1, <1>4 DEF Uses, Creating
    <3> QED
      BY <1>1, <1>5, <3>1, <3>2 DEF Owned
  <2> QED
    BY <2>1, <2>2
<1>11. Found'
  BY <1>1, <1>5 DEF Found
<1> QED
  BY <1>8, <1>9, <1>10, <1>11

\* The thread that has created an object hands it to the application,
LEMMA SuccessOwners == ASSUME IInv, Lost', NEW t \in Thread, create_success(t) PROVE Ownership'
<1> USE DEF IInv, Ownership, TypeOK
<1>1. /\ pc[t] = "created" /\ pc' = [pc EXCEPT ![t] = "have"]
      /\ objdb' = IF Does[t] \in InDB THEN objdb \cup {Key(t)} ELSE objdb
      /\ live' = live \cup {Key(t)}
      /\ UNCHANGED <<my, held, h2c, c2h, dead, exited>>
  BY DEF create_success, Goto, recVars, cardVars
<1>2. /\ Key(t) \in Object /\ Key(t)[1] = Does[t]
      /\ Uses(t, Key(t)) /\ \A key \in Object : Uses(t, key) <=> key = Key(t)
  BY <1>1, ContextAssumption DEF Uses, Key, Creating, Object
<1>3. \A s \in Thread, key \in Object : Uses(s, key)' <=> s # t /\ Uses(s, key)
  BY <1>1 DEF Uses, Key, Creating
<1>4. \A key \in Object : /\ Leaves(key)' <=> Leaves(key)
                          /\ Left(key)' <=> Left(key)
                          /\ One(h2c, {"destroy"}, key)' <=> One(h2c, {"destroy"}, key)
                          /\ One(c2h, {"destroyed"}, key)' <=> One(c2h, {"destroyed"}, key)
  BY <1>1 DEF Leaves, Left, Has, One
<1>5. /\ \A s \in Thread : Uses(s, Key(t)) => s = t
      /\ Key(t) \notin live /\ ~Leaves(Key(t)) /\ ~Left(Key(t))
  BY <1>2 DEF Exclusive
<1>6. \A key \in Object : Owned(key)' <=> Owned(key)
  BY <1>1, <1>2, <1>3, <1>4 DEF Owned
<1>7. ASSUME NEW key \in Object PROVE Exclusive(key)'
  BY <1>1, <1>2, <1>3, <1>4, <1>5, <1>6 DEF Exclusive
<1>8. Haves'
  BY <1>1, <1>5 DEF Haves, Key
<1>9. Kept'
  BY <1>1, <1>6 DEF Kept
<1>10. Found'
  BY <1>1, <1>2, <1>4 DEF Found
<1> QED
  BY <1>7, <1>8, <1>9, <1>10

\* and the one that has failed gives up an id that is not in use otherwise.
LEMMA FailureOwners == ASSUME IInv, Lost', NEW t \in Thread, create_failure(t) PROVE Ownership'
<1> USE DEF IInv, Ownership, TypeOK
<1>1. /\ pc[t] = "failed" /\ pc' = [pc EXCEPT ![t] = "idle"] /\ my' = [my EXCEPT ![t] = 0]
      /\ held' = IF Does[t] \in FreesOnFailure THEN [held EXCEPT ![Does[t]] = @ \ {my[t]}] ELSE held
      /\ objdb' = objdb \ {Key(t)}
      /\ UNCHANGED <<live, h2c, c2h, dead, exited>>
  BY DEF create_failure, Leave, Goto, cardVars
<1>2. /\ Key(t) \in Object /\ Key(t)[1] = Does[t] /\ Key(t)[2] = my[t] /\ Does[t] \in Kind
      /\ Uses(t, Key(t)) /\ \A key \in Object : Uses(t, key) <=> key = Key(t)
  BY <1>1, ContextAssumption DEF Uses, Key, Creating, Object
<1>3. \A s \in Thread, key \in Object : Uses(s, key)' <=> s # t /\ Uses(s, key)
  BY <1>1 DEF Uses, Key, Creating
<1>4. \A key \in Object : /\ Leaves(key)' <=> Leaves(key)
                          /\ Left(key)' <=> Left(key)
                          /\ One(h2c, {"destroy"}, key)' <=> One(h2c, {"destroy"}, key)
                          /\ One(c2h, {"destroyed"}, key)' <=> One(c2h, {"destroyed"}, key)
  BY <1>1 DEF Leaves, Left, Has, One
<1>5. /\ \A s \in Thread : Uses(s, Key(t)) => s = t
      /\ Key(t) \notin live /\ ~Leaves(Key(t)) /\ ~Left(Key(t))
  BY <1>2 DEF Exclusive
<1>6. \A key \in Object : Owned(key)' <=> Owned(key) /\ key # Key(t)
  BY <1>1, <1>2, <1>3, <1>4, <1>5 DEF Owned
<1>7. \A key \in Object : key[2] \in held'[key[1]] <=>
          key[2] \in held[key[1]] /\ ~(Does[t] \in FreesOnFailure /\ key = Key(t))
  <2>1. \A key \in Object : key = Key(t) <=> key[1] = Does[t] /\ key[2] = my[t]
    BY <1>2 DEF Object, Key
  <2> QED
    BY <1>1, <1>2, <2>1 DEF Object
<1>8. ASSUME NEW key \in Object PROVE Exclusive(key)'
  BY <1>1, <1>2, <1>3, <1>4, <1>5, <1>6, <1>7 DEF Exclusive
<1>9. Haves'
  BY <1>1 DEF Haves, Key
<1>10. Kept'
  BY <1>1, <1>2, <1>6, <1>7 DEF Kept
<1>11. Found'
  BY <1>1, <1>4, <1>5 DEF Found
<1> QED
  BY <1>8, <1>9, <1>10, <1>11

\* A destroyed object belongs to the request, if one is sent.
LEMMA DestroyOwners == ASSUME IInv, Lost', NEW t \in Thread, destroy(t) PROVE Ownership'
<1> USE DEF IInv, Ownership, TypeOK
<1> DEFINE m == Msg("destroy", Key(t), <<>>)
<1>1. /\ pc[t] = "have" /\ pc' = [pc EXCEPT ![t] = "idle"] /\ my' = [my EXCEPT ![t] = 0]
      /\ live' = live \ {Key(t)}
      /\ h2c' = IF dead THEN h2c ELSE Append(h2c, m)
      /\ UNCHANGED <<held, objdb, c2h, dead, exited>>
  BY DEF destroy, Leave, Goto, dbVars, cardVars, Lost
<1>2. m \in Sent /\ Key(t) \in Object /\ m.op = "destroy" /\ m.key = Key(t)
  BY ContextAssumption DEF Sent, Msg, Key, Object
<1> HIDE DEF m
<1>3. \A s \in Thread, key \in Object : Uses(s, key)' <=> Uses(s, key)
  BY <1>1 DEF Uses, Key, Creating
<1>4. \A key \in Object : /\ Left(key)' <=> Left(key)
                          /\ One(c2h, {"destroyed"}, key)' <=> One(c2h, {"destroyed"}, key)
  BY <1>1 DEF Left, Has, One
<1>5. Key(t) \in live /\ ~Leaves(Key(t)) /\ ~Left(Key(t)) /\ \A s \in Thread : ~Uses(s, Key(t))
  BY <1>1, <1>2 DEF Haves, Exclusive
<1>6. ASSUME NEW key \in Object
      PROVE  /\ Leaves(key)' <=> Leaves(key) \/ (key = Key(t) /\ ~dead)
             /\ One(h2c, {"destroy"}, key)'
  <2>1. /\ Leaves(key)' <=> Has(h2c', {"destroy"}, key)
        /\ One(h2c, {"destroy"}, key)' <=> One(h2c', {"destroy"}, key)
        /\ Leaves(key) <=> Has(h2c, {"destroy"}, key)
    BY DEF Leaves, Has, One
  <2>2. One(h2c, {"destroy"}, key)
    BY DEF Exclusive
  <2>3. CASE dead
    BY <1>1, <2>1, <2>2, <2>3
  <2>4. CASE ~dead
    <3>1. /\ Has(Append(h2c, m), {"destroy"}, key) <=> Has(h2c, {"destroy"}, key) \/ key = Key(t)
          /\ ~(Has(h2c, {"destroy"}, key) /\ key = Key(t)) => One(Append(h2c, m), {"destroy"}, key)
      BY <1>2, <2>2, AppendHas DEF ChannelOK
    <3>2. ~(Has(h2c, {"destroy"}, key) /\ key = Key(t))
      BY <1>5, <2>1
    <3> QED
      BY <1>1, <2>1, <2>4, <3>1, <3>2
  <2> QED
    BY <2>3, <2>4
<1>7. ASSUME NEW key \in Object PROVE Exclusive(key)'
  <2>1. Owned(key)' => Owned(key)
    BY <1>1, <1>3, <1>4, <1>5, <1>6 DEF Owned
  <2> QED
    BY <1>1, <1>3, <1>4, <1>5, <1>6, <2>1 DEF Exclusive
<1>8. Haves'
  BY <1>1 DEF Haves, Key
<1>9. Kept'
  <2>1. ~dead => \A key \in Object : Owned(key) => Owned(key)'
    BY <1>1, <1>3, <1>4, <1>6 DEF Owned
  <2> QED
    BY <1>1, <2>1 DEF Kept
<1>10. Found'
  BY <1>1, <1>4, <1>5, <1>6 DEF Found
<1> QED
  BY <1>7, <1>8, <1>9, <1>10


\* The card's answer to a destroy request takes its place,
LEMMA AnswerOwners == ASSUME IInv, Lost', card_answer PROVE Ownership'
<1> USE DEF IInv, Ownership
<1> DEFINE m == Head(h2c)
<1>1. /\ h2c # <<>> /\ h2c' = Tail(h2c) /\ m \in Sent
      /\ UNCHANGED <<held, my, pc, live, objdb, dead, exited>>
  BY TailOf DEF card_answer, ChannelOK, dbVars, threadVars
<1>2. PICK r \in Reported :
          /\ c2h' = Append(c2h, r)
          /\ r.op = "destroyed" <=> m.op = "destroy"
          /\ r.op = "destroyed" => r.key = m.key
  <2>1. CASE m.op = "create" /\ c2h' = Append(c2h, Msg("success", m.key, m.by))
    BY <1>1, <2>1 DEF Sent, Reported, Answers, Msg
  <2>2. CASE m.op = "create" /\ c2h' = Append(c2h, Msg("failure", m.key, m.by))
    BY <1>1, <2>2 DEF Sent, Reported, Answers, Msg
  <2>3. CASE m.op = "destroy" /\ c2h' = Append(c2h, Msg("destroyed", m.key, <<>>))
    BY <1>1, <2>3 DEF Sent, Reported, Answers, Msg
  <2>4. CASE m.op = "clear" /\ c2h' = Append(c2h, Msg("cleared", <<>>, <<>>))
    BY <1>1, <2>4 DEF Sent, Reported, Answers, Msg
  <2> QED
    BY <2>1, <2>2, <2>3, <2>4 DEF card_answer
<1> HIDE DEF m
<1>3. \A s \in Thread, key \in Object : Uses(s, key)' <=> Uses(s, key)
  BY <1>1 DEF Uses, Key
<1>4. ASSUME NEW key \in Object
      PROVE  /\ One(h2c, {"destroy"}, key)' /\ One(c2h, {"destroyed"}, key)'
             /\ Leaves(key)' => Leaves(key) /\ ~Left(key)'
             /\ Left(key)' => Left(key) \/ (Leaves(key) /\ m.op = "destroy" /\ m.key = key)
             /\ Leaves(key) \/ Left(key) => Leaves(key)' \/ Left(key)'
  <2>1. /\ Leaves(key)' <=> Has(Tail(h2c), {"destroy"}, key)
        /\ Left(key)' <=> Has(Append(c2h, r), {"destroyed"}, key)
        /\ One(h2c, {"destroy"}, key)' <=> One(Tail(h2c), {"destroy"}, key)
        /\ One(c2h, {"destroyed"}, key)' <=> One(Append(c2h, r), {"destroyed"}, key)
    BY <1>1, <1>2 DEF Leaves, Left, Has, One
  <2>2. /\ Leaves(key) <=> Has(Tail(h2c), {"destroy"}, key) \/ (m.op = "destroy" /\ m.key = key)
        /\ One(Tail(h2c), {"destroy"}, key)
        /\ ~(Has(Tail(h2c), {"destroy"}, key) /\ m.op = "destroy" /\ m.key = key)
    BY <1>1, TailHas DEF ChannelOK, Exclusive, Leaves, m
  <2>3. /\ Has(Append(c2h, r), {"destroyed"}, key) <=> Left(key) \/ (m.op = "destroy" /\ m.key = key)
        /\ ~(Left(key) /\ m.op = "destroy" /\ m.key = key) => One(Append(c2h, r), {"destroyed"}, key)
    BY <1>2, AppendHas DEF ChannelOK, Exclusive, Left
  <2>4. Leaves(key) => ~Left(key)
    BY DEF Exclusive
  <2> QED
    BY <2>1, <2>2, <2>3, <2>4
<1>5. ASSUME NEW key \in Object PROVE Exclusive(key)'
  <2>1. Owned(key)' => Owned(key)
    BY <1>1, <1>3, <1>4 DEF Owned
  <2> QED
    BY <1>1, <1>3, <1>4, <2>1 DEF Exclusive
<1>6. Haves'
  BY <1>1 DEF Haves, Key
<1>7. Kept'
  <2>1. \A key \in Object : Owned(key) => Owned(key)'
    BY <1>1, <1>3, <1>4 DEF Owned
  <2> QED
    BY <1>1, <2>1 DEF Kept
<1>8. Found'
  BY <1>1, <1>4 DEF Found
<1> QED
  BY <1>5, <1>6, <1>7, <1>8

\* and its confirmation frees an id that nobody else owns.
LEMMA DestroyedOwners == ASSUME IInv, Lost', destroyed PROVE Ownership'
<1> USE DEF IInv, Ownership, TypeOK
<1> DEFINE m == Head(c2h)
<1>1. /\ c2h # <<>> /\ c2h' = Tail(c2h) /\ m \in Reported /\ m.op = "destroyed"
      /\ objdb' = objdb \ {m.key}
      /\ held' = [held EXCEPT ![m.key[1]] = @ \ {m.key[2]}]
      /\ UNCHANGED <<h2c, my, pc, live, dead, exited>>
  BY TailOf DEF destroyed, Receive, ChannelOK, threadVars, cardVars
<1>2. m.key \in Object
  BY <1>1 DEF Reported, Answers
<1> HIDE DEF m
<1>3. \A s \in Thread, key \in Object : Uses(s, key)' <=> Uses(s, key)
  BY <1>1 DEF Uses, Key
<1>4. ASSUME NEW key \in Object
      PROVE  /\ Leaves(key)' <=> Leaves(key)
             /\ One(h2c, {"destroy"}, key)' /\ One(c2h, {"destroyed"}, key)'
             /\ Left(key) <=> Left(key)' \/ key = m.key
             /\ ~(Left(key)' /\ key = m.key)
  <2>1. /\ Leaves(key)' <=> Leaves(key)
        /\ One(h2c, {"destroy"}, key)' <=> One(h2c, {"destroy"}, key)
        /\ Left(key)' <=> Has(Tail(c2h), {"destroyed"}, key)
        /\ One(c2h, {"destroyed"}, key)' <=> One(Tail(c2h), {"destroyed"}, key)
    BY <1>1 DEF Leaves, Left, Has, One
  <2>2. /\ Left(key) <=> Has(Tail(c2h), {"destroyed"}, key) \/ m.key = key
        /\ One(Tail(c2h), {"destroyed"}, key)
        /\ ~(Has(Tail(c2h), {"destroyed"}, key) /\ m.key = key)
    BY <1>1, TailHas DEF ChannelOK, Exclusive, Left, m
  <2> QED
    BY <2>1, <2>2 DEF Exclusive
<1>5. m.key \notin live /\ ~Leaves(m.key) /\ \A s \in Thread : ~Uses(s, m.key)
  BY <1>2, <1>4 DEF Exclusive
<1>6. \A key \in Object : Owned(key)' <=> Owned(key) /\ key # m.key
  BY <1>1, <1>3, <1>4, <1>5 DEF Owned
<1>7. \A key \in Object : key[2] \in held'[key[1]] <=> key[2] \in held[key[1]] /\ key # m.key
  <2>1. \A key \in Object : key = m.key <=> key[1] = m.key[1] /\ key[2] = m.key[2]
    BY <1>2 DEF Object
  <2> QED
    BY <1>1, <1>2, <2>1 DEF Object
<1>8. ASSUME NEW key \in Object PROVE Exclusive(key)'
  BY <1>1, <1>3, <1>4, <1>6, <1>7 DEF Exclusive
<1>9. Haves'
  BY <1>1 DEF Haves, Key
<1>10. Kept'
  BY <1>1, <1>6, <1>7 DEF Kept
<1>11. Found'
  BY <1>1, <1>4, <1>5 DEF Found
<1> QED
  BY <1>8, <1>9, <1>10, <1>11

\* Every step keeps the owners.
LEMMA OwnersNext == ASSUME IInv, Next PROVE Ownership'
<1> USE DEF ctxVars, dbVars, threadVars, recVars, cardVars
<1>0. Lost' /\ (dead => dead') /\ ChannelOK /\ pc \in [Thread -> Creating \cup {"idle", "have"}]
  BY LostNext DEF IInv, TypeOK
<1>1. ASSUME NEW t \in Thread, create(t) PROVE Ownership'
  BY <1>0, <1>1, CreateOwners
<1>2. ASSUME NEW t \in Thread, finalize(t) PROVE Ownership'
  <2>1. SameUsers
    BY <1>0, <1>2 DEF finalize, SameUsers, Creating
  <2>3. SameDestroys
    BY <1>2, NothingSent DEF finalize
  <2> QED
    BY <1>0, <1>2, <2>1, <2>3, OwnersSame DEF finalize
<1>3. ASSUME NEW t \in Thread, send(t) PROVE Ownership'
  <2>1. SameUsers
    BY <1>0, <1>3 DEF send, SameUsers, Creating, Goto
  <2>2. Msg("create", Key(t), <<t, creates[t]>>) \in Sent
    BY <1>3, ContextAssumption DEF IInv, TypeOK, Sent, Msg, Key, Object, Request
  <2>3. SameDestroys
    BY <1>0, <1>3, <2>2, OtherSent DEF send, Msg
  <2> QED
    BY <1>0, <1>3, <2>1, <2>3, OwnersSame DEF send
<1>4. ASSUME NEW t \in Thread, send_fail(t) PROVE Ownership'
  <2>1. SameUsers
    BY <1>0, <1>4 DEF send_fail, SameUsers, Creating, Goto
  <2>3. SameDestroys
    BY <1>4, NothingSent DEF send_fail
  <2> QED
    BY <1>0, <1>4, <2>1, <2>3, OwnersSame DEF send_fail
<1>5. ASSUME NEW t \in Thread, finalize_fail(t) PROVE Ownership'
  <2>1. SameUsers
    BY <1>0, <1>5 DEF finalize_fail, SameUsers, Creating
  <2>3. SameDestroys
    BY <1>5, NothingSent DEF finalize_fail
  <2> QED
    BY <1>0, <1>5, <2>1, <2>3, OwnersSame DEF finalize_fail
<1>6. ASSUME NEW t \in Thread, wait_create_command(t) PROVE Ownership'
  <2>1. SameUsers
    BY <1>0, <1>6 DEF wait_create_command, SameUsers, Creating, Goto
  <2>3. SameDestroys
    BY <1>6, NothingSent DEF wait_create_command
  <2> QED
    BY <1>0, <1>6, <2>1, <2>3, OwnersSame DEF wait_create_command
<1>7. ASSUME NEW t \in Thread, wait_sleep(t) PROVE Ownership'
  <2>1. SameUsers
    BY <1>0, <1>7 DEF wait_sleep, SameUsers, Creating, Goto
  <2>3. SameDestroys
    BY <1>7, NothingSent DEF wait_sleep
  <2> QED
    BY <1>0, <1>7, <2>1, <2>3, OwnersSame DEF wait_sleep
<1>8. ASSUME NEW t \in Thread, create_success(t) PROVE Ownership'
  BY <1>0, <1>8, SuccessOwners
<1>9. ASSUME NEW t \in Thread, create_failure(t) PROVE Ownership'
  BY <1>0, <1>9, FailureOwners
<1>10. ASSUME NEW t \in Thread, destroy(t) PROVE Ownership'
  BY <1>0, <1>10, DestroyOwners
<1>11. ASSUME NEW x \in {"context", "fatal"}, recover(x) PROVE Ownership'
  <2>1. SameUsers
    BY <1>0, <1>11 DEF recover, SameUsers, Creating
  <2>3. SameDestroys
    BY <1>11, NothingSent DEF recover
  <2> QED
    BY <1>0, <1>11, <2>1, <2>3, OwnersSame DEF recover
<1>12. ASSUME recover_send PROVE Ownership'
  <2>1. SameUsers
    BY <1>0, <1>12 DEF recover_send, SameUsers, Creating
  <2>2. Msg("clear", <<>>, <<>>) \in Sent
    BY DEF Sent, Msg
  <2>3. SameDestroys
    BY <1>0, <1>12, <2>2, OtherSent, NothingSent DEF recover_send, Msg
  <2> QED
    BY <1>0, <1>12, <2>1, <2>3, OwnersSame DEF recover_send
<1>13. ASSUME recover_wait PROVE Ownership'
  <2>1. SameUsers
    BY <1>0, <1>13 DEF recover_wait, SameUsers, Creating
  <2>3. SameDestroys
    BY <1>13, NothingSent DEF recover_wait
  <2> QED
    BY <1>0, <1>13, <2>1, <2>3, OwnersSame DEF recover_wait
<1>14. ASSUME recover_end PROVE Ownership'
  <2>1. SameUsers
    BY <1>0, <1>14 DEF recover_end, SameUsers, Creating
  <2>3. SameDestroys
    BY <1>14, NothingSent DEF recover_end
  <2> QED
    BY <1>0, <1>14, <2>1, <2>3, OwnersSame DEF recover_end
<1>15. ASSUME NEW op, process_create_reply(op) PROVE Ownership'
  <2>1. SameUsers
    BY <1>0, <1>15 DEF process_create_reply, SameUsers, Creating, Notify
  <2>3. SameDestroys
    BY <1>0, <1>15, OtherRead DEF process_create_reply, Receive
  <2> QED
    BY <1>0, <1>15, <2>1, <2>3, OwnersSame DEF process_create_reply
<1>16. ASSUME destroyed PROVE Ownership'
  BY <1>0, <1>16, DestroyedOwners
<1>17. ASSUME NEW op, critical_error(op) PROVE Ownership'
  <2>1. SameUsers
    BY <1>0, <1>17 DEF critical_error, SameUsers, Creating, Notify
  <2>3. SameDestroys
    BY <1>0, <1>17, OtherRead DEF critical_error, Receive
  <2> QED
    BY <1>0, <1>17, <2>1, <2>3, OwnersSame DEF critical_error
<1>18. ASSUME errors_cleared PROVE Ownership'
  <2>1. SameUsers
    BY <1>0, <1>18 DEF errors_cleared, SameUsers, Creating, Notify
  <2>3. SameDestroys
    BY <1>0, <1>18, OtherRead DEF errors_cleared, Receive
  <2> QED
    BY <1>0, <1>18, <2>1, <2>3, OwnersSame DEF errors_cleared
<1>19. ASSUME NEW op, response_exit(op) PROVE Ownership'
  <2>1. SameUsers
    BY <1>0, <1>19 DEF response_exit, SameUsers, Creating, Notify
  <2>3. SameDestroys
    BY <1>0, <1>19, OtherRead DEF response_exit, Receive
  <2> QED
    BY <1>0, <1>19, <2>1, <2>3, OwnersSame DEF response_exit
<1>20. ASSUME card_answer PROVE Ownership'
  BY <1>0, <1>20, AnswerOwners
<1>21. ASSUME NEW op, card_breaks(op) PROVE Ownership'
  <2>1. SameUsers
    BY <1>0, <1>21 DEF card_breaks, SameUsers, Creating
  <2>2. Msg(op, <<>>, <<>>) \in Reported
    BY <1>21 DEF card_breaks, Reported, Msg
  <2>3. SameDestroys
    BY <1>0, <1>21, <2>2, OtherReported DEF card_breaks, Msg
  <2> QED
    BY <1>0, <1>21, <2>1, <2>3, OwnersSame DEF card_breaks
<1>22. ASSUME NEW op, card_dies(op) PROVE Ownership'
  <2>1. SameUsers
    BY <1>0, <1>22 DEF card_dies, SameUsers, Creating
  <2>2. Msg(op, <<>>, <<>>) \in Reported
    BY <1>22 DEF card_dies, Reported, Msg
  <2>3. SameDestroys
    BY <1>0, <1>22, <2>2, OtherReported DEF card_dies, Msg
  <2> QED
    BY <1>0, <1>22, <2>1, <2>3, OwnersSame DEF card_dies
<1> QED
  BY <1>1, <1>2, <1>3, <1>4, <1>5, <1>6, <1>7, <1>8, <1>9, <1>10, <1>11, <1>12, <1>13, <1>14, <1>15, <1>16, <1>17, <1>18, <1>19, <1>20, <1>21, <1>22 DEF Next, CreateStep, RecoverStep, RespStep

-----------------------------------------------------------------------------
(***************************************************************************)
(* Requests and answers                                                    *)
(***************************************************************************)

\* The messages of r are ones of q.
Fewer(q, r, ops) ==
    /\ \A key \in Object : One(q, ops, key) => One(r, ops, key)
    /\ \A i \in DOMAIN r : r[i].op \in ops => \E j \in DOMAIN q : q[j] = r[i]

\* Who waits still waits, for the same.
SameWaiters == \A t \in Thread :
    pc[t] \in Waiting => pc'[t] \in Waiting /\ my'[t] = my[t] /\ creates'[t] = creates[t]

\* A queue that stays the same,
LEMMA SameFewer == ASSUME NEW q, NEW ops PROVE Fewer(q, q, ops)
BY DEF Fewer

\* one that gets a message of another kind,
LEMMA AppendFewer ==
    ASSUME NEW M, NEW q \in Seq(M), NEW m \in M, NEW ops, m.op \notin ops
    PROVE  Fewer(q, Append(q, m), ops)
<1>1. \A key \in Object : One(q, ops, key) => One(Append(q, m), ops, key)
  BY AppendHas
<1>2. \A i \in DOMAIN Append(q, m) :
          Append(q, m)[i].op \in ops => i \in DOMAIN q /\ q[i] = Append(q, m)[i]
  BY AppendTo
<1> QED
  BY <1>1, <1>2 DEF Fewer

\* and one whose first message is taken bear no new request.
LEMMA TailFewer ==
    ASSUME NEW M, NEW q \in Seq(M), q # <<>>, NEW ops
    PROVE  Fewer(q, Tail(q), ops)
<1>1. \A key \in Object : One(q, ops, key) => One(Tail(q), ops, key)
  BY TailHas
<1>2. \A i \in DOMAIN Tail(q) : i + 1 \in DOMAIN q /\ q[i + 1] = Tail(q)[i]
  BY TailOf
<1> QED
  BY <1>1, <1>2 DEF Fewer

\* A thread that is awaited has a request of its own.
LEMMA AwaitedUses ==
    ASSUME TypeOK, NEW by \in Request, NEW key, Awaited(key, by)
    PROVE  by[1] \in Thread /\ Uses(by[1], key) /\ by = <<by[1], creates[by[1]]>>
BY DEF Request, Awaited, Uses, Waiting, Creating

\* A request has a thread.
LEMMA RequestTypes ==
    ASSUME ChannelOK, TypeOK, NEW key \in Object
    PROVE  /\ Has(h2c, {"create"}, key) => \E by \in Request : Bears(h2c, {"create"}, key, by)
           /\ Has(c2h, Answers, key) => \E by \in Request : Bears(c2h, Answers, key, by)
           /\ key \in DOMAIN m_create_reply => m_create_reply[key].by \in Request
<1>1. \A m \in Sent : m.op = "create" => m.by \in Request
  BY DEF Sent
<1>2. \A m \in Reported : m.op \in Answers => m.by \in Request
  BY DEF Reported, Answers
<1>3. Has(h2c, {"create"}, key) => \E by \in Request : Bears(h2c, {"create"}, key, by)
  BY <1>1 DEF ChannelOK, Has, Bears
<1>4. Has(c2h, Answers, key) => \E by \in Request : Bears(c2h, Answers, key, by)
  BY <1>2 DEF ChannelOK, Has, Bears
<1> QED
  BY <1>3, <1>4 DEF TypeOK

\* A thread that has not sent its request yet is not awaited by any.
LEMMA NoRequest ==
    ASSUME IInv, Calm, NEW t \in Thread, pc[t] \in Creating, pc[t] \notin Waiting
    PROVE  /\ ~Has(h2c, {"create"}, Key(t)) /\ ~Has(c2h, Answers, Key(t))
           /\ Key(t) \notin DOMAIN m_create_reply
<1> USE DEF IInv
<1>1. Key(t) \in Object /\ Uses(t, Key(t))
  BY ContextAssumption DEF TypeOK, Uses, Key, Object
<1>2. \A by \in Request : ~Awaited(Key(t), by)
  BY <1>1, AwaitedUses DEF Ownership, Exclusive, Awaited
<1> QED
  BY <1>1, <1>2, RequestTypes DEF Answered, Requests, Pending

\* Nothing changes for those who wait.
LEMMA RequestsSame ==
    ASSUME IInv, Calm, SameWaiters, UNCHANGED m_create_reply,
           Fewer(h2c, h2c', {"create"}), Fewer(c2h, c2h', Answers)
    PROVE  Requests'
<1> USE DEF IInv
<1>1. \A key \in Object, by \in Request : Awaited(key, by) => Awaited(key, by)'
  BY DEF Awaited, SameWaiters, Key, Request
<1>2. \A key \in Object, by \in Request : Pending(key, by)' => Pending(key, by)
  BY DEF Pending, Bears, Fewer
<1>3. ASSUME NEW key \in Object PROVE Asked(key)'
  <2>1. /\ Has(h2c', {"create"}, key) => Has(h2c, {"create"}, key)
        /\ Has(c2h', Answers, key) => Has(c2h, Answers, key)
    BY DEF Fewer, Has
  <2>2. /\ One(h2c, {"create"}, key)' <=> One(h2c', {"create"}, key)
        /\ One(c2h, Answers, key)' <=> One(c2h', Answers, key)
        /\ Has(h2c, {"create"}, key)' <=> Has(h2c', {"create"}, key)
        /\ Has(c2h, Answers, key)' <=> Has(c2h', Answers, key)
    BY DEF One, Has, Answers
  <2>3. Asked(key)
    BY DEF Answered, Requests
  <2>4. /\ One(h2c, {"create"}, key) => One(h2c', {"create"}, key)
        /\ One(c2h, Answers, key) => One(c2h', Answers, key)
    BY DEF Fewer
  <2> QED
    BY <2>1, <2>2, <2>3, <2>4 DEF Asked
<1> QED
  BY <1>1, <1>2, <1>3 DEF Answered, Requests


\* A request is sent by a thread that no other one is taken for.
LEMMA SendRequests == ASSUME IInv, Calm, NEW t \in Thread, send(t) PROVE Requests'
<1> USE DEF IInv
<1> DEFINE m == Msg("create", Key(t), <<t, creates[t]>>)
<1>1. /\ pc[t] \in {"alloc", "counted"} /\ pc' = [pc EXCEPT ![t] = "wait"]
      /\ h2c' = Append(h2c, m)
      /\ UNCHANGED <<my, creates, c2h, m_create_reply>>
  BY DEF send, Goto
<1>2. /\ m \in Sent /\ m.op = "create" /\ m.key = Key(t) /\ m.by = <<t, creates[t]>>
      /\ Key(t) \in Object
  BY ContextAssumption DEF TypeOK, Sent, Msg, Key, Object, Request
<1> HIDE DEF m
<1>3. /\ ~Has(h2c, {"create"}, Key(t)) /\ ~Has(c2h, Answers, Key(t))
      /\ Key(t) \notin DOMAIN m_create_reply
  BY <1>1, NoRequest DEF Creating, Waiting
<1>4. ASSUME NEW key \in Object PROVE Asked(key)'
  <2>1. /\ Has(h2c', {"create"}, key) <=> Has(h2c, {"create"}, key) \/ key = Key(t)
        /\ One(h2c, {"create"}, key) => One(h2c', {"create"}, key)
    BY <1>1, <1>2, <1>3, AppendHas DEF ChannelOK
  <2>2. /\ One(h2c, {"create"}, key)' <=> One(h2c', {"create"}, key)
        /\ One(c2h, Answers, key)' <=> One(c2h, Answers, key)
        /\ Has(h2c, {"create"}, key)' <=> Has(h2c', {"create"}, key)
        /\ Has(c2h, Answers, key)' <=> Has(c2h, Answers, key)
    BY <1>1 DEF One, Has, Answers
  <2>3. Asked(key)
    BY DEF Answered, Requests
  <2> QED
    BY <1>1, <1>3, <2>1, <2>2, <2>3 DEF Asked
<1>5. ASSUME NEW key \in Object, NEW by \in Request, Pending(key, by)' PROVE Awaited(key, by)'
  <2>1. Pending(key, by) \/ (key = Key(t) /\ by = <<t, creates[t]>>)
    <3>1. \A i \in DOMAIN h2c' : h2c'[i] = m \/ (i \in DOMAIN h2c /\ h2c'[i] = h2c[i])
      BY <1>1, <1>2, AppendTo DEF ChannelOK
    <3> QED
      BY <1>1, <1>2, <1>5, <3>1 DEF Pending, Bears
  <2>2. CASE Pending(key, by)
    <3>1. Awaited(key, by)
      BY <2>2 DEF Answered, Requests
    <3> QED
      BY <1>1, <3>1 DEF TypeOK, Awaited, Key, Waiting, Request
  <2>3. CASE key = Key(t) /\ by = <<t, creates[t]>>
    BY <1>1, <2>3 DEF TypeOK, Awaited, Key, Waiting
  <2> QED
    BY <2>1, <2>2, <2>3
<1> QED
  BY <1>4, <1>5 DEF Requests

\* A thread takes the only answer there is for it.
LEMMA WaitRequests == ASSUME IInv, Calm, NEW t \in Thread, wait_create_command(t) PROVE Requests'
<1> USE DEF IInv
<1>1. /\ pc[t] = "wait" /\ pc' = [pc EXCEPT ![t] = pc'[t]]
      /\ Key(t) \in DOMAIN m_create_reply
      /\ m_create_reply' = [x \in DOMAIN m_create_reply \ {Key(t)} |-> m_create_reply[x]]
      /\ UNCHANGED <<my, creates, h2c, c2h>>
  BY DEF wait_create_command, Goto, Calm, TypeOK
<1>2. Key(t) \in Object
  BY <1>1 DEF TypeOK
<1>3. ~Has(h2c, {"create"}, Key(t)) /\ ~Has(c2h, Answers, Key(t))
  BY <1>1, <1>2 DEF Answered, Requests, Asked
<1>4. ASSUME NEW key \in Object PROVE Asked(key)'
  <2>1. /\ One(h2c, {"create"}, key)' <=> One(h2c, {"create"}, key)
        /\ One(c2h, Answers, key)' <=> One(c2h, Answers, key)
        /\ Has(h2c, {"create"}, key)' <=> Has(h2c, {"create"}, key)
        /\ Has(c2h, Answers, key)' <=> Has(c2h, Answers, key)
    BY <1>1 DEF One, Has, Answers
  <2>2. Asked(key)
    BY DEF Answered, Requests
  <2> QED
    BY <1>1, <2>1, <2>2 DEF Asked
<1>5. ASSUME NEW key \in Object, NEW by \in Request, Pending(key, by)' PROVE Awaited(key, by)'
  <2>1. Pending(key, by) /\ key # Key(t)
    <3>1. Pending(key, by)
      BY <1>1, <1>5 DEF Pending, Bears
    <3>2. Has(h2c, {"create"}, key) \/ Has(c2h, Answers, key) \/ key \in DOMAIN m_create_reply'
      BY <1>1, <1>5 DEF Pending, Bears, Has
    <3> QED
      BY <1>1, <1>3, <3>1, <3>2
  <2>2. Awaited(key, by)
    BY <2>1 DEF Answered, Requests
  <2>3. by[1] # t /\ by[1] \in Thread
    BY <2>1, <2>2 DEF Awaited, Request
  <2> QED
    BY <1>1, <2>2, <2>3 DEF TypeOK, Awaited, Key
<1> QED
  BY <1>4, <1>5 DEF Requests

\* The response thread hands the answer over.
LEMMA ReplyRequests ==
    ASSUME IInv, Calm, NEW op, process_create_reply(op)
    PROVE  Requests'
<1> USE DEF IInv
<1> DEFINE ev == Head(c2h)
<1>1. /\ c2h # <<>> /\ c2h' = Tail(c2h) /\ ev \in Reported /\ ev.op \in Answers
      /\ m_create_reply' =
             [x \in DOMAIN m_create_reply \cup {ev.key} |->
                 IF x = ev.key THEN [res |-> op, by |-> ev.by] ELSE m_create_reply[x]]
      /\ UNCHANGED <<my, creates, h2c>>
  BY TailOf DEF process_create_reply, Receive, ChannelOK, Answers
<1>2. SameWaiters
  BY DEF process_create_reply, Notify, SameWaiters, TypeOK, Waiting
<1>3. Has(c2h, Answers, ev.key) /\ Bears(c2h, Answers, ev.key, ev.by)
  BY <1>1, TailOf DEF ChannelOK, Has, Bears
<1>4. ev.key \in Object /\ ev.by \in Request
  BY <1>1 DEF Reported, Answers
<1> HIDE DEF ev
<1>5. ASSUME NEW key \in Object PROVE Asked(key)'
  <2>1. /\ One(h2c, {"create"}, key)' <=> One(h2c, {"create"}, key)
        /\ One(c2h, Answers, key)' <=> One(Tail(c2h), Answers, key)
        /\ Has(h2c, {"create"}, key)' <=> Has(h2c, {"create"}, key)
        /\ Has(c2h, Answers, key)' <=> Has(Tail(c2h), Answers, key)
    BY <1>1 DEF One, Has, Answers
  <2>2. Asked(key)
    BY DEF Answered, Requests
  <2>3. /\ One(Tail(c2h), Answers, key)
        /\ Has(c2h, Answers, key) <=> Has(Tail(c2h), Answers, key) \/ key = ev.key
        /\ ~(Has(Tail(c2h), Answers, key) /\ key = ev.key)
    BY <1>1, <2>2, TailHas DEF ChannelOK, Asked, ev
  <2>4. key \in DOMAIN m_create_reply' <=> key \in DOMAIN m_create_reply \/ key = ev.key
    BY <1>1
  <2> QED
    BY <2>1, <2>2, <2>3, <2>4 DEF Asked
<1>6. ASSUME NEW key \in Object, NEW by \in Request, Pending(key, by)' PROVE Awaited(key, by)'
  <2>1. Pending(key, by)
    <3>1. \A i \in DOMAIN c2h' : i + 1 \in DOMAIN c2h /\ c2h'[i] = c2h[i + 1]
      BY <1>1, TailOf DEF ChannelOK
    <3>2. Bears(c2h, Answers, key, by)' => Bears(c2h, Answers, key, by)
      BY <3>1 DEF Bears, Answers
    <3>3. Bears(h2c, {"create"}, key, by)' => Bears(h2c, {"create"}, key, by)
      BY <1>1 DEF Bears
    <3>4. key \in DOMAIN m_create_reply' /\ m_create_reply'[key].by = by
             => \/ key \in DOMAIN m_create_reply /\ m_create_reply[key].by = by
                \/ key = ev.key /\ by = ev.by
      BY <1>1
    <3> QED
      BY <1>3, <1>6, <3>2, <3>3, <3>4 DEF Pending
  <2>2. Awaited(key, by) /\ by[1] \in Thread
    BY <2>1 DEF Answered, Requests, Request
  <2> QED
    BY <1>2, <2>2 DEF Awaited, SameWaiters, Key
<1> QED
  BY <1>5, <1>6 DEF Requests

\* The card's answer takes the place of the request.
LEMMA AnswerRequests == ASSUME IInv, Calm, card_answer PROVE Requests'
<1> USE DEF IInv
<1> DEFINE m == Head(h2c)
<1>1. /\ h2c # <<>> /\ h2c' = Tail(h2c) /\ m \in Sent
      /\ UNCHANGED <<my, pc, creates, m_create_reply>>
  BY TailOf DEF card_answer, ChannelOK, ctxVars, threadVars
<1>2. SameWaiters
  BY <1>1 DEF SameWaiters
<1>3. Fewer(h2c, h2c', {"create"})
  BY <1>1, TailFewer DEF ChannelOK
<1>4. CASE m.op # "create"
  <2>1. PICK r : c2h' = Append(c2h, r) /\
               \/ m.op = "destroy" /\ r = Msg("destroyed", m.key, <<>>)
               \/ m.op = "clear" /\ r = Msg("cleared", <<>>, <<>>)
    BY <1>4 DEF card_answer
  <2>2. r \in Reported /\ r.op \notin Answers
    BY <1>1, <2>1 DEF Sent, Reported, Answers, Msg
  <2>3. Fewer(c2h, c2h', Answers)
    BY <2>1, <2>2, AppendFewer DEF ChannelOK
  <2> QED
    BY <1>1, <1>2, <1>3, <2>3, RequestsSame
<1>5. CASE m.op = "create"
  <2>1. PICK r \in Reported :
            c2h' = Append(c2h, r) /\ r.op \in Answers /\ r.key = m.key /\ r.by = m.by
    <3>1. m.key \in Object /\ m.by \in Request
      BY <1>1, <1>5 DEF Sent
    <3>2. /\ Msg("success", m.key, m.by) \in Reported /\ Msg("failure", m.key, m.by) \in Reported
          /\ \A op : Msg(op, m.key, m.by).op = op
          /\ \A op : Msg(op, m.key, m.by).key = m.key /\ Msg(op, m.key, m.by).by = m.by
      BY <3>1 DEF Reported, Answers, Msg
    <3>3. \/ c2h' = Append(c2h, Msg("success", m.key, m.by))
          \/ c2h' = Append(c2h, Msg("failure", m.key, m.by))
      BY <1>5 DEF card_answer
    <3> QED
      BY <3>2, <3>3 DEF Answers
  <2>2. Has(h2c, {"create"}, m.key) /\ Bears(h2c, {"create"}, m.key, m.by)
    BY <1>1, <1>5, TailOf DEF ChannelOK, Has, Bears
  <2> HIDE DEF m
  <2>3. ASSUME NEW key \in Object PROVE Asked(key)'
    <3>1. /\ One(h2c, {"create"}, key)' <=> One(Tail(h2c), {"create"}, key)
          /\ One(c2h, Answers, key)' <=> One(Append(c2h, r), Answers, key)
          /\ Has(h2c, {"create"}, key)' <=> Has(Tail(h2c), {"create"}, key)
          /\ Has(c2h, Answers, key)' <=> Has(Append(c2h, r), Answers, key)
      BY <1>1, <2>1 DEF One, Has, Answers
    <3>2. Asked(key)
      BY DEF Answered, Requests
    <3>3. /\ One(Tail(h2c), {"create"}, key)
          /\ Has(h2c, {"create"}, key) <=> Has(Tail(h2c), {"create"}, key) \/ key = m.key
          /\ ~(Has(Tail(h2c), {"create"}, key) /\ key = m.key)
      BY <1>1, <1>5, <3>2, TailHas DEF ChannelOK, Asked, m
    <3>4. /\ Has(Append(c2h, r), Answers, key) <=> Has(c2h, Answers, key) \/ key = m.key
          /\ ~(Has(c2h, Answers, key) /\ key = m.key) => One(Append(c2h, r), Answers, key)
      BY <2>1, <3>2, AppendHas DEF ChannelOK, Asked
    <3> QED
      BY <1>1, <3>1, <3>2, <3>3, <3>4 DEF Asked
  <2>4. ASSUME NEW key \in Object, NEW by \in Request, Pending(key, by)' PROVE Awaited(key, by)'
    <3>1. Pending(key, by)
      <4>1. \A i \in DOMAIN c2h' : c2h'[i] = r \/ (i \in DOMAIN c2h /\ c2h'[i] = c2h[i])
        BY <2>1, AppendTo DEF ChannelOK
      <4>2. Bears(c2h, Answers, key, by)' => Bears(c2h, Answers, key, by) \/ (key = m.key /\ by = m.by)
        BY <2>1, <4>1 DEF Bears, Answers
      <4>3. Bears(h2c, {"create"}, key, by)' => Bears(h2c, {"create"}, key, by)
        BY <1>3 DEF Bears, Fewer
      <4> QED
        BY <1>1, <2>2, <2>4, <4>2, <4>3 DEF Pending
    <3>2. Awaited(key, by)
      BY <3>1 DEF Answered, Requests
    <3> QED
      BY <1>1, <3>2 DEF Awaited, Key
  <2> QED
    BY <2>3, <2>4 DEF Requests
<1> QED
  BY <1>4, <1>5

\* Calm was calm before.
LEMMA CalmBefore == ASSUME IInv, Next, Calm' PROVE Calm
<1> USE DEF IInv, TypeOK, Answered, Recovered, Calm, broken, ctxVars, recVars
<1>1. ASSUME NEW t \in Thread, create(t) PROVE Calm
  BY <1>1 DEF create
<1>2. ASSUME NEW t \in Thread, finalize(t) PROVE Calm
  BY <1>2 DEF finalize
<1>3. ASSUME NEW t \in Thread, send(t) PROVE Calm
  BY <1>3 DEF send
<1>4. ASSUME NEW t \in Thread, send_fail(t) PROVE Calm
  BY <1>4 DEF send_fail
<1>5. ASSUME NEW t \in Thread, finalize_fail(t) PROVE Calm
  BY <1>5 DEF finalize_fail
<1>6. ASSUME NEW t \in Thread, wait_create_command(t) PROVE Calm
  BY <1>6 DEF wait_create_command
<1>7. ASSUME NEW t \in Thread, wait_sleep(t) PROVE Calm
  BY <1>7 DEF wait_sleep
<1>8. ASSUME NEW t \in Thread, create_success(t) PROVE Calm
  BY <1>8 DEF create_success
<1>9. ASSUME NEW t \in Thread, create_failure(t) PROVE Calm
  BY <1>9 DEF create_failure
<1>10. ASSUME NEW t \in Thread, destroy(t) PROVE Calm
  BY <1>10 DEF destroy
<1>11. ASSUME NEW x \in {"context", "fatal"}, recover(x) PROVE Calm
  BY <1>11 DEF recover
<1>12. ASSUME recover_send PROVE Calm
  BY <1>12 DEF recover_send
<1>13. ASSUME recover_wait PROVE Calm
  BY <1>13 DEF recover_wait
<1>14. ASSUME recover_end PROVE Calm
  BY <1>14 DEF recover_end
<1>15. ASSUME NEW op, process_create_reply(op) PROVE Calm
  BY <1>15 DEF process_create_reply
<1>16. ASSUME destroyed PROVE Calm
  BY <1>16 DEF destroyed
<1>17. ASSUME NEW op, critical_error(op) PROVE Calm
  BY <1>17 DEF critical_error
<1>18. ASSUME errors_cleared PROVE Calm
  BY <1>18 DEF errors_cleared
<1>19. ASSUME NEW op, response_exit(op) PROVE Calm
  BY <1>19 DEF response_exit
<1>20. ASSUME card_answer PROVE Calm
  BY <1>20 DEF card_answer
<1>21. ASSUME NEW op, card_breaks(op) PROVE Calm
  BY <1>21 DEF card_breaks
<1>22. ASSUME NEW op, card_dies(op) PROVE Calm
  BY <1>22 DEF card_dies
<1> QED
  BY <1>1, <1>2, <1>3, <1>4, <1>5, <1>6, <1>7, <1>8, <1>9, <1>10, <1>11, <1>12, <1>13, <1>14, <1>15, <1>16, <1>17, <1>18, <1>19, <1>20, <1>21, <1>22 DEF Next, CreateStep, RecoverStep, RespStep

\* Every step keeps the requests apart.
LEMMA RequestsNext == ASSUME IInv, Next PROVE Requests'
<1> SUFFICES ASSUME Calm' PROVE Requests'
  BY DEF Requests
<1>0. Calm
  BY CalmBefore
<1> USE DEF ctxVars, dbVars, threadVars, recVars, cardVars
<1>1. ASSUME NEW t \in Thread, create(t) PROVE Requests'
  <2>1. SameWaiters
    BY <1>1 DEF create, SameWaiters, Waiting, TypeOK, IInv, Goto
  <2>3. Fewer(h2c, h2c', {"create"}) /\ Fewer(c2h, c2h', Answers)
    BY <1>1, SameFewer DEF create
  <2> QED
    BY <1>0, <1>1, <2>1, <2>3, RequestsSame DEF create
<1>2. ASSUME NEW t \in Thread, finalize(t) PROVE Requests'
  <2>1. SameWaiters
    BY <1>2 DEF finalize, SameWaiters, Waiting, TypeOK, IInv
  <2>3. Fewer(h2c, h2c', {"create"}) /\ Fewer(c2h, c2h', Answers)
    BY <1>2, SameFewer DEF finalize
  <2> QED
    BY <1>0, <1>2, <2>1, <2>3, RequestsSame DEF finalize
<1>3. ASSUME NEW t \in Thread, send(t) PROVE Requests'
  BY <1>0, <1>3, SendRequests
<1>4. ASSUME NEW t \in Thread, send_fail(t) PROVE Requests'
  <2>1. SameWaiters
    BY <1>4 DEF send_fail, SameWaiters, Waiting, TypeOK, IInv, Goto
  <2>3. Fewer(h2c, h2c', {"create"}) /\ Fewer(c2h, c2h', Answers)
    BY <1>4, SameFewer DEF send_fail
  <2> QED
    BY <1>0, <1>4, <2>1, <2>3, RequestsSame DEF send_fail
<1>5. ASSUME NEW t \in Thread, finalize_fail(t) PROVE Requests'
  <2>1. SameWaiters
    BY <1>5 DEF finalize_fail, SameWaiters, Waiting, TypeOK, IInv
  <2>3. Fewer(h2c, h2c', {"create"}) /\ Fewer(c2h, c2h', Answers)
    BY <1>5, SameFewer DEF finalize_fail
  <2> QED
    BY <1>0, <1>5, <2>1, <2>3, RequestsSame DEF finalize_fail
<1>6. ASSUME NEW t \in Thread, wait_create_command(t) PROVE Requests'
  BY <1>0, <1>6, WaitRequests
<1>7. ASSUME NEW t \in Thread, wait_sleep(t) PROVE Requests'
  <2>1. SameWaiters
    BY <1>7 DEF wait_sleep, SameWaiters, Waiting, TypeOK, IInv, Goto
  <2>3. Fewer(h2c, h2c', {"create"}) /\ Fewer(c2h, c2h', Answers)
    BY <1>7, SameFewer DEF wait_sleep
  <2> QED
    BY <1>0, <1>7, <2>1, <2>3, RequestsSame DEF wait_sleep
<1>8. ASSUME NEW t \in Thread, create_success(t) PROVE Requests'
  <2>1. SameWaiters
    BY <1>8 DEF create_success, SameWaiters, Waiting, TypeOK, IInv, Goto
  <2>3. Fewer(h2c, h2c', {"create"}) /\ Fewer(c2h, c2h', Answers)
    BY <1>8, SameFewer DEF create_success
  <2> QED
    BY <1>0, <1>8, <2>1, <2>3, RequestsSame DEF create_success
<1>9. ASSUME NEW t \in Thread, create_failure(t) PROVE Requests'
  <2>1. SameWaiters
    BY <1>9 DEF create_failure, SameWaiters, Waiting, TypeOK, IInv, Leave, Goto
  <2>3. Fewer(h2c, h2c', {"create"}) /\ Fewer(c2h, c2h', Answers)
    BY <1>9, SameFewer DEF create_failure
  <2> QED
    BY <1>0, <1>9, <2>1, <2>3, RequestsSame DEF create_failure
<1>10. ASSUME NEW t \in Thread, destroy(t) PROVE Requests'
  <2>1. SameWaiters
    BY <1>10 DEF destroy, SameWaiters, Waiting, TypeOK, IInv, Leave, Goto
  <2>2. Msg("destroy", Key(t), <<>>) \in Sent /\ Msg("destroy", Key(t), <<>>).op # "create"
    BY ContextAssumption DEF IInv, TypeOK, Sent, Msg, Key, Object
  <2>3. Fewer(h2c, h2c', {"create"}) /\ Fewer(c2h, c2h', Answers)
    BY <1>10, <2>2, AppendFewer, SameFewer DEF destroy, IInv, ChannelOK
  <2> QED
    BY <1>0, <1>10, <2>1, <2>3, RequestsSame DEF destroy
<1>11. ASSUME NEW x \in {"context", "fatal"}, recover(x) PROVE Requests'
  BY <1>11 DEF recover, IInv, Answered, Recovered, Calm, broken
<1>12. ASSUME recover_send PROVE Requests'
  BY <1>0, <1>12 DEF recover_send, IInv, Answered, Recovered, Calm
<1>13. ASSUME recover_wait PROVE Requests'
  BY <1>0, <1>13 DEF recover_wait, IInv, Answered, Recovered, Calm
<1>14. ASSUME recover_end PROVE Requests'
  BY <1>0, <1>14 DEF recover_end, IInv, Answered, Recovered, Calm
<1>15. ASSUME NEW op, process_create_reply(op) PROVE Requests'
  BY <1>0, <1>15, ReplyRequests
<1>16. ASSUME destroyed PROVE Requests'
  <2>1. SameWaiters
    BY <1>16 DEF destroyed, SameWaiters, Waiting, TypeOK, IInv
  <2>3. Fewer(h2c, h2c', {"create"}) /\ Fewer(c2h, c2h', Answers)
    BY <1>16, TailFewer, SameFewer DEF destroyed, Receive, IInv, ChannelOK
  <2> QED
    BY <1>0, <1>16, <2>1, <2>3, RequestsSame DEF destroyed
<1>17. ASSUME NEW op, critical_error(op) PROVE Requests'
  BY <1>17 DEF critical_error, IInv, Answered, Recovered, Calm, broken
<1>18. ASSUME errors_cleared PROVE Requests'
  <2>1. SameWaiters
    BY <1>18 DEF errors_cleared, SameWaiters, Waiting, TypeOK, IInv, Notify
  <2>3. Fewer(h2c, h2c', {"create"}) /\ Fewer(c2h, c2h', Answers)
    BY <1>18, TailFewer, SameFewer DEF errors_cleared, Receive, IInv, ChannelOK
  <2> QED
    BY <1>0, <1>18, <2>1, <2>3, RequestsSame DEF errors_cleared
<1>19. ASSUME NEW op, response_exit(op) PROVE Requests'
  BY <1>19 DEF response_exit, IInv, Answered, Recovered, Calm, broken
<1>20. ASSUME card_answer PROVE Requests'
  BY <1>0, <1>20, AnswerRequests
<1>21. ASSUME NEW op, card_breaks(op) PROVE Requests'
  <2>1. SameWaiters
    BY <1>21 DEF card_breaks, SameWaiters, Waiting, TypeOK, IInv
  <2>2. Msg(op, <<>>, <<>>) \in Reported /\ Msg(op, <<>>, <<>>).op \notin Answers
    BY <1>21 DEF card_breaks, Reported, Answers, Msg
  <2>3. Fewer(h2c, h2c', {"create"}) /\ Fewer(c2h, c2h', Answers)
    BY <1>21, <2>2, AppendFewer, SameFewer DEF card_breaks, IInv, ChannelOK
  <2> QED
    BY <1>0, <1>21, <2>1, <2>3, RequestsSame DEF card_breaks
<1>22. ASSUME NEW op, card_dies(op) PROVE Requests'
  <2>1. SameWaiters
    BY <1>22 DEF card_dies, SameWaiters, Waiting, TypeOK, IInv
  <2>2. Msg(op, <<>>, <<>>) \in Reported /\ Msg(op, <<>>, <<>>).op \notin Answers
    BY <1>22 DEF card_dies, Reported, Answers, Msg
  <2>3. Fewer(h2c, h2c', {"create"}) /\ Fewer(c2h, c2h', Answers)
    BY <1>22, <2>2, AppendFewer, SameFewer DEF card_dies, IInv, ChannelOK
  <2> QED
    BY <1>0, <1>22, <2>1, <2>3, RequestsSame DEF card_dies
<1> QED
  BY <1>1, <1>2, <1>3, <1>4, <1>5, <1>6, <1>7, <1>8, <1>9, <1>10, <1>11, <1>12, <1>13, <1>14, <1>15, <1>16, <1>17, <1>18, <1>19, <1>20, <1>21, <1>22 DEF Next, CreateStep, RecoverStep, RespStep

\* Who has an answer has its own.
LEMMA MineNext == ASSUME IInv, Next PROVE AnswerIsMineUnlessRecovered' /\ Recovered'
<1> USE DEF IInv, Answered, Recovered, AnswerIsMineUnlessRecovered, AnswerIsMine, Mine, TypeOK, ThreadOK
<1> USE DEF ctxVars, dbVars, threadVars, recVars, cardVars
<1>1. ASSUME NEW t \in Thread, create(t) PROVE AnswerIsMineUnlessRecovered' /\ Recovered'
  BY <1>1 DEF create, Goto
<1>2. ASSUME NEW t \in Thread, finalize(t) PROVE AnswerIsMineUnlessRecovered' /\ Recovered'
  BY <1>2 DEF finalize
<1>3. ASSUME NEW t \in Thread, send(t) PROVE AnswerIsMineUnlessRecovered' /\ Recovered'
  BY <1>3 DEF send, Goto
<1>4. ASSUME NEW t \in Thread, send_fail(t) PROVE AnswerIsMineUnlessRecovered' /\ Recovered'
  BY <1>4 DEF send_fail, Goto, None
<1>5. ASSUME NEW t \in Thread, finalize_fail(t) PROVE AnswerIsMineUnlessRecovered' /\ Recovered'
  BY <1>5 DEF finalize_fail, None
<1>6. ASSUME NEW t \in Thread, wait_create_command(t) PROVE AnswerIsMineUnlessRecovered' /\ Recovered'
  <2>1. SUFFICES ASSUME recovers = 0 PROVE Mine(t)'
    BY <1>6 DEF wait_create_command, Goto
  <2>2. CASE broken
    BY <1>6, <2>2 DEF wait_create_command, None
  <2>3. CASE ~broken
    <3> DEFINE by == m_create_reply[Key(t)].by
    <3>1. /\ Key(t) \in DOMAIN m_create_reply /\ Key(t) \in Object /\ by \in Request
          /\ answer' = [answer EXCEPT ![t] = m_create_reply[Key(t)]] /\ creates' = creates
      BY <1>6, <2>3 DEF wait_create_command
    <3>2. Awaited(Key(t), by)
      BY <2>1, <2>3, <3>1 DEF Requests, Calm, Pending
    <3>3. by[1] \in Thread /\ Uses(by[1], Key(t)) /\ by = <<by[1], creates[by[1]]>>
      BY <3>1, <3>2, AwaitedUses
    <3>4. Uses(t, Key(t))
      BY <1>6 DEF wait_create_command, Uses, Creating
    <3>5. by[1] = t
      BY <3>1, <3>3, <3>4 DEF Ownership, Exclusive
    <3> QED
      BY <3>1, <3>3, <3>5
  <2> QED
    BY <2>2, <2>3
<1>7. ASSUME NEW t \in Thread, wait_sleep(t) PROVE AnswerIsMineUnlessRecovered' /\ Recovered'
  BY <1>7 DEF wait_sleep, Goto
<1>8. ASSUME NEW t \in Thread, create_success(t) PROVE AnswerIsMineUnlessRecovered' /\ Recovered'
  BY <1>8 DEF create_success, Goto
<1>9. ASSUME NEW t \in Thread, create_failure(t) PROVE AnswerIsMineUnlessRecovered' /\ Recovered'
  BY <1>9 DEF create_failure, Leave, Goto
<1>10. ASSUME NEW t \in Thread, destroy(t) PROVE AnswerIsMineUnlessRecovered' /\ Recovered'
  BY <1>10 DEF destroy, Leave, Goto
<1>11. ASSUME NEW x \in {"context", "fatal"}, recover(x) PROVE AnswerIsMineUnlessRecovered' /\ Recovered'
  BY <1>11 DEF recover
<1>12. ASSUME recover_send PROVE AnswerIsMineUnlessRecovered' /\ Recovered'
  BY <1>12 DEF recover_send
<1>13. ASSUME recover_wait PROVE AnswerIsMineUnlessRecovered' /\ Recovered'
  BY <1>13 DEF recover_wait
<1>14. ASSUME recover_end PROVE AnswerIsMineUnlessRecovered' /\ Recovered'
  BY <1>14 DEF recover_end
<1>15. ASSUME NEW op, process_create_reply(op) PROVE AnswerIsMineUnlessRecovered' /\ Recovered'
  BY <1>15 DEF process_create_reply, Notify
<1>16. ASSUME destroyed PROVE AnswerIsMineUnlessRecovered' /\ Recovered'
  BY <1>16 DEF destroyed
<1>17. ASSUME NEW op, critical_error(op) PROVE AnswerIsMineUnlessRecovered' /\ Recovered'
  BY <1>17 DEF critical_error, Notify
<1>18. ASSUME errors_cleared PROVE AnswerIsMineUnlessRecovered' /\ Recovered'
  BY <1>18 DEF errors_cleared, Notify
<1>19. ASSUME NEW op, response_exit(op) PROVE AnswerIsMineUnlessRecovered' /\ Recovered'
  BY <1>19 DEF response_exit, Notify
<1>20. ASSUME card_answer PROVE AnswerIsMineUnlessRecovered' /\ Recovered'
  BY <1>20 DEF card_answer
<1>21. ASSUME NEW op, card_breaks(op) PROVE AnswerIsMineUnlessRecovered' /\ Recovered'
  BY <1>21 DEF card_breaks
<1>22. ASSUME NEW op, card_dies(op) PROVE AnswerIsMineUnlessRecovered' /\ Recovered'
  BY <1>22 DEF card_dies
<1> QED
  BY <1>1, <1>2, <1>3, <1>4, <1>5, <1>6, <1>7, <1>8, <1>9, <1>10, <1>11, <1>12, <1>13, <1>14, <1>15, <1>16, <1>17, <1>18, <1>19, <1>20, <1>21, <1>22 DEF Next, CreateStep, RecoverStep, RespStep

-----------------------------------------------------------------------------
(***************************************************************************)
(* The count of finalizes                                                  *)
(***************************************************************************)

\* Nothing that is counted changes,
LEMMA CountSame ==
    ASSUME Counted, UNCHANGED m_cmdlist_finalized_in_progress,
           \A t \in Thread : pc'[t] = "counted" <=> pc[t] = "counted",
           Cardinality(Lists(h2c', {"create"})) = Cardinality(Lists(h2c, {"create"})),
           Cardinality(Lists(c2h', Answers)) = Cardinality(Lists(c2h, Answers))
    PROVE  Counted'
<1>1. Counting' = Counting
  BY DEF Counting
<1>2. Lists(h2c, {"create"})' = Lists(h2c', {"create"}) /\ Lists(c2h, Answers)' = Lists(c2h', Answers)
  BY DEF Lists, Answers
<1> QED
  BY <1>1, <1>2 DEF Counted

\* or one thread begins or ends to be.
LEMMA CountOne ==
    ASSUME NEW t \in Thread, \A s \in Thread : s # t => (pc'[s] = "counted" <=> pc[s] = "counted")
    PROVE  /\ Cardinality(Counting) \in Nat
           /\ pc[t] = "counted" /\ pc'[t] # "counted" => Cardinality(Counting') = Cardinality(Counting) - 1
           /\ pc[t] # "counted" /\ pc'[t] = "counted" => Cardinality(Counting') = Cardinality(Counting) + 1
<1>1. IsFiniteSet(Counting)
  BY ContextAssumption, FS_Subset DEF Counting
<1>2. CASE pc[t] = "counted" /\ pc'[t] # "counted"
  <2>1. Counting' = Counting \ {t} /\ t \in Counting
    BY <1>2 DEF Counting
  <2> QED
    BY <1>1, <1>2, <2>1, FS_RemoveElement, FS_CardinalityType
<1>3. CASE pc[t] # "counted" /\ pc'[t] = "counted"
  <2>1. Counting' = Counting \cup {t} /\ t \notin Counting
    BY <1>3 DEF Counting
  <2> QED
    BY <1>1, <1>3, <2>1, FS_AddElement, FS_CardinalityType
<1> QED
  BY <1>1, <1>2, <1>3, FS_CardinalityType

\* The numbers of messages are numbers.
LEMMA ListsNat ==
    ASSUME ChannelOK
    PROVE  Cardinality(Lists(h2c, {"create"})) \in Nat /\ Cardinality(Lists(c2h, Answers)) \in Nat
BY FiniteLists DEF ChannelOK

\* The card's answer is counted for the request.
LEMMA AnswerCounted == ASSUME IInv, card_answer PROVE Counted'
<1> USE DEF IInv
<1> DEFINE m == Head(h2c)
<1>1. /\ h2c # <<>> /\ h2c' = Tail(h2c) /\ m \in Sent
      /\ UNCHANGED <<pc, m_cmdlist_finalized_in_progress>>
  BY TailOf DEF card_answer, ChannelOK, ctxVars, threadVars
<1>2. PICK r \in Reported :
          /\ c2h' = Append(c2h, r)
          /\ r.op \in Answers <=> m.op = "create"
          /\ r.op \in Answers => r.key = m.key
  <2>1. CASE m.op = "create" /\ c2h' = Append(c2h, Msg("success", m.key, m.by))
    BY <1>1, <2>1 DEF Sent, Reported, Answers, Msg
  <2>2. CASE m.op = "create" /\ c2h' = Append(c2h, Msg("failure", m.key, m.by))
    BY <1>1, <2>2 DEF Sent, Reported, Answers, Msg
  <2>3. CASE m.op = "destroy" /\ c2h' = Append(c2h, Msg("destroyed", m.key, <<>>))
    BY <1>1, <2>3 DEF Sent, Reported, Answers, Msg
  <2>4. CASE m.op = "clear" /\ c2h' = Append(c2h, Msg("cleared", <<>>, <<>>))
    BY <1>1, <2>4 DEF Sent, Reported, Answers, Msg
  <2> QED
    BY <2>1, <2>2, <2>3, <2>4 DEF card_answer
<1> DEFINE n == IF m.op = "create" /\ m.key[1] = "CMD" THEN 1 ELSE 0
<1>3. /\ Cardinality(Lists(h2c, {"create"})) = Cardinality(Lists(h2c', {"create"})) + n
      /\ Cardinality(Lists(h2c', {"create"})) \in Nat
  BY <1>1, TailLists DEF ChannelOK
<1> HIDE DEF m
<1>4. /\ Cardinality(Lists(c2h', Answers)) = Cardinality(Lists(c2h, Answers)) + n
      /\ Cardinality(Lists(c2h, Answers)) \in Nat
  <2>1. r.op \in Answers /\ r.key[1] = "CMD" <=> m.op = "create" /\ m.key[1] = "CMD"
    BY <1>2
  <2> QED
    BY <1>2, <2>1, AppendLists DEF ChannelOK
<1>5. Cardinality(Counting) \in Nat
  BY ContextAssumption, FS_Subset, FS_CardinalityType DEF Counting
<1>6. Counting' = Counting
  BY <1>1 DEF Counting
<1>7. Lists(h2c, {"create"})' = Lists(h2c', {"create"}) /\ Lists(c2h, Answers)' = Lists(c2h', Answers)
  BY DEF Lists, Answers
<1>8. n \in Nat
  OBVIOUS
<1> HIDE DEF n
<1> QED
  BY <1>1, <1>3, <1>4, <1>5, <1>6, <1>7, <1>8 DEF Counted

\* Every step keeps the count.
LEMMA CountNext == ASSUME IInv, Next PROVE Counted'
<1> USE DEF IInv, ctxVars, dbVars, threadVars, recVars, cardVars
<1>0. /\ Cardinality(Lists(h2c, {"create"})) \in Nat /\ Cardinality(Lists(c2h, Answers)) \in Nat
      /\ pc \in [Thread -> Creating \cup {"idle", "have"}] /\ ChannelOK /\ Counted
      /\ m_cmdlist_finalized_in_progress \in Nat
      /\ Lists(h2c, {"create"})' = Lists(h2c', {"create"}) /\ Lists(c2h, Answers)' = Lists(c2h', Answers)
  BY ListsNat DEF TypeOK, Lists, Answers
<1>1. ASSUME NEW t \in Thread, create(t) PROVE Counted'
  <2>1. \A t1 \in Thread : pc'[t1] = "counted" <=> pc[t1] = "counted"
    BY <1>0, <1>1 DEF create, Goto
  <2>3. /\ Cardinality(Lists(h2c', {"create"})) = Cardinality(Lists(h2c, {"create"}))
        /\ Cardinality(Lists(c2h', Answers)) = Cardinality(Lists(c2h, Answers))
    BY <1>1 DEF create
  <2> QED
    BY <1>0, <1>1, <2>1, <2>3, CountSame DEF create
<1>2. ASSUME NEW t \in Thread, finalize(t) PROVE Counted'
  <2>1. /\ \A s \in Thread : s # t => (pc'[s] = "counted" <=> pc[s] = "counted")
        /\ pc[t] = "alloc" /\ pc'[t] = "counted" /\ UNCHANGED <<h2c, c2h>>
        /\ m_cmdlist_finalized_in_progress' = m_cmdlist_finalized_in_progress + 1
    BY <1>0, <1>2 DEF finalize
  <2>2. Cardinality(Counting) \in Nat /\ Cardinality(Counting') = Cardinality(Counting) + 1
    BY <2>1, CountOne
  <2> QED
    BY <1>0, <2>1, <2>2 DEF Counted
<1>3. ASSUME NEW t \in Thread, send(t) PROVE Counted'
  <2> DEFINE m == Msg("create", Key(t), <<t, creates[t]>>)
  <2>1. /\ m \in Sent /\ m.op = "create" /\ m.key[1] = Does[t]
        /\ h2c' = Append(h2c, m) /\ UNCHANGED <<c2h, m_cmdlist_finalized_in_progress>>
        /\ pc' = [pc EXCEPT ![t] = "wait"]
        /\ \/ pc[t] = "alloc" /\ Does[t] # "CMD"
           \/ pc[t] = "counted" /\ Does[t] = "CMD"
    BY <1>0, <1>3, ContextAssumption DEF send, Goto, TypeOK, ThreadOK, Sent, Msg, Key, Object, Request
  <2> HIDE DEF m
  <2>2. Cardinality(Lists(h2c', {"create"})) =
            Cardinality(Lists(h2c, {"create"})) + IF Does[t] = "CMD" THEN 1 ELSE 0
    BY <1>0, <2>1, AppendLists DEF ChannelOK
  <2>3. CASE Does[t] = "CMD"
    <3>1. Cardinality(Counting) \in Nat /\ Cardinality(Counting') = Cardinality(Counting) - 1
      BY <1>0, <2>1, <2>3, CountOne
    <3> QED
      BY <1>0, <2>1, <2>2, <2>3, <3>1 DEF Counted
  <2>4. CASE Does[t] # "CMD"
    <3>1. Cardinality(Lists(h2c', {"create"})) = Cardinality(Lists(h2c, {"create"}))
      BY <1>0, <2>2, <2>4
    <3> QED
      BY <1>0, <2>1, <2>4, <3>1, CountSame
  <2> QED
    BY <2>3, <2>4
<1>4. ASSUME NEW t \in Thread, send_fail(t) PROVE Counted'
  <2>1. \A t1 \in Thread : pc'[t1] = "counted" <=> pc[t1] = "counted"
    BY <1>0, <1>4 DEF send_fail, Goto
  <2>3. /\ Cardinality(Lists(h2c', {"create"})) = Cardinality(Lists(h2c, {"create"}))
        /\ Cardinality(Lists(c2h', Answers)) = Cardinality(Lists(c2h, Answers))
    BY <1>4 DEF send_fail
  <2> QED
    BY <1>0, <1>4, <2>1, <2>3, CountSame DEF send_fail
<1>5. ASSUME NEW t \in Thread, finalize_fail(t) PROVE Counted'
  <2>1. /\ \A s \in Thread : s # t => (pc'[s] = "counted" <=> pc[s] = "counted")
        /\ pc[t] = "counted" /\ pc'[t] = "failed" /\ UNCHANGED <<h2c, c2h>>
        /\ m_cmdlist_finalized_in_progress' = m_cmdlist_finalized_in_progress - 1
    BY <1>0, <1>5 DEF finalize_fail
  <2>2. Cardinality(Counting) \in Nat /\ Cardinality(Counting') = Cardinality(Counting) - 1
    BY <2>1, CountOne
  <2> QED
    BY <1>0, <2>1, <2>2 DEF Counted
<1>6. ASSUME NEW t \in Thread, wait_create_command(t) PROVE Counted'
  <2>1. \A t1 \in Thread : pc'[t1] = "counted" <=> pc[t1] = "counted"
    BY <1>0, <1>6 DEF wait_create_command, Goto
  <2>3. /\ Cardinality(Lists(h2c', {"create"})) = Cardinality(Lists(h2c, {"create"}))
        /\ Cardinality(Lists(c2h', Answers)) = Cardinality(Lists(c2h, Answers))
    BY <1>6 DEF wait_create_command
  <2> QED
    BY <1>0, <1>6, <2>1, <2>3, CountSame DEF wait_create_command
<1>7. ASSUME NEW t \in Thread, wait_sleep(t) PROVE Counted'
  <2>1. \A t1 \in Thread : pc'[t1] = "counted" <=> pc[t1] = "counted"
    BY <1>0, <1>7 DEF wait_sleep, Goto
  <2>3. /\ Cardinality(Lists(h2c', {"create"})) = Cardinality(Lists(h2c, {"create"}))
        /\ Cardinality(Lists(c2h', Answers)) = Cardinality(Lists(c2h, Answers))
    BY <1>7 DEF wait_sleep
  <2> QED
    BY <1>0, <1>7, <2>1, <2>3, CountSame DEF wait_sleep
<1>8. ASSUME NEW t \in Thread, create_success(t) PROVE Counted'
  <2>1. \A t1 \in Thread : pc'[t1] = "counted" <=> pc[t1] = "counted"
    BY <1>0, <1>8 DEF create_success, Goto
  <2>3. /\ Cardinality(Lists(h2c', {"create"})) = Cardinality(Lists(h2c, {"create"}))
        /\ Cardinality(Lists(c2h', Answers)) = Cardinality(Lists(c2h, Answers))
    BY <1>8 DEF create_success
  <2> QED
    BY <1>0, <1>8, <2>1, <2>3, CountSame DEF create_success
<1>9. ASSUME NEW t \in Thread, create_failure(t) PROVE Counted'
  <2>1. \A t1 \in Thread : pc'[t1] = "counted" <=> pc[t1] = "counted"
    BY <1>0, <1>9 DEF create_failure, Leave, Goto
  <2>3. /\ Cardinality(Lists(h2c', {"create"})) = Cardinality(Lists(h2c, {"create"}))
        /\ Cardinality(Lists(c2h', Answers)) = Cardinality(Lists(c2h, Answers))
    BY <1>9 DEF create_failure
  <2> QED
    BY <1>0, <1>9, <2>1, <2>3, CountSame DEF create_failure
<1>10. ASSUME NEW t \in Thread, destroy(t) PROVE Counted'
  <2>1. \A t1 \in Thread : pc'[t1] = "counted" <=> pc[t1] = "counted"
    BY <1>0, <1>10 DEF destroy, Leave, Goto
  <2>2. Msg("destroy", Key(t), <<>>) \in Sent /\ Msg("destroy", Key(t), <<>>).op # "create"
    BY ContextAssumption DEF TypeOK, Sent, Msg, Key, Object
  <2>3. /\ Cardinality(Lists(h2c', {"create"})) = Cardinality(Lists(h2c, {"create"}))
        /\ Cardinality(Lists(c2h', Answers)) = Cardinality(Lists(c2h, Answers))
    BY <1>0, <1>10, <2>2, AppendLists DEF destroy, ChannelOK
  <2> QED
    BY <1>0, <1>10, <2>1, <2>3, CountSame DEF destroy
<1>11. ASSUME NEW x \in {"context", "fatal"}, recover(x) PROVE Counted'
  <2>1. \A t1 \in Thread : pc'[t1] = "counted" <=> pc[t1] = "counted"
    BY <1>0, <1>11 DEF recover
  <2>3. /\ Cardinality(Lists(h2c', {"create"})) = Cardinality(Lists(h2c, {"create"}))
        /\ Cardinality(Lists(c2h', Answers)) = Cardinality(Lists(c2h, Answers))
    BY <1>11 DEF recover
  <2> QED
    BY <1>0, <1>11, <2>1, <2>3, CountSame DEF recover
<1>12. ASSUME recover_send PROVE Counted'
  <2>1. \A t1 \in Thread : pc'[t1] = "counted" <=> pc[t1] = "counted"
    BY <1>0, <1>12 DEF recover_send
  <2>2. Msg("clear", <<>>, <<>>) \in Sent /\ Msg("clear", <<>>, <<>>).op # "create"
    BY DEF Sent, Msg
  <2>3. /\ Cardinality(Lists(h2c', {"create"})) = Cardinality(Lists(h2c, {"create"}))
        /\ Cardinality(Lists(c2h', Answers)) = Cardinality(Lists(c2h, Answers))
    <3>1. CASE dead
      BY <1>12, <3>1 DEF recover_send
    <3>2. CASE ~dead
      <4>1. h2c' = Append(h2c, Msg("clear", <<>>, <<>>)) /\ UNCHANGED c2h
        BY <1>12, <3>2 DEF recover_send
      <4> QED
        BY <1>0, <2>2, <4>1, AppendLists DEF ChannelOK
    <3> QED
      BY <3>1, <3>2
  <2> QED
    BY <1>0, <1>12, <2>1, <2>3, CountSame DEF recover_send
<1>13. ASSUME recover_wait PROVE Counted'
  <2>1. \A t1 \in Thread : pc'[t1] = "counted" <=> pc[t1] = "counted"
    BY <1>0, <1>13 DEF recover_wait
  <2>3. /\ Cardinality(Lists(h2c', {"create"})) = Cardinality(Lists(h2c, {"create"}))
        /\ Cardinality(Lists(c2h', Answers)) = Cardinality(Lists(c2h, Answers))
    BY <1>13 DEF recover_wait
  <2> QED
    BY <1>0, <1>13, <2>1, <2>3, CountSame DEF recover_wait
<1>14. ASSUME recover_end PROVE Counted'
  <2>1. \A t1 \in Thread : pc'[t1] = "counted" <=> pc[t1] = "counted"
    BY <1>0, <1>14 DEF recover_end
  <2>3. /\ Cardinality(Lists(h2c', {"create"})) = Cardinality(Lists(h2c, {"create"}))
        /\ Cardinality(Lists(c2h', Answers)) = Cardinality(Lists(c2h, Answers))
    BY <1>14 DEF recover_end
  <2> QED
    BY <1>0, <1>14, <2>1, <2>3, CountSame DEF recover_end
<1>15. ASSUME NEW op, process_create_reply(op) PROVE Counted'
  <2> DEFINE ev == Head(c2h)
  <2>1. /\ c2h # <<>> /\ c2h' = Tail(c2h) /\ ev.op \in Answers /\ UNCHANGED h2c
        /\ m_cmdlist_finalized_in_progress' =
               IF ev.key[1] = "CMD" /\ m_cmdlist_finalized_in_progress > 0
               THEN m_cmdlist_finalized_in_progress - 1 ELSE m_cmdlist_finalized_in_progress
        /\ \A t \in Thread : pc'[t] = "counted" <=> pc[t] = "counted"
    BY <1>0, <1>15 DEF process_create_reply, Receive, Notify, Answers
  <2>2. /\ Cardinality(Lists(c2h, Answers)) =
               Cardinality(Lists(c2h', Answers)) + IF ev.key[1] = "CMD" THEN 1 ELSE 0
        /\ Cardinality(Lists(c2h', Answers)) \in Nat
    BY <1>0, <2>1, TailLists DEF ChannelOK
  <2>3. Counting' = Counting /\ Cardinality(Counting) \in Nat
    BY <2>1, ContextAssumption, FS_Subset, FS_CardinalityType DEF Counting
  <2> HIDE DEF ev
  <2> QED
    BY <1>0, <2>1, <2>2, <2>3 DEF Counted
<1>16. ASSUME destroyed PROVE Counted'
  <2>1. \A t1 \in Thread : pc'[t1] = "counted" <=> pc[t1] = "counted"
    BY <1>0, <1>16 DEF destroyed
  <2>2. c2h # <<>> /\ c2h' = Tail(c2h) /\ Head(c2h).op \notin Answers /\ UNCHANGED h2c
    BY <1>16 DEF destroyed, Receive, Answers
  <2>3. /\ Cardinality(Lists(h2c', {"create"})) = Cardinality(Lists(h2c, {"create"}))
        /\ Cardinality(Lists(c2h', Answers)) = Cardinality(Lists(c2h, Answers))
    BY <1>0, <2>2, TailLists DEF ChannelOK
  <2> QED
    BY <1>0, <1>16, <2>1, <2>3, CountSame DEF destroyed
<1>17. ASSUME NEW op, critical_error(op) PROVE Counted'
  <2>1. \A t1 \in Thread : pc'[t1] = "counted" <=> pc[t1] = "counted"
    BY <1>0, <1>17 DEF critical_error, Notify
  <2>2. c2h # <<>> /\ c2h' = Tail(c2h) /\ Head(c2h).op \notin Answers /\ UNCHANGED h2c
    BY <1>17 DEF critical_error, Receive, Answers
  <2>3. /\ Cardinality(Lists(h2c', {"create"})) = Cardinality(Lists(h2c, {"create"}))
        /\ Cardinality(Lists(c2h', Answers)) = Cardinality(Lists(c2h, Answers))
    BY <1>0, <2>2, TailLists DEF ChannelOK
  <2> QED
    BY <1>0, <1>17, <2>1, <2>3, CountSame DEF critical_error
<1>18. ASSUME errors_cleared PROVE Counted'
  <2>1. \A t1 \in Thread : pc'[t1] = "counted" <=> pc[t1] = "counted"
    BY <1>0, <1>18 DEF errors_cleared, Notify
  <2>2. c2h # <<>> /\ c2h' = Tail(c2h) /\ Head(c2h).op \notin Answers /\ UNCHANGED h2c
    BY <1>18 DEF errors_cleared, Receive, Answers
  <2>3. /\ Cardinality(Lists(h2c', {"create"})) = Cardinality(Lists(h2c, {"create"}))
        /\ Cardinality(Lists(c2h', Answers)) = Cardinality(Lists(c2h, Answers))
    BY <1>0, <2>2, TailLists DEF ChannelOK
  <2> QED
    BY <1>0, <1>18, <2>1, <2>3, CountSame DEF errors_cleared
<1>19. ASSUME NEW op, response_exit(op) PROVE Counted'
  <2>1. \A t1 \in Thread : pc'[t1] = "counted" <=> pc[t1] = "counted"
    BY <1>0, <1>19 DEF response_exit, Notify
  <2>2. c2h # <<>> /\ c2h' = Tail(c2h) /\ Head(c2h).op \notin Answers /\ UNCHANGED h2c
    BY <1>19 DEF response_exit, Receive, Answers
  <2>3. /\ Cardinality(Lists(h2c', {"create"})) = Cardinality(Lists(h2c, {"create"}))
        /\ Cardinality(Lists(c2h', Answers)) = Cardinality(Lists(c2h, Answers))
    BY <1>0, <2>2, TailLists DEF ChannelOK
  <2> QED
    BY <1>0, <1>19, <2>1, <2>3, CountSame DEF response_exit
<1>20. ASSUME card_answer PROVE Counted'
  BY <1>20, AnswerCounted
<1>21. ASSUME NEW op, card_breaks(op) PROVE Counted'
  <2>1. \A t1 \in Thread : pc'[t1] = "counted" <=> pc[t1] = "counted"
    BY <1>0, <1>21 DEF card_breaks
  <2>2. Msg(op, <<>>, <<>>) \in Reported /\ Msg(op, <<>>, <<>>).op \notin Answers
    BY <1>21 DEF card_breaks, Reported, Answers, Msg
  <2>3. /\ Cardinality(Lists(h2c', {"create"})) = Cardinality(Lists(h2c, {"create"}))
        /\ Cardinality(Lists(c2h', Answers)) = Cardinality(Lists(c2h, Answers))
    BY <1>0, <1>21, <2>2, AppendLists DEF card_breaks, ChannelOK
  <2> QED
    BY <1>0, <1>21, <2>1, <2>3, CountSame DEF card_breaks
<1>22. ASSUME NEW op, card_dies(op) PROVE Counted'
  <2>1. \A t1 \in Thread : pc'[t1] = "counted" <=> pc[t1] = "counted"
    BY <1>0, <1>22 DEF card_dies
  <2>2. Msg(op, <<>>, <<>>) \in Reported /\ Msg(op, <<>>, <<>>).op \notin Answers
    BY <1>22 DEF card_dies, Reported, Answers, Msg
  <2>3. /\ Cardinality(Lists(h2c', {"create"})) = Cardinality(Lists(h2c, {"create"}))
        /\ Cardinality(Lists(c2h', Answers)) = Cardinality(Lists(c2h, Answers))
    BY <1>0, <1>22, <2>2, AppendLists DEF card_dies, ChannelOK
  <2> QED
    BY <1>0, <1>22, <2>1, <2>3, CountSame DEF card_dies
<1> QED
  BY <1>1, <1>2, <1>3, <1>4, <1>5, <1>6, <1>7, <1>8, <1>9, <1>10, <1>11, <1>12, <1>13, <1>14, <1>15, <1>16, <1>17, <1>18, <1>19, <1>20, <1>21, <1>22 DEF Next, CreateStep, RecoverStep, RespStep

-----------------------------------------------------------------------------
(***************************************************************************)
(* The theorems                                                            *)
(***************************************************************************)

\* A context that was just created has no objects and no requests.
LEMMA InitAll == Init => IInv
<1> SUFFICES ASSUME Init PROVE IInv
  OBVIOUS
<1>1. TypeOK /\ ChannelOK /\ ThreadOK
  <2>1. TypeOK
    <3>1. DOMAIN m_create_reply = {} /\ 0 \in Id
      BY ContextAssumption DEF Init, Id
    <3> QED
      BY <3>1 DEF Init, TypeOK, Creating, Object
  <2>2. ChannelOK
    BY DEF Init, ChannelOK
  <2>3. ThreadOK
    BY DEF Init, ThreadOK
  <2> QED
    BY <2>1, <2>2, <2>3
<1>2. /\ h2c = <<>> /\ c2h = <<>> /\ live = {} /\ dead = FALSE /\ m_critical_error = "none"
      /\ held = [k \in Kind |-> {}] /\ pc = [t \in Thread |-> "idle"] /\ recovers = 0 /\ rec = "idle"
      /\ m_cmdlist_finalized_in_progress = 0 /\ DOMAIN m_create_reply = {}
  BY DEF Init
<1>3. \A ops, key : ~Has(h2c, ops, key) /\ ~Has(c2h, ops, key) /\ One(h2c, ops, key) /\ One(c2h, ops, key)
  BY <1>2 DEF Has, One
<1>4. \A t \in Thread, key \in Object : ~Uses(t, key)
  BY <1>2 DEF Uses, Creating
<1>5. Ownership
  <2>1. \A key \in Object : ~Owned(key) /\ ~Leaves(key) /\ ~Left(key)
    BY <1>2, <1>3, <1>4 DEF Owned, Leaves, Left
  <2>2. \A key \in Object : Exclusive(key)
    BY <1>2, <1>3, <1>4, <2>1 DEF Exclusive
  <2>3. Haves /\ Lost
    BY <1>2 DEF Haves, Lost, card_fatal
  <2>4. Kept
    BY <1>2 DEF Kept, Object
  <2>5. Found
    BY <1>2, <2>1 DEF Found
  <2> QED
    BY <2>2, <2>3, <2>4, <2>5 DEF Ownership
<1>6. Answered
  <2>1. \A key \in Object : Asked(key)
    BY <1>2, <1>3 DEF Asked
  <2>2. \A key \in Object, by \in Request : ~Pending(key, by)
    BY <1>2 DEF Pending, Bears
  <2>3. AnswerIsMineUnlessRecovered
    BY <1>2 DEF AnswerIsMineUnlessRecovered, AnswerIsMine
  <2> QED
    BY <1>2, <2>1, <2>2, <2>3 DEF Answered, Requests, Recovered
<1>7. Counted
  <2>1. Counting = {} /\ Lists(h2c, {"create"}) = {} /\ Lists(c2h, Answers) = {}
    <3>1. DOMAIN h2c = {} /\ DOMAIN c2h = {}
      BY <1>2
    <3> QED
      BY <1>2, <3>1 DEF Counting, Lists
  <2>2. /\ Cardinality(Counting) = 0 /\ Cardinality(Lists(h2c, {"create"})) = 0
        /\ Cardinality(Lists(c2h, Answers)) = 0
    BY <2>1, FS_EmptySet
  <2>3. m_cmdlist_finalized_in_progress = 0
    BY <1>2
  <2> QED
    BY <2>2, <2>3 DEF Counted
<1> QED
  BY <1>1, <1>5, <1>6, <1>7 DEF IInv

\* A step that changes nothing.
LEMMA Stutter == ASSUME IInv, UNCHANGED vars PROVE IInv'
<1> USE DEF IInv, vars, ctxVars, dbVars, threadVars, recVars, cardVars
<1>1. TypeOK' /\ ChannelOK' /\ ThreadOK'
  BY DEF TypeOK, ChannelOK, ThreadOK
<1>2. Ownership'
  <2>1. SameUsers
    BY DEF SameUsers
  <2>2. SameDestroys
    BY NothingSent
  <2>3. Lost'
    BY DEF Ownership, Lost, card_fatal
  <2> QED
    BY <2>1, <2>2, <2>3, OwnersSame
<1>3. Answered'
  <2>1. ASSUME Calm PROVE Requests'
    <3>1. SameWaiters
      BY DEF SameWaiters
    <3>2. Fewer(h2c, h2c', {"create"}) /\ Fewer(c2h, c2h', Answers)
      BY SameFewer
    <3> QED
      BY <2>1, <3>1, <3>2, RequestsSame
  <2>2. Calm' => Calm
    BY DEF Calm, broken
  <2>3. Recovered' /\ AnswerIsMineUnlessRecovered'
    BY DEF Answered, Recovered, AnswerIsMineUnlessRecovered, AnswerIsMine, Mine
  <2> QED
    BY <2>1, <2>2, <2>3 DEF Answered, Requests
<1>4. Counted'
  BY CountSame
<1> QED
  BY <1>1, <1>2, <1>3, <1>4

\* IInv is an invariant of a context, whatever its threads and the card do.
THEOREM Inductive == Spec => []IInv
<1>1. IInv /\ [Next]_vars => IInv'
  BY TypeNext, ChannelNext, ThreadNext, OwnersNext, RequestsNext, MineNext, CountNext, Stutter
     DEF IInv, Answered
<1> QED
  BY InitAll, <1>1, PTL DEF Spec

\* What the owners of an id are, in numbers.
LEMMA OwnersNumber ==
    ASSUME IInv, NEW key \in Object
    PROVE  /\ Owners(key) = IF Owned(key) THEN 1 ELSE 0
           /\ Leaves(key) <=> InFlight(h2c, "destroy", key) # {}
           /\ Left(key) <=> InFlight(c2h, "destroyed", key) # {}
<1> DEFINE T == {t \in Thread : pc[t] \in Creating /\ Key(t) = key}
           L == live \cap {key}
           H == InFlight(h2c, "destroy", key)
           C == InFlight(c2h, "destroyed", key)
<1>1. Exclusive(key)
  BY DEF IInv, Ownership
<1>2. ASSUME NEW S, \A x, y \in S : x = y PROVE Cardinality(S) = IF S = {} THEN 0 ELSE 1
  <2>1. CASE S = {}
    BY <2>1, FS_EmptySet
  <2>2. CASE S # {}
    <3>1. PICK x : S = {x}
      BY <1>2, <2>2
    <3> QED
      BY <2>2, <3>1, FS_Singleton
  <2> QED
    BY <2>1, <2>2
<1>3. Cardinality(T) = (IF T = {} THEN 0 ELSE 1) /\ (T # {} <=> \E t \in Thread : Uses(t, key))
  <2>1. \A x, y \in T : x = y
    BY <1>1 DEF Exclusive, Uses
  <2>2. T # {} <=> \E t \in Thread : Uses(t, key)
    BY DEF Uses
  <2> QED
    BY <1>2, <2>1, <2>2
<1>4. Cardinality(L) = (IF L = {} THEN 0 ELSE 1) /\ (L # {} <=> key \in live)
  <2>1. \A x, y \in L : x = y
    OBVIOUS
  <2> QED
    BY <1>2, <2>1
<1>5. Cardinality(H) = (IF H = {} THEN 0 ELSE 1) /\ (H # {} <=> Leaves(key))
  <2>1. \A x, y \in H : x = y
    BY <1>1 DEF Exclusive, One, InFlight
  <2>2. H # {} <=> Leaves(key)
    BY DEF InFlight, Leaves, Has
  <2> QED
    BY <1>2, <2>1, <2>2
<1>6. Cardinality(C) = (IF C = {} THEN 0 ELSE 1) /\ (C # {} <=> Left(key))
  <2>1. \A x, y \in C : x = y
    BY <1>1 DEF Exclusive, One, InFlight
  <2>2. C # {} <=> Left(key)
    BY DEF InFlight, Left, Has
  <2> QED
    BY <1>2, <2>1, <2>2
<1>7. Owners(key) = Cardinality(T) + Cardinality(L) + Cardinality(H) + Cardinality(C)
  BY DEF Owners
<1> HIDE DEF T, L, H, C
<1>8. Owners(key) = IF Owned(key) THEN 1 ELSE 0
  BY <1>1, <1>3, <1>4, <1>5, <1>6, <1>7 DEF Exclusive, Owned
<1> QED
  BY <1>5, <1>6, <1>8 DEF H, C

\* Protocol ids: one owner each, which holds it; none is lost as long as the card
\* is there; and the events about an object find it (nnpiContextObjDB).
THEOREM IdsAreRight == Spec => []IdsRight
<1>1. IInv => OneOwner
  <2> SUFFICES ASSUME IInv, NEW key \in Object
               PROVE  Owners(key) <= 1 /\ (Owners(key) = 1 => key[2] \in held[key[1]])
    BY DEF OneOwner
  <2>1. Exclusive(key)
    BY DEF IInv, Ownership
  <2> QED
    BY <2>1, OwnersNumber DEF Exclusive
<1>2. IInv => NoIdLost
  <2> SUFFICES ASSUME IInv, ~dead, NEW k \in FreesOnFailure, NEW id \in held[k]
               PROVE  Owners(<<k, id>>) = 1
    BY DEF NoIdLost
  <2>1. <<k, id>> \in Object /\ <<k, id>>[1] = k /\ <<k, id>>[2] = id
    BY DEF IInv, TypeOK, Object, FreesOnFailure, Kind
  <2>2. Owned(<<k, id>>)
    BY <2>1 DEF IInv, Ownership, Kept
  <2> QED
    BY <2>1, <2>2, OwnersNumber
<1>3. IInv => EventsFindObjects
  <2> SUFFICES ASSUME IInv, ~exited, NEW key \in Object, key[1] \in InDB,
                      \/ key \in live \/ InFlight(h2c, "destroy", key) # {}
                      \/ InFlight(c2h, "destroyed", key) # {}
               PROVE  key \in objdb
    BY DEF EventsFindObjects
  <2>1. key \in live \/ Leaves(key) \/ Left(key)
    BY OwnersNumber
  <2> QED
    BY <2>1 DEF IInv, Ownership, Found
<1>4. IInv => IdsRight
  BY <1>1, <1>2, <1>3 DEF IInv, IdsRight
<1> QED
  BY <1>4, Inductive, PTL

\* m_cmdlist_finalized_in_progress is the number of finalizes without an answer:
\* wait_can_schedule waits neither for nothing nor forever on a count that is off.
THEOREM CountIsExact == Spec => []FinalizeCountExact
<1>1. IInv => FinalizeCountExact
  <2> SUFFICES ASSUME IInv PROVE FinalizeCountExact
    OBVIOUS
  <2>1. /\ Lists(h2c, {"create"}) = {i \in DOMAIN h2c : h2c[i].op = "create" /\ h2c[i].key[1] = "CMD"}
        /\ Lists(c2h, Answers) =
               {i \in DOMAIN c2h : c2h[i].op \in {"success", "failure"} /\ c2h[i].key[1] = "CMD"}
    BY DEF Lists, Answers
  <2> QED
    BY <2>1 DEF IInv, Counted, Counting, FinalizeCountExact
<1> QED
  BY <1>1, Inductive, PTL

\* In a context that was never recovered wait_create_command returns the answer
\* to the request of its own caller.
THEOREM AnswersAreMine == Spec => []AnswerIsMineUnlessRecovered
<1>1. IInv => AnswerIsMineUnlessRecovered
  BY DEF IInv, Answered
<1> QED
  BY <1>1, Inductive, PTL
=============================================================================
